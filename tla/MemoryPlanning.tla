----------------------------- MODULE MemoryPlanning -----------------------------
(***************************************************************************)
(* The memory planning pass (src/transform/ascend_memory_planning.cc,      *)
(* class AscendMemoryPlanner): a linear walk over the statements yields    *)
(* the interval in which each on-chip buffer is live; the buffers of each  *)
(* memory scope are then placed, by the linear scan of LinearScan when     *)
(* automatic planning is on, one after another when it is off.             *)
(*                                                                         *)
(* linear_seq_ has an entry for every token of the program except "else":  *)
(* positions of tokens serve as its indices.                               *)
(***************************************************************************)
EXTENDS TileProgram, LinearScan

CONSTANTS
  ScopeOf,      \* storage scope of each buffer
  SizeOf,       \* CalculateBufferSize of each buffer, whole 32-byte blocks
  MemoryLimit,  \* memory_limits_ of each scope
  OriginOrder   \* the buffers in the order of their Allocate nodes

\* CalculateBufferSize rounds sizes up, and every buffer has an Allocate node.
ASSUME BufferAssumption ==
  /\ SizeOf \in [Buffers -> {n \in Nat : n > 0 /\ n % 32 = 0}]
  /\ \A b \in Buffers : MemoryLimit[ScopeOf[b]] \in {n \in Nat : n % 32 = 0}
  /\ OriginOrder \in Seq(Buffers)
  /\ \A b \in Buffers : \E k \in DOMAIN OriginOrder : OriginOrder[k] = b

VARIABLES
  prog,         \* the kernel, a sequence of tokens
  config,       \* pass configuration, platform and address annotations
  phase,        \* the pass that runs, or the kernel itself
  scopes,       \* scope groups that PlanMemory has not reached
  address_map   \* the address_map attribute: offsets of the placed buffers

planVars == <<prog, config, phase, scopes, address_map>>

Tokens ==
  {t \in [kind : {"op", "store", "else"} \cup Opening \cup Closing, pipe : Pipes,
          reads : SUBSET Buffers, writes : SUBSET Buffers, arg : STRING] :
     /\ t.kind = "for" => t.arg \in {"positive", "optional", "zero"}
     /\ t.reads # {} => t.kind \in {"op", "store", "let"}
     /\ t.writes # {} => t.kind \in {"op", "store"}}

-----------------------------------------------------------------------------
\* The touched list of an entry; a let is charged with its value at its end.
Touched(p, i) ==
  IF p[i].kind = "endlet" THEN p[Stmt(p, i)].reads
  ELSE IF Working(p[i]) THEN p[i].reads \cup p[i].writes ELSE {}

Touches(p, b) == {i \in DOMAIN p : b \in Touched(p, i)}

UsedBuffers(p) == UNION {Touched(p, i) : i \in DOMAIN p}

\* A buffer read by a let is seen when the next entry is about to be made.
first_use(p, b) ==
  Min({i \in Touches(p, b) : Working(p[i])}
        \cup {i + 1 : i \in {j \in At(p, {"let"}) : b \in p[j].reads}})

\* scope_level_ of a statement: the loops around it, a loop counting itself.
Level(p, i) == Cardinality({k \in At(p, {"for"}) : k <= i /\ i <= Close(p, k)})

HasGen(p, b) == first_use(p, b) \in Touches(p, b)

Gen(p, b) == Stmt(p, first_use(p, b))

LastTouch(p, b) == Stmt(p, Max(Touches(p, b)))

GenKillSeq(p) ==
  LET used == UsedBuffers(p)
      stmts == {LastTouch(p, b) : b \in used} \cup {Gen(p, b) : b \in {c \in used : HasGen(p, c)}}
  IN  {i \in DOMAIN p : p[i].kind # "else" /\ Stmt(p, i) \in stmts}

(***************************************************************************)
(* The statement that kills b.  When its last touch is deeper in loops     *)
(* than its first, the kill moves to the last entry before the code        *)
(* returns to the level that encloses the first touch.                     *)
(***************************************************************************)
ReorderKillPoints(p, b) ==
  LET seq == GenKillSeq(p)
      gen_level == Level(p, Gen(p, b))
      After(i) == {j \in seq : j > i}
      Ends(i) == After(i) = {} \/ Level(p, Min(After(i))) = gen_level - 1
  IN  IF HasGen(p, b) /\ Level(p, LastTouch(p, b)) > gen_level
      THEN Stmt(p, Min({i \in seq : i >= LastTouch(p, b) /\ Ends(i)}))
      ELSE LastTouch(p, b)

\* Mutant: a buffer defined before a loop is not kept to the end of the loop.
ExtendNothing(p, b, gen_idx, kill_idx) == kill_idx

ExtendKillIndex(p, b, gen_idx, kill_idx) ==
  LET carried == {l \in At(p, {"for"}) :
                    /\ gen_idx < l /\ l <= kill_idx /\ kill_idx < Close(p, l)
                    /\ \E t \in Touches(p, b) : Inside(p, l, t)}
  IN  Max({kill_idx} \cup {Close(p, l) : l \in carried})

\* FindEventIndex takes a birth at the opening entry, a death at the closing one.
EndOf(p, b) == ExtendKillIndex(p, b, Gen(p, b), Close(p, ReorderKillPoints(p, b)))

IntervalOf(p, b) ==
  [start |-> Gen(p, b), end |-> EndOf(p, b), size |-> SizeOf[b], pre |-> config.pre[b]]

Group(p, s) == {b \in UsedBuffers(p) : ScopeOf[b] = s}

-----------------------------------------------------------------------------
(***************************************************************************)
(* PlanMemoryForScopeLinear: in the unified buffer the annotated buffers   *)
(* come first and the others follow the last of them; elsewhere the        *)
(* others are counted from zero, whatever is annotated.                    *)
(***************************************************************************)
LinearOffsets(s) ==
  LET group == Group(prog, s)
      pre == config.pre
      annotated == {b \in group : pre[b] # NoOffset}
      rest == group \ annotated
      base == IF s = "shared.ub" THEN Max({0} \cup {pre[b] + SizeOf[b] : b \in annotated}) ELSE 0
      next[k \in 0 .. Len(OriginOrder)] ==
        IF k = 0 THEN base
        ELSE IF OriginOrder[k] \in rest THEN AlignUp(next[k - 1] + SizeOf[OriginOrder[k]])
        ELSE next[k - 1]
      Index(b) == CHOOSE k \in DOMAIN OriginOrder : OriginOrder[k] = b
  IN  [b \in group |-> IF b \in annotated THEN pre[b] ELSE next[Index(b) - 1]]

Publish(offsets) ==
  address_map' = [b \in DOMAIN address_map \cup DOMAIN offsets |->
                    IF b \in DOMAIN offsets THEN offsets[b] ELSE address_map[b]]

\* PlanMemory reaches the scope groups, an unordered map, in any order.
PlanMemoryForScopeLinear(s) ==
  /\ phase = "plan"
  /\ s \in scopes
  /\ ~config.auto
  /\ Publish(LinearOffsets(s))
  /\ scopes' = scopes \ {s}
  /\ UNCHANGED <<prog, config, phase, scanVars>>

PlanMemoryForScope(s) ==
  LET born == {z \in Group(prog, s) : HasGen(prog, z)} IN
  /\ phase = "plan"
  /\ s \in scopes
  /\ config.auto
  /\ planning = "idle"
  /\ scopes' = scopes \ {s}
  /\ UNCHANGED <<prog, config, phase, address_map>>
  /\ interval' = [z \in born |-> IntervalOf(prog, z)]
  /\ limit' = MemoryLimit[s]
  /\ todo' = born
  /\ active' = {} /\ free' = {}
  /\ next_new_offset' = 0
  /\ offset' = [z \in born |-> NoOffset]
  /\ planning' = "run"

\* The end of PlanMemoryForScope: the allocations go into address_map_.
ScopePlanned ==
  /\ planning = "done"
  /\ Publish(offset)
  /\ planning' = "idle"
  /\ UNCHANGED <<prog, config, phase, scopes, interval, limit, todo, active, free,
                 next_new_offset, offset>>

PlanFailed ==
  /\ phase = "plan"
  /\ planning = "failed"
  /\ phase' = "failed"
  /\ UNCHANGED <<prog, config, scopes, address_map, scanVars>>

PlanInit ==
  /\ phase = "plan"
  /\ scopes = {ScopeOf[b] : b \in UsedBuffers(prog)}
  /\ address_map = [b \in {} |-> 0]
  /\ planning = "idle"
  /\ interval = [b \in {} |-> 0]
  /\ offset = [b \in {} |-> 0]
  /\ limit = 0 /\ next_new_offset = 0
  /\ todo = {} /\ active = {} /\ free = {}

PlanNext ==
  \/ \E s \in scopes : PlanMemoryForScope(s) \/ PlanMemoryForScopeLinear(s)
  \/ Allocate /\ UNCHANGED planVars
  \/ ScopePlanned
  \/ PlanFailed

-----------------------------------------------------------------------------
AnnotatedBuffers == {b \in UsedBuffers(prog) : config.pre[b] # NoOffset}

\* Two buffers are live at a common statement.
Crossing(p, b, c) == Gen(p, b) <= EndOf(p, c) /\ Gen(p, c) <= EndOf(p, b)

(***************************************************************************)
(* Annotated addresses that the plan can honour.  The linear scan compares *)
(* lifetimes strictly and offsets as requested; the linear plan takes the  *)
(* annotated buffers as they are, and counts past them in the unified      *)
(* buffer only.                                                            *)
(***************************************************************************)
AnnotationsClean ==
  \A a \in AnnotatedBuffers :
    IF config.auto
    THEN HasGen(prog, a) =>
           /\ AlignUp(config.pre[a]) = config.pre[a]
           /\ \A b \in UsedBuffers(prog) \ {a} :
                HasGen(prog, b) /\ ScopeOf[b] = ScopeOf[a] /\ Crossing(prog, b, a)
                  => Gen(prog, b) < EndOf(prog, a) /\ Gen(prog, a) < EndOf(prog, b)
    ELSE /\ ScopeOf[a] = "shared.ub"
         /\ \A c \in AnnotatedBuffers \ {a} :
              \/ config.pre[a] + SizeOf[a] <= config.pre[c]
              \/ config.pre[c] + SizeOf[c] <= config.pre[a]
=============================================================================
