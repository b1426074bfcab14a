------------------------------ MODULE MixedProgram ------------------------------
(***************************************************************************)
(* The statements of a kernel that uses both kinds of core, before it is   *)
(* split: tile operations, loops and branches.  An operation has the       *)
(* on-chip buffers and the global arrays it reads and writes; "sliced" are *)
(* those it accesses at an offset that is not a constant, so that a write  *)
(* replaces a part of the buffer only.  A symbolic loop has an extent that *)
(* the compiler does not know.                                             *)
(***************************************************************************)
EXTENDS Integers, Sequences, FiniteSets, SequencesExt

CONSTANTS
  CubeBuffers, VecBuffers,   \* on-chip buffers, by the core that has them
  Workspaces                 \* global arrays the cores exchange data through,
                             \* in the order of their names

Local == CubeBuffers \cup VecBuffers
Shared == ToSet(Workspaces)

\* scope: the T.Scope the operation is written in.
Op(id, reads, writes) ==
  [kind |-> "op", class |-> "work", id |-> id, reads |-> reads, writes |-> writes,
   sliced |-> {}, scope |-> "none"]
SlicedOp(id, reads, writes, sliced) == [Op(id, reads, writes) EXCEPT !.sliced = sliced]

\* An operation whose core follows from where it stands (a barrier of all
\* pipes), one that only T.Scope can place, and one that both cores execute.
Barrier(id) == [Op(id, {}, {}) EXCEPT !.class = "context"]
Opaque(id, scope) == [Op(id, {}, {}) EXCEPT !.class = "opaque", !.scope = scope]
Common(id) == [Op(id, {}, {}) EXCEPT !.class = "common"]

\* emission: what a software pipeline executes of the loop instead.
For(var, extent, body) ==
  [kind |-> "for", role |-> "plain", var |-> var, min |-> 0, extent |-> extent,
   symbolic |-> FALSE, stages |-> 1, interval |-> 1, body |-> body, emission |-> <<>>]
SymbolicFor(var, extent, body) == [For(var, extent, body) EXCEPT !.symbolic = TRUE]

\* T.Pipelined(extent, num_stages, cross_interval).
Pipelined(var, extent, stages, interval, body) ==
  [For(var, extent, body)
     EXCEPT !.role = "pipelined", !.stages = stages, !.interval = interval]

\* when: the iterations of the enclosing loop that take the first branch.
If(when, then, else) == [kind |-> "if", when |-> when, then |-> then, else |-> else]

-----------------------------------------------------------------------------
RECURSIVE OpsIn(_)
OpsIn(s) ==
  FlattenSeq([i \in DOMAIN s |->
    CASE s[i].kind = "op"  -> <<s[i]>>
      [] s[i].kind = "for" -> OpsIn(s[i].body)
      [] s[i].kind = "if"  -> OpsIn(s[i].then) \o OpsIn(s[i].else)])

Uses(op) == op.reads \cup op.writes
UsedIn(s) == UNION {Uses(op) : op \in ToSet(OpsIn(s))}

RECURSIVE LoopsIn(_)
LoopsIn(s) ==
  FlattenSeq([i \in DOMAIN s |->
    CASE s[i].kind = "op"  -> <<>>
      [] s[i].kind = "for" -> <<s[i]>> \o LoopsIn(s[i].body)
      [] s[i].kind = "if"  -> LoopsIn(s[i].then) \o LoopsIn(s[i].else)])

RECURSIVE Branches(_)
Branches(s) ==
  \E i \in DOMAIN s :
    \/ s[i].kind = "if"
    \/ s[i].kind = "for" /\ Branches(s[i].body)
=============================================================================
