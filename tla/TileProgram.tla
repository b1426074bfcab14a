------------------------------ MODULE TileProgram ------------------------------
(***************************************************************************)
(* The statements of a lowered kernel that the memory planning and the     *)
(* synchronization passes look at: a statement tree, written as the        *)
(* sequence of its opening and closing tokens.  A token has the pipe that  *)
(* executes it, the on-chip buffers it reads and writes, and an argument:  *)
(* the sign of a loop extent, the unit of a resource scope, or "sliced"    *)
(* for an offset that is itself loaded from a buffer.                      *)
(***************************************************************************)
EXTENDS Integers, Sequences, FiniteSets, FiniteSetsExt

Pipes == {"S", "V", "M", "MTE1", "MTE2", "MTE3", "FIX"}

Token(kind, pipe, reads, writes, arg) ==
  [kind |-> kind, pipe |-> pipe, reads |-> reads, writes |-> writes, arg |-> arg]

\* An Evaluate of a tile operation, and a BufferStore.
Op(pipe, reads, writes) == <<Token("op", pipe, reads, writes, "whole")>>
SlicedOp(pipe, reads, writes) == <<Token("op", pipe, reads, writes, "sliced")>>
Store(reads, b) == <<Token("store", "S", reads, {b}, "whole")>>

Enclose(open, body, close) ==
  <<open>> \o body \o <<Token(close, "S", {}, {}, "none")>>

\* extent: "positive", "optional" or "zero", as far as the analyzer can prove.
For(extent, body) == Enclose(Token("for", "S", {}, {}, extent), body, "endfor")
Let(reads, body) == Enclose(Token("let", "S", reads, {}, "none"), body, "endlet")
Scope(unit, body) == Enclose(Token("scope", "S", {}, {}, unit), body, "endscope")
If(then, else) ==
  Enclose(Token("if", "S", {}, {}, "none"),
          then \o <<Token("else", "S", {}, {}, "none")>> \o else, "endif")

-----------------------------------------------------------------------------
Opening == {"for", "let", "scope", "if"}
Closing == {"endfor", "endlet", "endscope", "endif"}

Working(tok) == tok.kind \in {"op", "store"}

At(p, kinds) == {i \in DOMAIN p : p[i].kind \in kinds}

Nesting(p, i, j) ==
  Cardinality({k \in i .. j : p[k].kind \in Opening})
    - Cardinality({k \in i .. j : p[k].kind \in Closing})

\* The last token of the statement that token i opens.
Close(p, i) ==
  IF p[i].kind \in Opening THEN Min({j \in i .. Len(p) : Nesting(p, i, j) = 0}) ELSE i

\* The first token of the statement that token i belongs to.
Stmt(p, i) ==
  IF p[i].kind \in Closing THEN CHOOSE k \in At(p, Opening) : Close(p, k) = i ELSE i

ElseOf(p, i) == CHOOSE j \in i .. Close(p, i) : p[j].kind = "else" /\ Nesting(p, i, j) = 1

Inside(p, open, i) == open < i /\ i < Close(p, open)

EndToken == [for |-> "endfor", let |-> "endlet", scope |-> "endscope", if |-> "endif"]

\* The tokens are those of a statement tree: every statement is closed by its own
\* kind of token, lies within the statement around it, and on one side of an else.
WellFormed(p) ==
  /\ \A i \in At(p, Opening) :
       /\ Close(p, i) \in i + 1 .. Len(p)
       /\ p[Close(p, i)].kind = EndToken[p[i].kind]
       /\ \A k \in At(p, Opening) : Inside(p, i, k) => Close(p, k) < Close(p, i)
  /\ \A j \in At(p, Closing) : \E i \in At(p, Opening) : Close(p, i) = j
  /\ \A i \in At(p, {"if"}) :
       /\ ElseOf(p, i) \in i + 1 .. Close(p, i) - 1
       /\ p[ElseOf(p, i)].kind = "else"
       /\ \A k \in At(p, Opening) :
            i < k /\ k < ElseOf(p, i) => Close(p, k) < ElseOf(p, i)
  /\ \A j \in At(p, {"else"}) : \E i \in At(p, {"if"}) : ElseOf(p, i) = j
=============================================================================
