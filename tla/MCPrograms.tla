----------------------------- MODULE MCPrograms -----------------------------
(***************************************************************************)
(* Tasks as the bridge emits them, and families of programs for TLC.       *)
(***************************************************************************)
EXTENDS Integers, Sequences

T(op, c, l, p, d) ==
  [op |-> op, core |-> c, lane |-> l, pipe |-> p, dur |-> d, src |-> "none",
   dst |-> "none", id |-> 0, mode |-> 0, deps |-> {}, mem |-> {}, hw |-> {}, unit |-> {}]

Work(c, l, p, d) == T("work", c, l, p, d)
SetFlag(c, l, s, d) == [T("set_flag", c, l, s, 1) EXCEPT !.src = s, !.dst = d]
WaitFlag(c, l, s, d) == [T("wait_flag", c, l, d, 1) EXCEPT !.src = s, !.dst = d]
SetCross(c, l, s, m) == [T("set_cross_flag", c, l, s, 1) EXCEPT !.src = s, !.mode = m]
WaitCross(c, l) == T("wait_cross_flag", c, l, "s", 1)
BarrierAll(c, l) == T("barrier_all", c, l, "s", 1)
PipeBarrier(c, l, p) == [T("pipe_barrier", c, l, p, 1) EXCEPT !.dst = p]
SyncAll(c, l) == T("sync_all", c, l, "s", 1)

SeqsUpTo(S, n) == UNION {[1 .. m -> S] : m \in 0 .. n}

Concat(A, B) == {a \o b : a \in A, b \in B}

=============================================================================
