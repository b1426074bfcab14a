-------------------------------- MODULE MCMixed --------------------------------
(***************************************************************************)
(* Families of small mixed kernels for TLC.  A kernel is named by the      *)
(* family it belongs to and the choices that make it.                      *)
(***************************************************************************)
EXTENDS MixedGuarantees

MCCubeBuffers == {"q", "x", "y"}
MCVecBuffers == {"u", "v", "acc"}
MCWorkspaces == <<"w1", "w2">>

\* A Cube operation that fills x, a handover of it to the Vector cores.
Produce == <<Op(11, {"q"}, {"x"}), Op(12, {"x"}, {"w1"})>>
Receive == <<Op(21, {"w1"}, {"u"})>>

\* What the Vector cores do with it.
Between == <<
  <<Op(22, {"u"}, {"v"})>>,
  <<Op(22, {"u"}, {"v"}), Op(23, {"acc", "v"}, {"acc"})>>,
  <<Op(22, {"u"}, {"v"}), Barrier(24), Op(23, {"u"}, {"v"})>>,
  <<For("h", 2, <<SlicedOp(22, {"u"}, {"v"}, {"v"}), Common(24)>>), Op(23, {"u"}, {"v"})>>,
  <<If({0}, <<Op(22, {"u"}, {"v"})>>, <<Op(23, {"acc"}, {"v"})>>)>>
  >>

\* The handover back, and what follows it: nothing, a second use of x and of v,
\* or a second handover through w1.
HandBack == <<Op(25, {"v"}, {"w2"}), Op(31, {"w2"}, {"y"})>>
After == <<
  <<>>,
  HandBack,
  HandBack \o <<Barrier(32), Op(33, {"x", "y"}, {"out"})>>,
  HandBack \o <<Op(33, {"y"}, {"w1"}), Op(41, {"w1", "acc"}, {"acc"}), Op(42, {"v"}, {"out"})>>,
  <<Op(34, {"y"}, {"y"}), Op(41, {"u"}, {"out"})>>
  >>

Bodies == [i \in 1 .. Len(Between), j \in 1 .. Len(After) |->
             Produce \o Receive \o Between[i] \o After[j]]

\* extent, stages, interval.
Shapes == << <<4, 2, 1>>, <<4, 2, 2>>, <<3, 3, 2>>, <<3, 2, 1>> >>

Around(loop) == <<Op(1, {}, {"q"}), Op(2, {}, {"acc"}), loop, Op(51, {"acc"}, {"out"})>>

PipelineNames == {"pipeline"} \X (1 .. Len(Between)) \X (1 .. Len(After)) \X (1 .. Len(Shapes)) \X {1}
PipelineOf(n) ==
  Around(Pipelined("k", Shapes[n[4]][1], Shapes[n[4]][2], Shapes[n[4]][3], Bodies[n[2], n[3]]))

LoopNames == {"loop"} \X (1 .. Len(Between)) \X (1 .. Len(After)) \X {0} \X {2}
LoopOf(n) == Around(For("k", 2, Bodies[n[2], n[3]]))

\* Two lanes, in a pipeline of one group.
WideNames == {"wide"} \X {1} \X (1 .. 4) \X {2, 3} \X {2}
WideOf(n) == Around(Pipelined("k", n[4], n[4], 1, Bodies[n[2], n[3]]))

-----------------------------------------------------------------------------
\* Nests of loops: some around both accesses, some around one of them.  An extent
\* below zero stands for a symbolic one.
Outer == << <<>>, <<2>>, <<-2>>, <<1, 2>> >>
Inner == << <<>>, <<1>>, <<2>>, <<3>>, <<1, 2>>, <<2, 1>>, <<2, 2>>, <<2, 3>>, <<3, 2>>,
               <<1, 3, 1>>, <<-2>> >>

Names == [prefix |-> <<"a", "b">>, cube |-> <<"c", "d", "e">>, vec |-> <<"f", "g", "h">>]

Nest(extents, names, body) ==
  LET Wrap(inner, i) ==
        IF extents[i] < 0 THEN <<SymbolicFor(names[i], -extents[i], inner)>>
        ELSE <<For(names[i], extents[i], inner)>>
  IN FoldRightDomain(LAMBDA i, inner : Wrap(inner, i), extents, body)

NestNames ==
  {"nest"} \X (1 .. Len(Outer)) \X (1 .. Len(Inner)) \X (1 .. Len(Inner)) \X {1}
NestOf(n) ==
  Nest(Outer[n[2]], Names.prefix,
       Nest(Inner[n[3]], Names.cube, <<Op(12, {"x"}, {"w1"})>>)
         \o Nest(Inner[n[4]], Names.vec, <<Op(21, {"w1"}, {"u"})>>)
         \o <<Op(25, {"u"}, {"w2"}), Op(31, {"w2"}, {"y"})>>)

-----------------------------------------------------------------------------
\* Kernels that break one of the conditions the passes rely on, or check.
Hand == <<Op(12, {"x"}, {"w1"}), Op(21, {"w1"}, {"u"})>>

Odd == <<
  <<For("k", 2, <<Hand[2], Hand[1]>>)>>,                              \* read first
  <<For("k", 2, Hand \o <<Op(22, {"w1"}, {"v"})>>)>>,                 \* read twice
  Hand \o <<Op(25, {"u"}, {"w2"}), Op(26, {"w2"}, {"v"})>>,           \* one core only
  <<Opaque(11, "none")>> \o Hand,
  <<Opaque(11, "cube")>> \o Hand \o <<Opaque(22, "vec"), Common(31)>>,
  <<Op(11, {"x"}, {"u"})>> \o Hand,                                   \* of both cores
  <<Op(11, {"q"}, {"x"}), Barrier(13), Op(22, {"v"}, {"u"})>> \o Hand,
  <<Op(11, {"q"}, {"x"}), For("k", 2, <<Barrier(13)>>)>> \o Hand,
  <<Pipelined("k", 2, 2, 1, Hand), Pipelined("l", 2, 2, 1, Hand)>>,
  <<For("k", 2, <<Op(11, {"q"}, {"x"})>>), For("k", 2, Hand)>>,       \* one name twice
  <<[Pipelined("k", 2, 2, 1, Hand) EXCEPT !.symbolic = TRUE]>>,
  <<[Pipelined("k", 2, 2, 1, Hand) EXCEPT !.min = 1]>>,
  <<Pipelined("k", 4, 2, 2, <<Hand[1], Op(22, {"v"}, {"u"})>>), Hand[2]>>,
  <<Pipelined("k", 4, 2, 1, <<For("c", 2, <<Hand[1]>>), For("f", 2, <<Hand[2]>>)>>)>>,
  <<Pipelined("k", 2, 2, 1, <<Barrier(13)>> \o Hand)>>,
  <<Pipelined("k", 2, 2, 1, <<Op(11, {"q"}, {"x"}), Op(22, {"v"}, {"u"})>>)>>
  >>

OddNames == {"odd"} \X (1 .. Len(Odd)) \X {0} \X {0} \X {1}

-----------------------------------------------------------------------------
\* Loops of the Vector cores alone: any three of these statements, or one of the
\* longer bodies.
Menu == <<
  Op(61, {"a"}, {"u"}), Op(62, {"b"}, {"v"}), Op(63, {"u"}, {"v"}), Op(64, {"u", "v"}, {"out"}),
  Op(65, {"acc", "u"}, {"acc"}), Barrier(66),
  For("h", 2, <<Op(67, {"c"}, {"v"}), Op(68, {"v"}, {"acc"})>>)
  >>

Longer == <<
  <<Menu[1], Menu[2], Menu[4], Menu[5]>>,
  <<Menu[1], Menu[3], Menu[6], Menu[4]>>,
  <<Menu[2], Menu[1], Menu[7], Menu[4]>>,
  <<Menu[1], Op(71, {"u"}, {"x"}), Op(72, {"u", "b"}, {"v"}), Menu[4]>>,
  <<Op(71, {"acc"}, {"v"}), Menu[4], Menu[1], Op(72, {"u"}, {"out"})>>,
  <<Menu[1], Op(71, {"b", "u"}, {"v"}), Op(72, {"v"}, {"acc"}), Menu[6], Op(73, {"acc"}, {"out"})>>,
  <<If({0, 1, 3}, <<Menu[1], Menu[2], Menu[4]>>, <<>>)>>,
  <<If({0, 1, 3}, <<Menu[1], Menu[2]>>, <<Menu[4]>>)>>,
  <<Menu[1]>>
  >>

AheadNames ==
  {"ahead"} \X {n \in [1 .. 3 -> 1 .. Len(Menu)] : IsInjective(n)} \X {4} \X {1, 2, 3} \X {1}
LongerNames == {"longer"} \X (1 .. Len(Longer)) \X {2, 4} \X {1, 2, 3} \X {1}
Ahead(n, s) == <<Op(2, {}, {"acc"}), Pipelined("k", n[3], n[4], 1, s), Op(51, {"acc"}, {"out"})>>

\* A software pipeline on each core, and a handover between them.
Fill == <<Op(11, {"a"}, {"x"}), Op(13, {"x"}, {"y"})>>
BothNames == {"both"} \X {1, 2, 3} \X {2, 3} \X {1, 2} \X {1}
BothOf(n) ==
  CASE n[2] = 1 ->
         <<For("k", 2, <<Pipelined("c", 3, n[3], 1, Fill), Op(12, {"y"}, {"w1"}), Hand[2],
                         Pipelined("f", 3, n[4], 1, <<Menu[2], Op(64, {"v", "u"}, {"acc"})>>),
                         Op(25, {"acc"}, {"w2"}), Op(31, {"w2"}, {"q"})>>)>>
    [] n[2] = 2 ->
         <<Op(11, {"a"}, {"y"}),
           Pipelined("c", 3, n[3], 1, <<Op(13, {"b"}, {"x"}), Hand[1]>>),
           Pipelined("f", 3, n[4], 1, <<Hand[2], Op(64, {"u"}, {"acc"})>>)>>
    [] n[2] = 3 -> <<Pipelined("k", 4, n[3], n[4], Fill \o <<Menu[1], Menu[3]>>)>>

MCKernels == AheadNames \cup LongerNames \cup BothNames \cup PipelineNames \cup LoopNames \cup WideNames \cup NestNames \cup OddNames

MCLanesOf == [n \in MCKernels |-> n[5]]

MCBodyOf ==
  [n \in MCKernels |->
     CASE n[1] = "pipeline" -> PipelineOf(n)
       [] n[1] = "loop"     -> LoopOf(n)
       [] n[1] = "wide"     -> WideOf(n)
       [] n[1] = "nest"     -> NestOf(n)
       [] n[1] = "ahead"    -> Ahead(n, [i \in 1 .. 3 |-> Menu[n[2][i]]])
       [] n[1] = "longer"   -> Ahead(n, Longer[n[2]])
       [] n[1] = "both"     -> BothOf(n)
       [] n[1] = "odd"      -> Odd[n[2]]]
=============================================================================
