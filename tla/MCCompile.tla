------------------------------- MODULE MCCompile -------------------------------
(***************************************************************************)
(* Families of small kernels for TLC.  Three buffers in the unified buffer *)
(* do not fit side by side, one of them twice as large as the others, so   *)
(* that planning reuses memory and buffers overlap in part; one buffer     *)
(* each lives in the memories of the Cube core.                            *)
(***************************************************************************)
EXTENDS CompiledKernel

CONSTANTS a, b, c, x, p, q

MCBuffers == {a, b, c, x, p, q}

MCScopeOf == [z \in MCBuffers |->
  CASE z \in {a, b, c} -> "shared.ub"
    [] z = x -> "shared.l1"
    [] z = p -> "wmma.matrix_a"
    [] z = q -> "wmma.accumulator"]

MCSizeOf == [z \in MCBuffers |-> IF z = c THEN 64 ELSE 32]

MCMemoryLimit == [s \in {MCScopeOf[z] : z \in MCBuffers} |-> 96]

MCOriginOrder == <<a, b, c, x, p, q>>

NoPre == [z \in MCBuffers |-> NoOffset]

Config(auto, platform, pre) == [auto |-> auto, platform |-> platform, pre |-> pre]

Default == Config(TRUE, "A2", NoPre)

Compiled(progs, o) == [progs |-> progs, config |-> o]

-----------------------------------------------------------------------------
Load(z) == Op("MTE2", {}, {z})
Copy(y, z) == Op("V", {y}, {z})
Out(z) == Op("MTE3", {z}, {})

VectorWork == {Load(a), Load(b), Load(c), Copy(a, b), Copy(b, c), Copy(c, a), Copy(a, c),
               Out(a), Out(b), Out(c)}

FewWork == {Load(b), Load(c), Copy(a, b), Copy(b, c), Out(b), Out(c)}

Scalars == {Store({}, b), Store({a}, b), Let({a}, Load(b)), Let({b}, Copy(a, b)),
            Let({}, Out(b)), SlicedOp("V", {a}, {b})}

Straight == {Load(a) \o s \o t \o u \o v : s, t, u, v \in FewWork \cup {Copy(c, a), Out(a)}}

Looped == {Load(a) \o For(e, s \o t) \o u :
             s, t, u \in VectorWork, e \in {"positive", "optional"}}

\* Two loops, with a buffer of the first read in the second.
Sequel == {For("positive", Load(a)) \o For("positive", s \o t \o u) : s, t, u \in VectorWork}

Nested == {Load(a) \o For(e, s \o For(f, t) \o u) \o v :
             s, t, u, v \in FewWork, e \in {"positive"}, f \in {"positive", "optional", "zero"}}

Branching == {Load(a) \o s \o If(t, u) \o v : s, t, u, v \in FewWork}
  \cup {Load(a) \o For("positive", s \o If(t, u)) : s, t, u \in FewWork}

Scalar == {Load(a) \o s \o t \o u : s, u \in FewWork, t \in Scalars}
  \cup {Load(a) \o For(e, s \o t) \o u :
          s \in FewWork, t, u \in Scalars, e \in {"positive", "optional"}}

Blocks == {Scope("V", Load(a) \o Scope("V", s \o t) \o Scope("V", u) \o v) :
             s, t, u, v \in FewWork}

CubeWork == {Op("MTE2", {}, {x}), Op("MTE1", {x}, {p}), Op("MTE2", {}, {p}),
             Op("M", {x, p}, {q}), Op("M", {p, q}, {q}), Op("FIX", {q}, {})}

Cube == {Op("MTE2", {}, {x}) \o For(e, s \o t \o u) \o v :
           s, t, u, v \in CubeWork, e \in {"positive", "optional"}}

\* Addresses annotated for the small buffers, at both ends or one behind the other.
LowAnnotated == [NoPre EXCEPT ![a] = 0]
HighAnnotated == [NoPre EXCEPT ![b] = 64]
BothAnnotated == [NoPre EXCEPT ![a] = 64, ![b] = 32]

StraightKernels == Compiled(Straight, Default)
LoopedKernels == Compiled(Looped, Default)
SequelKernels == Compiled(Sequel, Default)
NestedKernels == Compiled(Nested, Default)
BranchingKernels == Compiled(Branching, Default)
ScalarKernels == Compiled(Scalar, Default)
BlocksKernels == Compiled(Blocks, Default)
CubeKernels == Compiled(Cube, Default)
A5Kernels == Compiled(Looped, Config(TRUE, "A5", NoPre))
LinearKernels == Compiled(Looped, Config(FALSE, "A2", NoPre))
LowKernels == Compiled(Looped, Config(TRUE, "A2", LowAnnotated))
HighKernels == Compiled(Looped, Config(TRUE, "A2", HighAnnotated))
BothKernels == Compiled(Looped, Config(TRUE, "A2", BothAnnotated))
LinearBothKernels == Compiled(Looped, Config(FALSE, "A2", BothAnnotated))

MCKernels ==
  <<StraightKernels, LoopedKernels, SequelKernels, NestedKernels, BranchingKernels,
    ScalarKernels, BlocksKernels, CubeKernels, A5Kernels, LinearKernels, LowKernels, HighKernels,
    BothKernels, LinearBothKernels>>
=============================================================================
