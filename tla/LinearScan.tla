------------------------------ MODULE LinearScan ------------------------------
(***************************************************************************)
(* The linear-scan allocator of the memory planning pass                   *)
(* (src/transform/ascend_memory_planning.cc, class LinearScanAllocator):   *)
(* the buffers of one memory scope, each with the interval of statements   *)
(* in which it is live, are given byte offsets in order of their first     *)
(* use.                                                                    *)
(*                                                                         *)
(* The vector of free blocks is kept as the set of free bytes: the code    *)
(* merges the blocks before every use, so that they are exactly the        *)
(* maximal runs of that set.                                               *)
(***************************************************************************)
EXTENDS Integers, FiniteSets

CONSTANTS
  Buffers,      \* the buffers of the kernel
  NoOffset      \* no offset requested, or none assigned yet

ASSUME OffsetAssumption == NoOffset \notin Nat

VARIABLES
  interval,         \* LiveInterval of each buffer of the scope that is used
  limit,            \* memory_limit_
  todo,             \* buffers the allocation loop has not reached
  active,           \* active_allocations
  free,             \* free_blocks
  next_new_offset,  \* next_new_offset_
  offset,           \* the allocations made
  planning          \* "run", "done", or "failed" after LOG(FATAL)

scanVars == <<interval, limit, todo, active, free, next_new_offset, offset, planning>>

\* pre is the offset given by T.annotate_address.  CalculateBufferSize rounds
\* sizes up to whole 32-byte blocks.
LiveInterval == [start : Nat, end : Nat, size : Nat \ {0}, pre : Nat \cup {NoOffset}]

AlignUp(value) == ((value + 31) \div 32) * 32

Bytes(first, size) == first .. (first + size - 1)

Occupied(b) == Bytes(offset[b], interval[b].size)

IsPre(b) == interval[b].pre # NoOffset

\* Mutant: a buffer whose last use is the statement of the new buffer's first
\* use is released too.
ExpiredOneEarly(b) == {c \in active : interval[c].end <= interval[b].start}

\* The test of the while loop that releases allocations: end < start.
Expired(b) == {c \in active : interval[c].end < interval[b].start}

FreeFor(b) == free \cup UNION {Occupied(c) : c \in Expired(b)}

(***************************************************************************)
(* Whether placing b at first would meet a buffer with a requested offset  *)
(* whose lifetime crosses that of b.  Lifetimes are compared strictly, and *)
(* the offset as requested.                                                *)
(***************************************************************************)
CheckConflict(first, b) ==
  \E p \in DOMAIN interval \ {b} :
    /\ IsPre(p)
    /\ interval[b].start < interval[p].end
    /\ interval[p].start < interval[b].end
    /\ first < interval[p].pre + interval[p].size
    /\ interval[p].pre < first + interval[b].size

\* First bytes of the merged free blocks.
BlockStarts(f) == {o \in f : o - 1 \notin f}

(***************************************************************************)
(* Whether the block that starts at s is taken to hold b once its start is *)
(* aligned.  The bytes left after aligning are computed without sign: when *)
(* the block ends before its aligned start they wrap around, and pass.     *)
(***************************************************************************)
Holds(f, s, b) ==
  LET gap == AlignUp(s) - s IN
  /\ Bytes(s, interval[b].size) \subseteq f
  /\ \/ Bytes(s, gap + interval[b].size) \subseteq f
     \/ ~(Bytes(s, gap) \subseteq f)

\* The blocks findReusableBlock accepts; it returns the first.
Reusable(f, b) ==
  {s \in BlockStarts(f) : Holds(f, s, b) /\ ~CheckConflict(AlignUp(s), b)}

\* The last free block, when it ends at next_new_offset_, grown to the limit.
Grown(f) ==
  IF next_new_offset - 1 \in f /\ \A x \in f : x < next_new_offset
  THEN f \cup next_new_offset .. (limit - 1)
  ELSE f

LastBlock(f, b) == {s \in Reusable(Grown(f), b) : \A u \in BlockStarts(f) : u <= s}

\* removeFromFreeBlocks: the part of the allocation inside the block it starts in.
Removed(f, first, size) == {x \in Bytes(first, size) : first .. x \subseteq f}

Fits(b) ==
  /\ AlignUp(next_new_offset) + interval[b].size <= limit
  /\ ~CheckConflict(AlignUp(next_new_offset), b)

-----------------------------------------------------------------------------
\* The loop of allocate takes the intervals sorted by start; std::sort leaves
\* the order of equal starts open.
Turn(b) ==
  /\ planning = "run"
  /\ b \in todo
  /\ \A c \in todo : interval[b].start <= interval[c].start

Place(b, o) ==
  /\ offset' = [offset EXCEPT ![b] = o]
  /\ todo' = todo \ {b}
  /\ active' = (active \ Expired(b)) \cup {b}
  /\ UNCHANGED <<interval, limit, planning>>

\* A buffer with a requested offset keeps it, aligned, unless it meets an
\* allocation that is still active.
PreAlloc(b) ==
  LET o == AlignUp(interval[b].pre) IN
  /\ Turn(b)
  /\ IsPre(b)
  /\ \A c \in active \ Expired(b) : Bytes(o, interval[b].size) \cap Occupied(c) = {}
  /\ Place(b, o)
  /\ free' = FreeFor(b) \cup next_new_offset .. (o - 1)
  /\ next_new_offset' =
       IF o + interval[b].size > next_new_offset THEN o + interval[b].size ELSE next_new_offset

NewAlloc(b) ==
  /\ Turn(b)
  /\ ~IsPre(b)
  /\ Fits(b)
  /\ Place(b, AlignUp(next_new_offset))
  /\ next_new_offset' = AlignUp(next_new_offset) + interval[b].size
  /\ free' = FreeFor(b)

Reuse(b) ==
  LET f == FreeFor(b) IN
  /\ Turn(b)
  /\ ~IsPre(b)
  /\ ~Fits(b)
  /\ \/ \E s \in Reusable(f, b) :
          /\ \A u \in Reusable(f, b) : s <= u
          /\ Place(b, AlignUp(s))
          /\ free' = f \ Removed(f, AlignUp(s), interval[b].size)
          /\ UNCHANGED next_new_offset
     \/ /\ Reusable(f, b) = {}
        /\ \E s \in LastBlock(f, b) :
             /\ Place(b, AlignUp(s))
             /\ free' = Grown(f) \ Removed(Grown(f), AlignUp(s), interval[b].size)
             /\ next_new_offset' = limit

\* The two LOG(FATAL) of the loop abort the compilation.
Fatal(b) ==
  LET f == FreeFor(b) IN
  /\ Turn(b)
  /\ IF IsPre(b)
     THEN \E c \in active \ Expired(b) :
            Bytes(AlignUp(interval[b].pre), interval[b].size) \cap Occupied(c) # {}
     ELSE ~Fits(b) /\ Reusable(f, b) = {} /\ LastBlock(f, b) = {}
  /\ planning' = "failed"
  /\ UNCHANGED <<interval, limit, todo, active, free, next_new_offset, offset>>

Finish ==
  /\ planning = "run"
  /\ todo = {}
  /\ planning' = "done"
  /\ UNCHANGED <<interval, limit, todo, active, free, next_new_offset, offset>>

Allocate == (\E b \in todo : PreAlloc(b) \/ NewAlloc(b) \/ Reuse(b) \/ Fatal(b)) \/ Finish

-----------------------------------------------------------------------------
\* The constructor, and the start of allocate, for the intervals of a scope.
Start(iv, lim) ==
  /\ interval = iv
  /\ limit = lim
  /\ todo = DOMAIN iv
  /\ active = {}
  /\ free = {}
  /\ next_new_offset = 0
  /\ offset = [b \in DOMAIN iv |-> NoOffset]
  /\ planning = "run"

\* Sizes are whole blocks.  Annotations beyond the limit, for which the code's
\* unsigned block sizes wrap around, are left out.
ValidInterval(v, lim) ==
  /\ v.start <= v.end
  /\ v.size % 32 = 0
  /\ v.pre # NoOffset => AlignUp(v.pre) + v.size <= lim

ScanInit ==
  \E S \in SUBSET Buffers, lim \in {n \in Nat : n % 32 = 0} :
    \E iv \in [S -> {v \in LiveInterval : ValidInterval(v, lim)}] : Start(iv, lim)

ScanSpec == ScanInit /\ [][Allocate]_scanVars

Placed == DOMAIN interval \ todo

\* Two buffers are in use at a common statement.
Together(b, c) == interval[b].start <= interval[c].end /\ interval[c].start <= interval[b].end

(***************************************************************************)
(* No lifetime only touches that of an annotated buffer, and annotated     *)
(* offsets are aligned: what CheckConflict relies on.                      *)
(***************************************************************************)
CleanAnnotations ==
  \A p \in DOMAIN interval : IsPre(p) =>
    /\ AlignUp(interval[p].pre) = interval[p].pre
    /\ \A b \in DOMAIN interval \ {p} :
         Together(b, p) => interval[b].start < interval[p].end
                           /\ interval[p].start < interval[b].end

WholeBlocks == limit % 32 = 0 /\ \A b \in DOMAIN interval : interval[b].size % 32 = 0

(***************************************************************************)
(* The allocations of allocate(): two buffers that are in use at a common  *)
(* statement never share a byte, however often memory is released, merged  *)
(* and reused, provided annotated lifetimes do not merely touch others.    *)
(***************************************************************************)
LiveDisjoint ==
  CleanAnnotations =>
    \A b, c \in Placed : b # c /\ Together(b, c) => Occupied(b) \cap Occupied(c) = {}

LineOf(x) == Bytes((x \div 32) * 32, 32)

(***************************************************************************)
(* What makes LiveDisjoint inductive: sizes and limit are whole blocks,    *)
(* released buffers are dead for all intervals to come, no active buffer   *)
(* is dead for an interval already handled, free bytes are whole blocks,   *)
(* never those of an active buffer placed by the scan, and nothing lies    *)
(* beyond next_new_offset_.                                                *)
(***************************************************************************)
ScanInv ==
  /\ DOMAIN interval \subseteq Buffers
  /\ interval \in [DOMAIN interval -> LiveInterval]
  /\ \A b \in DOMAIN interval : interval[b].start <= interval[b].end
  /\ WholeBlocks
  /\ todo \subseteq DOMAIN interval
  /\ active \subseteq Placed
  /\ limit \in Nat
  /\ next_new_offset \in Nat /\ next_new_offset % 32 = 0
  /\ free \subseteq 0 .. (next_new_offset - 1)
  /\ \A x \in free : LineOf(x) \subseteq free
  /\ offset \in [DOMAIN interval -> Nat \cup {NoOffset}]
  /\ \A b \in Placed :
       /\ offset[b] \in Nat /\ offset[b] % 32 = 0
       /\ offset[b] + interval[b].size <= next_new_offset
       /\ IsPre(b) => offset[b] = AlignUp(interval[b].pre)
       /\ \A c \in todo : interval[b].start <= interval[c].start
       /\ b \notin active => \A c \in todo : interval[b].end < interval[c].start
  /\ \A b \in active, c \in Placed : interval[c].start <= interval[b].end
  /\ CleanAnnotations => \A b \in active : ~IsPre(b) => Occupied(b) \cap free = {}
  /\ LiveDisjoint
=============================================================================
