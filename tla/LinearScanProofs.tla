--------------------------- MODULE LinearScanProofs ---------------------------
(***************************************************************************)
(* Proofs about the linear-scan allocator, for every set of buffers, every *)
(* intervals and sizes, and every memory limit.                            *)
(***************************************************************************)
EXTENDS LinearScan, TLAPS

\* AlignUp rounds up: an aligned offset never moves below its argument.
LEMMA AlignUpRises ==
  ASSUME NEW v \in Nat
  PROVE  AlignUp(v) \in Nat /\ v <= AlignUp(v) /\ AlignUp(v) % 32 = 0
BY SMT DEF AlignUp

\* A run of whole blocks holds the block of each of its bytes.
LEMMA RunIsWhole ==
  ASSUME NEW o \in Nat, NEW n \in Nat, o % 32 = 0, n % 32 = 0, NEW x \in o .. (o + n - 1)
  PROVE  LineOf(x) \subseteq o .. (o + n - 1)
<1> SUFFICES ASSUME NEW y \in LineOf(x) PROVE y \in o .. (o + n - 1)
  OBVIOUS
<1>1. y \in (x \div 32) * 32 .. (x \div 32) * 32 + 31
  BY DEF LineOf, Bytes
<1> QED
  BY <1>1, SMT

\* Taking a run of whole blocks out of whole blocks leaves whole blocks.
LEMMA RemovedIsWhole ==
  ASSUME NEW f \in SUBSET Nat, \A x \in f : LineOf(x) \subseteq f,
         NEW o \in Nat, NEW n \in Nat, o % 32 = 0, n % 32 = 0
  PROVE  \A x \in f \ Bytes(o, n) : LineOf(x) \subseteq f \ Bytes(o, n)
<1> SUFFICES ASSUME NEW x \in f, x \notin Bytes(o, n), NEW y \in LineOf(x), y \in Bytes(o, n)
             PROVE  FALSE
  OBVIOUS
<1>1. x \in Nat /\ y \in (x \div 32) * 32 .. (x \div 32) * 32 + 31
  BY DEF LineOf, Bytes
<1>2. y \in Nat /\ x \in (y \div 32) * 32 .. (y \div 32) * 32 + 31
  BY <1>1, SMT
<1>3. x \in LineOf(y)
  BY <1>2 DEF LineOf, Bytes
<1>4. LineOf(y) \subseteq Bytes(o, n)
  BY RunIsWhole, Zenon DEF Bytes
<1> QED
  BY <1>3, <1>4

\* Free blocks made of whole blocks start aligned.
LEMMA StartIsAligned ==
  ASSUME NEW f \in SUBSET Nat, \A x \in f : LineOf(x) \subseteq f, NEW s \in BlockStarts(f)
  PROVE  AlignUp(s) = s /\ s % 32 = 0
<1>1. s \in Nat /\ s \in f /\ s - 1 \notin f
  BY DEF BlockStarts
<1>2. CASE s % 32 # 0
  <2>1. s - 1 \in (s \div 32) * 32 .. (s \div 32) * 32 + 31
    BY <1>1, <1>2, SMT
  <2>2. s - 1 \in LineOf(s)
    BY <2>1 DEF LineOf, Bytes
  <2> QED
    BY <2>2, <1>1
<1>3. CASE s % 32 = 0
  BY <1>1, <1>3, SMT DEF AlignUp
<1> QED
  BY <1>2, <1>3

\* The bytes that may be handed to b lie below next_new_offset_.
LEMMA FreeIsBelow ==
  ASSUME ScanInv, NEW b \in todo
  PROVE  FreeFor(b) \subseteq 0 .. (next_new_offset - 1)
<1>1. SUFFICES ASSUME NEW x \in FreeFor(b) PROVE x \in 0 .. (next_new_offset - 1)
  OBVIOUS
<1>2. CASE x \in free
  BY <1>2 DEF ScanInv
<1>3. CASE \E c \in Expired(b) : x \in Occupied(c)
  <2>1. PICK c \in Expired(b) : x \in Occupied(c)
    BY <1>3
  <2>2. /\ c \in Placed
        /\ interval[c] \in LiveInterval
        /\ offset[c] \in Nat
        /\ offset[c] + interval[c].size <= next_new_offset
    BY <2>1 DEF ScanInv, Expired, Placed
  <2>3. interval[c].size \in Nat
    BY <2>2 DEF LiveInterval
  <2> QED
    BY <2>1, <2>2, <2>3 DEF Occupied, Bytes, ScanInv
<1> QED
  BY <1>1, <1>2, <1>3 DEF FreeFor

\* The bytes that may be handed to b are whole blocks.
LEMMA FreeIsWhole ==
  ASSUME ScanInv, NEW b \in todo, NEW x \in FreeFor(b)
  PROVE  LineOf(x) \subseteq FreeFor(b)
<1>1. CASE x \in free
  BY <1>1 DEF ScanInv, FreeFor
<1>2. ASSUME NEW c \in Expired(b), x \in Occupied(c) PROVE LineOf(x) \subseteq FreeFor(b)
  <2>1. /\ c \in DOMAIN interval
        /\ c \in Placed
    BY <1>2 DEF ScanInv, Expired, Placed
  <2>2. /\ interval[c].size \in Nat /\ interval[c].size % 32 = 0
        /\ offset[c] \in Nat /\ offset[c] % 32 = 0
    BY <2>1 DEF ScanInv, WholeBlocks, LiveInterval
  <2>3. LineOf(x) \subseteq Occupied(c)
    BY <2>2, <1>2, RunIsWhole, Zenon DEF Occupied, Bytes
  <2> QED
    BY <2>3, <1>2 DEF FreeFor
<1> QED
  BY <1>1, <1>2 DEF FreeFor

\* A placed buffer that is in use together with the next one has not been released.
LEMMA TogetherIsActive ==
  ASSUME ScanInv, NEW b \in todo, NEW c \in Placed, Together(b, c)
  PROVE  c \in active \ Expired(b)
<1>1. /\ interval[b] \in LiveInterval
      /\ interval[c] \in LiveInterval
  BY DEF ScanInv, Placed
<1>2. /\ interval[b].start \in Nat
      /\ interval[c].end \in Nat
  BY <1>1 DEF LiveInterval
<1>3. c \notin active => interval[c].end < interval[b].start
  BY DEF ScanInv
<1> QED
  BY <1>2, <1>3 DEF Together, Expired

(***************************************************************************)
(* The bytes that may be handed to b are not those of an active buffer     *)
(* that the scan itself placed: buffers released now were in use together  *)
(* with it.                                                                *)
(***************************************************************************)
LEMMA FreeIsDead ==
  ASSUME ScanInv, CleanAnnotations, NEW b \in todo,
         NEW c \in active \ Expired(b), ~IsPre(c)
  PROVE  Occupied(c) \cap FreeFor(b) = {}
<1>1. Occupied(c) \cap free = {}
  BY DEF ScanInv
<1>2. ASSUME NEW e \in Expired(b) PROVE Occupied(c) \cap Occupied(e) = {}
  <2>1. /\ e \in active
        /\ e \in Placed
        /\ c \in Placed
        /\ e # c
    BY <1>2 DEF Expired, ScanInv
  <2>2. /\ interval[c].start <= interval[e].end
        /\ interval[e].start <= interval[c].end
    BY <2>1 DEF ScanInv
  <2>3. Together(c, e)
    BY <2>2 DEF Together
  <2> QED
    BY <2>1, <2>3 DEF ScanInv, LiveDisjoint
<1> QED
  BY <1>1, <1>2 DEF FreeFor

(***************************************************************************)
(* What a placement must establish for the invariant to survive it.        *)
(***************************************************************************)
LEMMA PlaceKeepsInv ==
  ASSUME ScanInv, NEW b \in todo, Turn(b), NEW o \in Nat, Place(b, o),
         o % 32 = 0,
         next_new_offset' \in Nat, next_new_offset' % 32 = 0,
         next_new_offset <= next_new_offset',
         o + interval[b].size <= next_new_offset',
         free' \subseteq 0 .. (next_new_offset' - 1),
         \A x \in free' : LineOf(x) \subseteq free',
         IsPre(b) => o = AlignUp(interval[b].pre),
         CleanAnnotations =>
           /\ \A c \in active \ Expired(b) :
                Together(b, c) => Bytes(o, interval[b].size) \cap Occupied(c) = {}
           /\ \A c \in active \ Expired(b) : ~IsPre(c) => Occupied(c) \cap free' = {}
           /\ ~IsPre(b) => Bytes(o, interval[b].size) \cap free' = {}
  PROVE  ScanInv'
<1>1. /\ interval' = interval
      /\ limit' = limit
      /\ todo' = todo \ {b}
      /\ active' = (active \ Expired(b)) \cup {b}
      /\ offset' = [offset EXCEPT ![b] = o]
  BY DEF Place
<1>2. /\ b \in DOMAIN interval
      /\ interval[b] \in LiveInterval
      /\ \A c \in DOMAIN interval : interval[c] \in LiveInterval
      /\ active \subseteq Placed
      /\ todo \subseteq DOMAIN interval
  BY DEF ScanInv
<1>3. \A c \in DOMAIN interval :
        /\ interval[c].start \in Nat
        /\ interval[c].end \in Nat
        /\ interval[c].size \in Nat
  BY <1>2 DEF LiveInterval
<1>4. Placed' = Placed \cup {b}
  BY <1>1, <1>2 DEF Placed
<1>5. /\ \A c \in Placed : c # b /\ offset'[c] = offset[c]
      /\ offset'[b] = o
      /\ offset' \in [DOMAIN interval -> Nat \cup {NoOffset}]
  BY <1>1, <1>2 DEF ScanInv, Placed
<1>6. /\ \A c \in Placed : Occupied(c)' = Occupied(c)
      /\ Occupied(b)' = Bytes(o, interval[b].size)
  BY <1>1, <1>5 DEF Occupied
<1>7. /\ \A c \in DOMAIN interval : IsPre(c)' = IsPre(c)
      /\ CleanAnnotations' = CleanAnnotations
      /\ WholeBlocks'
      /\ \A c, d \in DOMAIN interval : Together(c, d)' = Together(c, d)
  BY <1>1 DEF IsPre, CleanAnnotations, Together, WholeBlocks, ScanInv
<1>8. \A c \in todo : interval[b].start <= interval[c].start
  BY DEF Turn
<1>9. \A c \in Placed' :
        /\ offset'[c] \in Nat /\ offset'[c] % 32 = 0
        /\ offset'[c] + interval'[c].size <= next_new_offset'
        /\ IsPre(c)' => offset'[c] = AlignUp(interval'[c].pre)
        /\ \A d \in todo' : interval'[c].start <= interval'[d].start
        /\ c \notin active' => \A d \in todo' : interval'[c].end < interval'[d].start
  <2> SUFFICES ASSUME NEW c \in Placed'
               PROVE  /\ offset'[c] \in Nat /\ offset'[c] % 32 = 0
                      /\ offset'[c] + interval'[c].size <= next_new_offset'
                      /\ IsPre(c)' => offset'[c] = AlignUp(interval'[c].pre)
                      /\ \A d \in todo' : interval'[c].start <= interval'[d].start
                      /\ c \notin active' =>
                           \A d \in todo' : interval'[c].end < interval'[d].start
    OBVIOUS
  <2>1. CASE c = b
    BY <2>1, <1>1, <1>2, <1>5, <1>7, <1>8
  <2>2. CASE c \in Placed
    <3>1. /\ offset[c] \in Nat /\ offset[c] % 32 = 0
          /\ offset[c] + interval[c].size <= next_new_offset
          /\ IsPre(c) => offset[c] = AlignUp(interval[c].pre)
          /\ \A d \in todo : interval[c].start <= interval[d].start
          /\ c \notin active => \A d \in todo : interval[c].end < interval[d].start
      BY <2>2 DEF ScanInv
    <3>2. c \in DOMAIN interval /\ c # b
      BY <2>2, <1>5 DEF Placed
    <3>3. offset[c] + interval[c].size <= next_new_offset'
      BY <3>1, <3>2, <1>3 DEF ScanInv
    <3>4. ASSUME c \notin active', NEW d \in todo' PROVE interval[c].end < interval[d].start
      <4>1. d \in todo /\ d \in DOMAIN interval
        BY <3>4, <1>1, <1>2
      <4>2. CASE c \notin active
        BY <4>1, <4>2, <3>1
      <4>3. CASE c \in Expired(b)
        <5>1. interval[c].end < interval[b].start /\ interval[b].start <= interval[d].start
          BY <4>1, <4>3, <1>8 DEF Expired
        <5> QED
          BY <5>1, <4>1, <3>2, <1>2, <1>3
      <4> QED
        BY <3>4, <4>2, <4>3, <1>1
    <3> QED
      BY <3>1, <3>2, <3>3, <3>4, <2>2, <1>1, <1>5, <1>7
  <2> QED
    BY <2>1, <2>2, <1>4
<1>10. \A c \in active', d \in Placed' : interval'[d].start <= interval'[c].end
  <2> SUFFICES ASSUME NEW c \in active', NEW d \in Placed'
               PROVE  interval[d].start <= interval[c].end
    BY <1>1
  <2>1. c \in DOMAIN interval /\ d \in DOMAIN interval
    BY <1>1, <1>2, <1>4 DEF Placed
  <2>2. interval[b].start <= interval[c].end
    BY <1>1, <1>2, <1>3, <2>1 DEF Expired, ScanInv
  <2>3. interval[d].start <= interval[b].start
    BY <1>2, <1>3, <1>4 DEF ScanInv
  <2> QED
    BY <2>1, <2>2, <2>3, <1>2, <1>3
<1>11. CleanAnnotations' => \A c \in active' : ~IsPre(c)' => Occupied(c)' \cap free' = {}
  BY <1>1, <1>2, <1>6, <1>7 DEF Placed
<1>12. LiveDisjoint'
  <2> SUFFICES ASSUME CleanAnnotations, NEW c \in Placed', NEW d \in Placed', c # d, Together(c, d)
               PROVE  Occupied(c)' \cap Occupied(d)' = {}
    BY <1>4, <1>7, <1>2 DEF LiveDisjoint, Placed
  <2>1. ASSUME NEW x \in Placed, Together(b, x)
        PROVE  Bytes(o, interval[b].size) \cap Occupied(x) = {}
    BY <2>1, TogetherIsActive
  <2>2. CASE c = b
    BY <2>2, <2>1, <1>4, <1>6
  <2>3. CASE d = b
    <3>1. Together(b, c)
      BY <2>3 DEF Together
    <3> QED
      BY <3>1, <2>3, <2>1, <1>4, <1>6
  <2>4. CASE c \in Placed /\ d \in Placed
    BY <2>4, <1>6 DEF ScanInv, LiveDisjoint
  <2> QED
    BY <2>2, <2>3, <2>4, <1>4
<1>13. /\ DOMAIN interval' \subseteq Buffers
       /\ interval' \in [DOMAIN interval' -> LiveInterval]
       /\ \A c \in DOMAIN interval' : interval'[c].start <= interval'[c].end
       /\ todo' \subseteq DOMAIN interval'
       /\ active' \subseteq Placed'
       /\ limit' \in Nat
       /\ offset' \in [DOMAIN interval' -> Nat \cup {NoOffset}]
  BY <1>1, <1>2, <1>4, <1>5 DEF ScanInv
<1> QED
  BY <1>7, <1>9, <1>10, <1>11, <1>12, <1>13 DEF ScanInv

-----------------------------------------------------------------------------
\* Typing facts every action needs about the buffer whose turn it is.
LEMMA TurnTypes ==
  ASSUME ScanInv, NEW b \in todo
  PROVE  /\ interval[b].size \in Nat /\ interval[b].size > 0
         /\ IsPre(b) => interval[b].pre \in Nat
         /\ next_new_offset \in Nat /\ next_new_offset % 32 = 0
         /\ limit \in Nat /\ limit % 32 = 0
         /\ interval[b].size % 32 = 0
<1>1. interval[b] \in LiveInterval
  BY DEF ScanInv
<1> QED
  BY <1>1 DEF LiveInterval, IsPre, ScanInv, WholeBlocks

\* Active buffers lie below next_new_offset_.
LEMMA ActiveIsBelow ==
  ASSUME ScanInv, NEW c \in active
  PROVE  Occupied(c) \subseteq 0 .. (next_new_offset - 1)
<1>1. /\ interval[c].size \in Nat
      /\ offset[c] \in Nat
      /\ offset[c] + interval[c].size <= next_new_offset
      /\ next_new_offset \in Nat
  BY DEF ScanInv, Placed, LiveInterval
<1> QED
  BY <1>1 DEF Occupied, Bytes

\* The branch for annotated buffers.
LEMMA PreAllocKeepsInv ==
  ASSUME ScanInv, NEW b \in todo, PreAlloc(b)
  PROVE  ScanInv'
<1> DEFINE o == AlignUp(interval[b].pre)
<1>1. /\ interval[b].size \in Nat /\ interval[b].size > 0 /\ interval[b].size % 32 = 0
      /\ interval[b].pre \in Nat
      /\ next_new_offset \in Nat /\ next_new_offset % 32 = 0
      /\ IsPre(b)
      /\ Turn(b)
      /\ Place(b, o)
  BY TurnTypes DEF PreAlloc
<1>2. o \in Nat /\ o % 32 = 0
  BY <1>1, AlignUpRises
<1> HIDE DEF o
<1>3. next_new_offset' = IF o + interval[b].size > next_new_offset
                         THEN o + interval[b].size ELSE next_new_offset
  BY DEF PreAlloc, o
<1>4. /\ next_new_offset' \in Nat /\ next_new_offset' % 32 = 0
      /\ next_new_offset <= next_new_offset'
      /\ o + interval[b].size <= next_new_offset'
  BY <1>1, <1>2, <1>3, SMT
<1>5. free' = FreeFor(b) \cup next_new_offset .. (o - 1)
  BY DEF PreAlloc, o
<1>6. free' \subseteq 0 .. (next_new_offset' - 1)
  <2>1. FreeFor(b) \subseteq 0 .. (next_new_offset - 1)
    BY FreeIsBelow
  <2> QED
    BY <2>1, <1>1, <1>2, <1>4, <1>5
<1>7. \A c \in active \ Expired(b) : Bytes(o, interval[b].size) \cap Occupied(c) = {}
  BY DEF PreAlloc, o
<1>8. ASSUME CleanAnnotations, NEW c \in active \ Expired(b), ~IsPre(c)
      PROVE  Occupied(c) \cap free' = {}
  <2>1. Occupied(c) \cap FreeFor(b) = {}
    BY <1>8, FreeIsDead
  <2>2. Occupied(c) \subseteq 0 .. (next_new_offset - 1)
    BY ActiveIsBelow
  <2>3. Occupied(c) \cap next_new_offset .. (o - 1) = {}
    BY <2>2, <1>1, <1>2
  <2> QED
    BY <2>1, <2>3, <1>5
<1>9. \A x \in free' : LineOf(x) \subseteq free'
  <2>1. ASSUME NEW x \in next_new_offset .. (o - 1) PROVE LineOf(x) \subseteq free'
    <3>1. /\ o - next_new_offset \in Nat
          /\ (o - next_new_offset) % 32 = 0
          /\ next_new_offset + (o - next_new_offset) - 1 = o - 1
      BY <2>1, <1>1, <1>2, SMT
    <3>2. LineOf(x) \subseteq next_new_offset .. (o - 1)
      BY <2>1, <3>1, <1>1, RunIsWhole, Zenon
    <3> QED
      BY <3>2, <1>5
  <2> QED
    BY <2>1, <1>5, FreeIsWhole
<1>10. IsPre(b) => o = AlignUp(interval[b].pre)
  BY DEF o
<1> QED
  BY <1>1, <1>2, <1>4, <1>6, <1>7, <1>8, <1>9, <1>10, PlaceKeepsInv, Zenon

\* The branch that takes new memory.
LEMMA NewAllocKeepsInv ==
  ASSUME ScanInv, NEW b \in todo, NewAlloc(b)
  PROVE  ScanInv'
<1> DEFINE o == AlignUp(next_new_offset)
<1>1. /\ interval[b].size \in Nat /\ interval[b].size % 32 = 0
      /\ next_new_offset \in Nat
      /\ ~IsPre(b)
      /\ Turn(b)
      /\ Place(b, o)
      /\ next_new_offset' = o + interval[b].size
      /\ free' = FreeFor(b)
  BY TurnTypes DEF NewAlloc
<1>2. o \in Nat /\ next_new_offset <= o /\ o % 32 = 0
  BY <1>1, AlignUpRises
<1>3. free' \subseteq 0 .. (next_new_offset - 1)
  BY <1>1, FreeIsBelow
<1>4. \A c \in active : Bytes(o, interval[b].size) \cap Occupied(c) = {}
  <2> SUFFICES ASSUME NEW c \in active PROVE Bytes(o, interval[b].size) \cap Occupied(c) = {}
    OBVIOUS
  <2>1. Occupied(c) \subseteq 0 .. (next_new_offset - 1)
    BY ActiveIsBelow
  <2> QED
    BY <2>1, <1>1, <1>2 DEF Bytes
<1>5. Bytes(o, interval[b].size) \cap free' = {}
  BY <1>1, <1>2, <1>3 DEF Bytes
<1>6. CleanAnnotations =>
        \A c \in active \ Expired(b) : ~IsPre(c) => Occupied(c) \cap free' = {}
  BY <1>1, FreeIsDead
<1> HIDE DEF o
<1>7. /\ next_new_offset' \in Nat /\ next_new_offset' % 32 = 0
      /\ next_new_offset <= next_new_offset'
      /\ o + interval[b].size <= next_new_offset'
      /\ free' \subseteq 0 .. (next_new_offset' - 1)
      /\ \A x \in free' : LineOf(x) \subseteq free'
  BY <1>1, <1>2, <1>3, FreeIsWhole
<1> QED
  BY <1>1, <1>2, <1>4, <1>5, <1>6, <1>7, PlaceKeepsInv

(***************************************************************************)
(* A block found in a set f of bytes that are not used by active buffers   *)
(* of the scan meets no buffer in use together with b: annotated ones are  *)
(* excluded by CheckConflict, the others by f.                             *)
(***************************************************************************)
LEMMA ReusableIsFree ==
  ASSUME ScanInv, CleanAnnotations, NEW b \in todo, NEW f, NEW o \in Nat, ~IsPre(b),
         Bytes(o, interval[b].size) \subseteq f, ~CheckConflict(o, b),
         \A c \in active \ Expired(b) : ~IsPre(c) => Occupied(c) \cap f = {},
         NEW c \in active \ Expired(b), Together(b, c)
  PROVE  Bytes(o, interval[b].size) \cap Occupied(c) = {}
<1>1. CASE ~IsPre(c)
  BY <1>1
<1>2. CASE IsPre(c)
  <2>1. /\ c \in DOMAIN interval \ {b}
        /\ b \in DOMAIN interval \ {c}
        /\ offset[c] = AlignUp(interval[c].pre)
        /\ interval[b] \in LiveInterval
        /\ interval[c] \in LiveInterval
    BY <1>2 DEF ScanInv, Placed
  <2>2. /\ AlignUp(interval[c].pre) = interval[c].pre
        /\ interval[b].start < interval[c].end
        /\ interval[c].start < interval[b].end
    BY <1>2, <2>1 DEF CleanAnnotations
  <2>3. ~(/\ o < interval[c].pre + interval[c].size
          /\ interval[c].pre < o + interval[b].size)
    BY <1>2, <2>1, <2>2 DEF CheckConflict
  <2>4. /\ interval[c].pre \in Nat
        /\ interval[c].size \in Nat
        /\ interval[b].size \in Nat
    BY <1>2, <2>1 DEF LiveInterval, IsPre
  <2> QED
    BY <2>1, <2>2, <2>3, <2>4 DEF Occupied, Bytes
<1> QED
  BY <1>1, <1>2

\* In whole blocks the unsigned subtraction of findReusableBlock never wraps.
LEMMA ReusableFits ==
  ASSUME ScanInv, NEW b \in todo, NEW f \in SUBSET Nat, \A x \in f : LineOf(x) \subseteq f,
         NEW s \in Reusable(f, b)
  PROVE  /\ s \in Nat /\ s % 32 = 0 /\ AlignUp(s) = s
         /\ Bytes(s, interval[b].size) \subseteq f
         /\ ~CheckConflict(s, b)
         /\ Removed(f, s, interval[b].size) = Bytes(s, interval[b].size)
<1>1. s \in BlockStarts(f) /\ s \in Nat
  BY DEF Reusable, BlockStarts
<1>2. AlignUp(s) = s /\ s % 32 = 0
  BY <1>1, StartIsAligned
<1>3. Bytes(s, interval[b].size) \subseteq f /\ ~CheckConflict(s, b)
  BY <1>2 DEF Reusable, Holds
<1>4. ASSUME NEW x \in Bytes(s, interval[b].size) PROVE s .. x \subseteq f
  <2>1. interval[b].size \in Nat
    BY TurnTypes
  <2> QED
    BY <2>1, <1>1, <1>3 DEF Bytes
<1> QED
  BY <1>1, <1>2, <1>3, <1>4 DEF Removed

(***************************************************************************)
(* Reusing memory in a set f of whole blocks below a new end of memory,    *)
(* none of them used by an active buffer of the scan.                      *)
(***************************************************************************)
LEMMA ReuseBlock ==
  ASSUME ScanInv, NEW b \in todo, Turn(b), ~IsPre(b),
         NEW top \in Nat, top % 32 = 0, next_new_offset <= top, next_new_offset' = top,
         NEW f \in SUBSET Nat, f \subseteq 0 .. (top - 1),
         \A x \in f : LineOf(x) \subseteq f,
         CleanAnnotations => \A c \in active \ Expired(b) : ~IsPre(c) => Occupied(c) \cap f = {},
         NEW s \in Reusable(f, b), Place(b, AlignUp(s)),
         free' = f \ Removed(f, AlignUp(s), interval[b].size)
  PROVE  ScanInv'
<1>1. interval[b].size \in Nat /\ interval[b].size > 0 /\ interval[b].size % 32 = 0
  BY TurnTypes
<1>2. /\ s \in Nat /\ s % 32 = 0
      /\ Place(b, s)
      /\ Bytes(s, interval[b].size) \subseteq f
      /\ ~CheckConflict(s, b)
      /\ free' = f \ Bytes(s, interval[b].size)
  BY ReusableFits
<1>3. s + interval[b].size <= top
  <2>1. s + interval[b].size - 1 \in Bytes(s, interval[b].size)
    BY <1>1, <1>2 DEF Bytes
  <2>2. s + interval[b].size - 1 \in 0 .. (top - 1)
    BY <2>1, <1>2, Zenon
  <2> QED
    BY <2>2, <1>1, <1>2
<1>4. CleanAnnotations =>
         /\ \A c \in active \ Expired(b) :
              Together(b, c) => Bytes(s, interval[b].size) \cap Occupied(c) = {}
         /\ \A c \in active \ Expired(b) : ~IsPre(c) => Occupied(c) \cap free' = {}
         /\ Bytes(s, interval[b].size) \cap free' = {}
  BY <1>2, ReusableIsFree, Zenon
<1>5. \A x \in free' : LineOf(x) \subseteq free'
  BY <1>1, <1>2, RemovedIsWhole
<1> QED
  BY <1>1, <1>2, <1>3, <1>4, <1>5, PlaceKeepsInv, Zenon

\* The branch that reuses released memory, in a block or in the last one grown.
LEMMA ReuseKeepsInv ==
  ASSUME ScanInv, NEW b \in todo, Reuse(b)
  PROVE  ScanInv'
<1> DEFINE f == FreeFor(b)
<1>1. /\ next_new_offset \in Nat /\ next_new_offset % 32 = 0
      /\ limit \in Nat /\ limit % 32 = 0
      /\ ~IsPre(b)
      /\ Turn(b)
  BY TurnTypes DEF Reuse
<1>2. f \subseteq 0 .. (next_new_offset - 1) /\ f \in SUBSET Nat
  BY <1>1, FreeIsBelow
<1>3. CleanAnnotations => \A c \in active \ Expired(b) : ~IsPre(c) => Occupied(c) \cap f = {}
  BY FreeIsDead
<1>4. \A x \in f : LineOf(x) \subseteq f
  BY FreeIsWhole
<1> HIDE DEF f
<1>5. CASE \E s \in Reusable(f, b) :
             /\ Place(b, AlignUp(s))
             /\ free' = f \ Removed(f, AlignUp(s), interval[b].size)
             /\ UNCHANGED next_new_offset
  BY <1>1, <1>2, <1>3, <1>4, <1>5, ReuseBlock
<1>6. CASE /\ Reusable(f, b) = {}
           /\ \E s \in LastBlock(f, b) :
                /\ Place(b, AlignUp(s))
                /\ free' = Grown(f) \ Removed(Grown(f), AlignUp(s), interval[b].size)
                /\ next_new_offset' = limit
  <2> DEFINE g == Grown(f)
  <2>1. PICK s \in Reusable(g, b) :
             /\ Place(b, AlignUp(s))
             /\ free' = g \ Removed(g, AlignUp(s), interval[b].size)
             /\ next_new_offset' = limit
    BY <1>6 DEF LastBlock
  <2>2. /\ g = f \cup next_new_offset .. (limit - 1)
        /\ next_new_offset <= limit
    BY <2>1, <1>6, <1>1 DEF Grown
  <2> HIDE DEF g
  <2>3. g \subseteq 0 .. (limit - 1) /\ g \in SUBSET Nat
    BY <2>2, <1>1, <1>2
  <2>4. \A x \in g : LineOf(x) \subseteq g
    <3>1. ASSUME NEW x \in next_new_offset .. (limit - 1)
          PROVE  LineOf(x) \subseteq next_new_offset .. (limit - 1)
      <4>1. /\ limit - next_new_offset \in Nat
            /\ (limit - next_new_offset) % 32 = 0
            /\ next_new_offset + (limit - next_new_offset) - 1 = limit - 1
        BY <2>2, <1>1, SMT
      <4> QED
        BY <3>1, <4>1, <1>1, RunIsWhole
    <3> QED
      BY <3>1, <2>2, <1>4
  <2>5. CleanAnnotations =>
          \A c \in active \ Expired(b) : ~IsPre(c) => Occupied(c) \cap g = {}
    <3> SUFFICES ASSUME CleanAnnotations, NEW c \in active \ Expired(b), ~IsPre(c)
                 PROVE  Occupied(c) \cap g = {}
      OBVIOUS
    <3>1. Occupied(c) \subseteq 0 .. (next_new_offset - 1)
      BY ActiveIsBelow
    <3>2. Occupied(c) \cap next_new_offset .. (limit - 1) = {}
      BY <3>1, <1>1
    <3> QED
      BY <3>2, <2>2, <1>3
  <2> QED
    BY <2>1, <2>2, <2>3, <2>4, <2>5, <1>1, ReuseBlock, Zenon
<1> QED
  BY <1>5, <1>6 DEF Reuse, f

(***************************************************************************)
(* No two buffers that LinearScanAllocator::allocate places, and that are  *)
(* in use at a common statement, share a byte, as long as no annotated     *)
(* lifetime merely touches another: for any buffers, intervals, sizes and  *)
(* limit.                                                                  *)
(***************************************************************************)
THEOREM AllocationsAreDisjoint == ScanSpec => []LiveDisjoint
<1>1. ScanInit => ScanInv
  <2> SUFFICES ASSUME NEW S \in SUBSET Buffers, NEW lim \in {n \in Nat : n % 32 = 0},
                      NEW iv \in [S -> {v \in LiveInterval : ValidInterval(v, lim)}],
                      Start(iv, lim)
               PROVE  ScanInv
    BY DEF ScanInit
  <2>1. /\ interval = iv
        /\ DOMAIN interval = S
        /\ todo = S
        /\ Placed = {}
        /\ active = {}
        /\ free = {}
        /\ next_new_offset = 0
        /\ limit \in Nat /\ limit % 32 = 0
        /\ offset = [b \in S |-> NoOffset]
    BY DEF Start, Placed
  <2>2. /\ interval \in [DOMAIN interval -> LiveInterval]
        /\ \A b \in DOMAIN interval : interval[b].start <= interval[b].end
        /\ WholeBlocks
    BY <2>1 DEF ValidInterval, WholeBlocks
  <2> QED
    BY <2>1, <2>2 DEF ScanInv, LiveDisjoint
<1>2. ScanInv /\ [Allocate]_scanVars => ScanInv'
  <2> SUFFICES ASSUME ScanInv, [Allocate]_scanVars PROVE ScanInv'
    OBVIOUS
  <2>1. ASSUME UNCHANGED <<interval, todo, active, free, next_new_offset, offset, limit>>
        PROVE  ScanInv'
    BY <2>1 DEF ScanInv, Placed, LiveDisjoint, CleanAnnotations, Together, Occupied, Bytes,
                IsPre, WholeBlocks
  <2>2. CASE \E b \in todo : PreAlloc(b) \/ NewAlloc(b) \/ Reuse(b)
    BY <2>2, PreAllocKeepsInv, NewAllocKeepsInv, ReuseKeepsInv
  <2>3. CASE (\E b \in todo : Fatal(b)) \/ Finish \/ UNCHANGED scanVars
    BY <2>3, <2>1 DEF Fatal, Finish, scanVars
  <2> QED
    BY <2>2, <2>3 DEF Allocate
<1>3. ScanInv => LiveDisjoint
  BY DEF ScanInv
<1> QED
  BY <1>1, <1>2, <1>3, PTL DEF ScanSpec
=============================================================================
