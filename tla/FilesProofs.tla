---------------------------- MODULE FilesProofs -----------------------------
(***************************************************************************)
(* The kernel heap and the descriptors above it, proved for every size of  *)
(* the pool and of the word, any number of processes, descriptors, files   *)
(* and flags, and every request of the other callers.                      *)
(*                                                                         *)
(* First the allocator: kmalloc and kfree preserve the layout of the pool  *)
(* and change exactly one allocated block.  Then the descriptors: every    *)
(* step of a process changes the buffers as it changes the heap.           *)
(***************************************************************************)
EXTENDS Files, FiniteSetTheorems, TLAPS

-----------------------------------------------------------------------------
(* The layout of the heap *)

BlockOK(b) ==
  /\ b \in [at : Nat, size : Nat \ {0}, req : Nat]
  /\ b.at + b.size <= PoolUnits

\* c lies behind b.
Behind(b, c) == b.at + b.size <= c.at

InBlock(u, b) == b.at <= u /\ u < b.at + b.size

Layout(B) ==
  /\ \A b \in B : BlockOK(b)
  /\ \A b, c \in B : b # c => Behind(b, c) \/ Behind(c, b)
  /\ \A u \in Pool : \E b \in B : InBlock(u, b)

LiveUnits(h) == UNION {Units(b) : b \in LiveBlocks(h)}

HeapOK(h) ==
  /\ h = [blocks |-> h.blocks, used |-> h.used]
  /\ Layout(h.blocks)
  /\ \A b, c \in FreeBlocks(h) : b.at + b.size # c.at
  /\ \A b \in LiveBlocks(h) : ~Corrupt(b)
  /\ h.used = Cardinality(LiveUnits(h))

-----------------------------------------------------------------------------
(* Arithmetic *)

\* Numbers that fit into the word are not reduced.
LEMMA SmallInWord ==
  ASSUME NEW x \in Nat, x < Word
  PROVE  x % Word = x
  <1>1. \A w \in Nat \ {0} : \A y \in Nat : y < w => y % w = y
    BY SMT
  <1>2. Word \in Nat \ {0}
    BY HeapAssumption
  <1> QED  BY <1>1, <1>2

\* round_up, where the sum does not wrap.
LEMMA RoundUp ==
  ASSUME NEW v \in Nat, NEW a \in {4, 16}, v + a - 1 < Word
  PROVE  /\ round_up(v, a) \in Nat /\ v <= round_up(v, a) /\ round_up(v, a) < v + a
         /\ round_up(v, a) % a = 0
  <1> DEFINE w == v + a - 1
  <1>1. w \in Nat /\ w % Word = w
    BY SmallInWord
  <1>2. round_up(v, a) = w - (w % a)
    BY <1>1 DEF round_up
  <1> HIDE DEF w
  <1>3. CASE a = 4
    <2>1. \A x \in Nat : /\ x - (x % 4) \in Nat /\ x - (x % 4) <= x /\ x - 3 <= x - (x % 4)
                         /\ (x - (x % 4)) % 4 = 0
      BY SMT
    <2> QED  BY <1>1, <1>2, <1>3, <2>1 DEF w
  <1>4. CASE a = 16
    <2>1. \A x \in Nat : /\ x - (x % 16) \in Nat /\ x - (x % 16) <= x /\ x - 15 <= x - (x % 16)
                         /\ (x - (x % 16)) % 16 = 0
      BY SMT
    <2> QED  BY <1>1, <1>2, <1>4, <2>1 DEF w
  <1> QED  BY <1>3, <1>4

\* The units of a request that the bound lets through hold the header, the
\* request and its canary.
LEMMA NeedFacts ==
  ASSUME NEW n \in Nat, n # 0, n <= KM_POOL_SIZE
  PROVE  /\ Need(n) \in Nat \ {0}
         /\ KM_HDR + round_up(n, 4) + KM_TAIL <= Need(n) * KM_ALIGN
  <1> USE DEF KM_HDR, KM_TAIL, KM_ALIGN
  <1> DEFINE v == n + 20
             r == round_up(v, 16)
             s == round_up(n, 4)
  <1>1. PoolUnits \in Nat /\ Word \in Nat /\ n + 52 <= Word + 16
    BY HeapAssumption DEF KM_POOL_SIZE
  <1>2. v \in Nat /\ v % Word = v
    BY <1>1, SmallInWord
  <1>3. /\ r \in Nat /\ v <= r /\ r % 16 = 0
        /\ s \in Nat /\ n <= s /\ s < n + 4 /\ s % 4 = 0
    BY <1>1, <1>2, RoundUp
  <1>4. Need(n) = r \div 16
    BY <1>2 DEF Need
  <1> HIDE DEF r, s
  <1>5. \A x \in Nat : x % 16 = 0 => (x \div 16) \in Nat /\ (x \div 16) * 16 = x
    BY SMT
  <1>6. \A x, y, z \in Nat : x % 16 = 0 /\ y % 4 = 0 /\ z + 20 <= x /\ y < z + 4 => y + 20 <= x
    BY SMT
  <1>7. s + 20 <= r
    BY <1>3, <1>6
  <1>8. (r \div 16) \in Nat /\ (r \div 16) * 16 = r /\ r # 0
    BY <1>2, <1>3, <1>5
  <1>9. 16 + s + 4 <= Need(n) * 16 /\ Need(n) \in Nat \ {0}
    BY <1>3, <1>4, <1>7, <1>8
  <1> QED  BY <1>9 DEF s

-----------------------------------------------------------------------------
(* Blocks *)

LEMMA HeapConstants ==
  /\ PoolUnits \in Nat \ {0} /\ Word \in Nat
  /\ KM_POOL_SIZE \in Nat /\ KM_POOL_SIZE = PoolUnits * 16
  /\ NullPtr \notin Nat
  BY HeapAssumption DEF KM_POOL_SIZE, KM_ALIGN, NullPtr

\* The units of two blocks of a layout are apart.
LEMMA UnitsOf ==
  ASSUME NEW b, BlockOK(b)
  PROVE  /\ Units(b) \subseteq Pool /\ IsFiniteSet(Units(b)) /\ Cardinality(Units(b)) = b.size
         /\ \A u \in Int : u \in Units(b) <=> InBlock(u, b)
         /\ b.at \in Units(b)
  <1>1. b.at \in Nat /\ b.size \in Nat \ {0} /\ b.at + b.size <= PoolUnits
    BY DEF BlockOK
  <1>2. b.at \in Int /\ b.at + b.size - 1 \in Int
    BY <1>1
  <1>3. /\ IsFiniteSet(Units(b))
        /\ Cardinality(Units(b)) = b.size
    <2> DEFINE x == b.at
               y == b.at + b.size - 1
    <2>1. x \in Int /\ y \in Int /\ ~(x > y) /\ y - x + 1 = b.size
      BY <1>1
    <2>2. Units(b) = x .. y
      BY DEF Units
    <2> HIDE DEF x, y
    <2>3. IsFiniteSet(x .. y) /\ Cardinality(x .. y) = y - x + 1
      BY <2>1, FS_Interval
    <2> QED  BY <2>1, <2>2, <2>3
  <1> QED  BY <1>1, <1>3, HeapConstants DEF Units, Pool, InBlock

LEMMA LiveUnitsFinite ==
  ASSUME NEW h, Layout(h.blocks)
  PROVE  /\ LiveUnits(h) \subseteq Pool /\ IsFiniteSet(LiveUnits(h))
         /\ Cardinality(LiveUnits(h)) \in Nat
  <1>1. LiveUnits(h) \subseteq Pool
    BY UnitsOf DEF LiveUnits, LiveBlocks, Layout
  <1>2. IsFiniteSet(Pool)
    BY HeapConstants, FS_Interval, PoolUnits - 1 \in Int DEF Pool
  <1> QED  BY <1>1, <1>2, FS_Subset, FS_CardinalityType

\* Two blocks that begin at the same place, or end there, are the same.
LEMMA SameBlock ==
  ASSUME NEW B, Layout(B), NEW b \in B, NEW c \in B,
         b.at = c.at \/ b.at + b.size = c.at + c.size
  PROVE  b = c
  BY DEF Layout, BlockOK, Behind

\* A block added to the allocated ones adds its size.
LEMMA OneMoreLive ==
  ASSUME NEW h, NEW g, NEW b, NEW L, Layout(h.blocks), Layout(g.blocks),
         LiveBlocks(h) = L, b \notin L, LiveBlocks(g) = L \cup {b}
  PROVE  Cardinality(LiveUnits(g)) = Cardinality(LiveUnits(h)) + b.size
  <1>1. BlockOK(b) /\ b \in g.blocks
    BY DEF Layout, LiveBlocks
  <1>2. LiveUnits(g) = LiveUnits(h) \cup Units(b)
    BY DEF LiveUnits
  <1>3. LiveUnits(h) \cap Units(b) = {}
    <2>1. ASSUME NEW u \in LiveUnits(h), u \in Units(b) PROVE FALSE
      <3>1. PICK c \in L : u \in Units(c)
        BY <2>1 DEF LiveUnits
      <3>2. c \in g.blocks /\ c # b /\ BlockOK(c)
        BY DEF LiveBlocks, Layout
      <3>3. u \in Int
        BY <1>1, <2>1, UnitsOf DEF Pool
      <3>4. InBlock(u, b) /\ InBlock(u, c)
        BY <1>1, <2>1, <3>1, <3>2, <3>3, UnitsOf
      <3>5. Behind(b, c) \/ Behind(c, b)
        BY <1>1, <3>2 DEF Layout
      <3> QED  BY <1>1, <3>2, <3>3, <3>4, <3>5 DEF InBlock, Behind, BlockOK
    <2> QED  BY <2>1
  <1>4. Cardinality(LiveUnits(h) \cap Units(b)) = 0
    BY <1>3, FS_EmptySet
  <1>5. /\ IsFiniteSet(LiveUnits(h)) /\ Cardinality(LiveUnits(h)) \in Nat
        /\ IsFiniteSet(Units(b)) /\ Cardinality(Units(b)) = b.size
    BY <1>1, LiveUnitsFinite, UnitsOf
  <1>6. Cardinality(LiveUnits(g))
          = Cardinality(LiveUnits(h)) + Cardinality(Units(b)) - 0
    BY <1>2, <1>4, <1>5, FS_Union
  <1>7. b.size \in Nat
    BY <1>1 DEF BlockOK
  <1> QED  BY <1>5, <1>6, <1>7

-----------------------------------------------------------------------------
(* kmalloc *)

\* A set of natural numbers has a least member.
LEMMA LeastExists ==
  ASSUME NEW S \in SUBSET Nat, S # {}
  PROVE  \E x \in S : \A y \in S : x <= y
  <1>1. IsWellFoundedOn({ss \in Nat \X Nat : ss[1] < ss[2]}, Nat)
    BY NatLessThanWellFounded DEF OpToRel
  <1>2. PICK x \in S : \A y \in S : ~(<<y, x>> \in {ss \in Nat \X Nat : ss[1] < ss[2]})
    BY <1>1, WFMin, Zenon
  <1>3. ASSUME NEW y \in S PROVE x <= y
    <2>1. ~(y < x)
      BY <1>2
    <2> QED  BY <2>1
  <1> QED  BY <1>3

LEMMA FirstFittingFacts ==
  ASSUME NEW h, HeapOK(h), NEW n \in Nat, kmalloc_serves(h, n)
  PROVE  /\ FirstFitting(h, n) \in FreeBlocks(h)
         /\ FirstFitting(h, n).size >= Need(n)
  <1> DEFINE S == {b.at : b \in Fitting(h, n)}
  <1>1. S \subseteq Nat /\ S # {}
    BY DEF kmalloc_serves, Fitting, FreeBlocks, HeapOK, Layout, BlockOK
  <1>2. \E x \in S : \A y \in S : x <= y
    <2> HIDE DEF S
    <2> QED  BY <1>1, LeastExists
  <1>3. \E b \in Fitting(h, n) : \A c \in Fitting(h, n) : b.at <= c.at
    BY <1>2
  <1> QED  BY <1>3 DEF FirstFitting, Fitting

\* What a request takes: one free block is replaced by the new one, and by a
\* rest if that is long enough.
LEMMA SplitFacts ==
  ASSUME NEW b, BlockOK(b), b.req = 0, NEW n \in Nat, n # 0, n <= KM_POOL_SIZE,
         b.size >= Need(n)
  PROVE  \E x, R :
           /\ Split(b, n) = {x} \cup R /\ x \notin R
           /\ x.at = b.at /\ x.req = n /\ BlockOK(x) /\ ~Corrupt(x)
           /\ x = Block(x.at, x.size, n)
           /\ \/ R = {} /\ x.size = b.size
              \/ \E r : /\ R = {r} /\ BlockOK(r) /\ r.req = 0
                       /\ r.at = b.at + x.size /\ r.at + r.size = b.at + b.size
  <1> DEFINE m == Need(n)
  <1>1. /\ m \in Nat \ {0} /\ KM_HDR + round_up(n, 4) + KM_TAIL <= m * KM_ALIGN
        /\ b \in [at : Nat, size : Nat \ {0}, req : Nat] /\ b.at + b.size <= PoolUnits
        /\ round_up(n, 4) \in Nat
    <2>1. n + 3 < Word
      BY HeapAssumption DEF KM_POOL_SIZE, KM_ALIGN, KM_HDR, KM_TAIL
    <2> QED  BY <2>1, NeedFacts, RoundUp DEF BlockOK
  <1> HIDE DEF m
  <1>2. ASSUME NEW z \in Nat, m <= z, b.at + z <= PoolUnits
        PROVE  BlockOK(Block(b.at, z, n)) /\ ~Corrupt(Block(b.at, z, n))
    BY <1>1, <1>2, HeapConstants DEF Block, BlockOK, Corrupt, KM_HDR, KM_ALIGN, KM_TAIL
  <1>3. CASE (b.size - m) * KM_ALIGN >= KM_MIN_SPLIT
    <2> DEFINE x == Block(b.at, m, n)
               r == Block(b.at + m, b.size - m, 0)
    <2>1. b.size - m \in Nat \ {0}
      BY <1>1, <1>3 DEF KM_ALIGN, KM_MIN_SPLIT, m
    <2>2. BlockOK(x) /\ ~Corrupt(x)
      BY <1>1, <1>2, <2>1, HeapConstants
    <2>3. BlockOK(r)
      BY <1>1, <2>1, HeapConstants DEF Block, BlockOK
    <2>4. Split(b, n) = {x} \cup {r}
      BY <1>3 DEF Split, m
    <2>5. x.req = n /\ r.req = 0 /\ x.at = b.at /\ x.size = m /\ r.at = b.at + m
          /\ r.size = b.size - m /\ x = Block(x.at, x.size, n)
      BY DEF Block
    <2> HIDE DEF x, r
    <2>6. x \notin {r} /\ r.at + r.size = b.at + b.size
      BY <1>1, <2>5
    <2> QED  BY <2>2, <2>3, <2>4, <2>5, <2>6
  <1>4. CASE ~((b.size - m) * KM_ALIGN >= KM_MIN_SPLIT)
    <2> DEFINE x == Block(b.at, b.size, n)
    <2>1. BlockOK(x) /\ ~Corrupt(x)
      BY <1>1, <1>2, HeapConstants DEF m
    <2>2. Split(b, n) = {x} \cup {}
      BY <1>4 DEF Split, m
    <2>3. x.req = n /\ x.at = b.at /\ x.size = b.size /\ x = Block(x.at, x.size, n)
      BY DEF Block
    <2> HIDE DEF x
    <2> QED  BY <2>1, <2>2, <2>3
  <1> QED  BY <1>3, <1>4

\* A request that is served leaves the heap in order and adds one allocated
\* block, at the pointer it returns and of the size asked for.
LEMMA KmallocServed ==
  ASSUME NEW h, HeapOK(h), NEW n \in Nat, kmalloc_serves(h, n)
  PROVE  /\ HeapOK(kmalloc(h, n))
         /\ \E x : /\ x \notin LiveBlocks(h)
                  /\ LiveBlocks(kmalloc(h, n)) = LiveBlocks(h) \cup {x}
                  /\ x.at = kmalloc_ptr(h, n) /\ x.req = n
  <1> DEFINE b == FirstFitting(h, n)
             g == kmalloc(h, n)
  <1>1. b \in FreeBlocks(h) /\ b \in h.blocks /\ b.req = 0 /\ b.size >= Need(n)
        /\ BlockOK(b) /\ n # 0 /\ n <= KM_POOL_SIZE
    BY FirstFittingFacts DEF FreeBlocks, HeapOK, Layout, kmalloc_serves
  <1>2. PICK x, R :
           /\ Split(b, n) = {x} \cup R /\ x \notin R
           /\ x.at = b.at /\ x.req = n /\ BlockOK(x) /\ ~Corrupt(x)
           /\ x = Block(x.at, x.size, n)
           /\ \/ R = {} /\ x.size = b.size
              \/ \E r : /\ R = {r} /\ BlockOK(r) /\ r.req = 0
                       /\ r.at = b.at + x.size /\ r.at + r.size = b.at + b.size
    <2> HIDE DEF b
    <2> QED  BY <1>1, SplitFacts
  <1>3. \A r \in R : r.req = 0
    BY <1>2
  <1>4. g = [blocks |-> (h.blocks \ {b}) \cup ({x} \cup R), used |-> h.used + x.size]
    <2>1. (CHOOSE c \in {x} \cup R : c.req # 0) = x
      <3>1. \A c \in {x} \cup R : c.req # 0 <=> c = x
        BY <1>1, <1>2, <1>3
      <3> QED  BY <3>1
    <2>2. g = [blocks |-> (h.blocks \ {b}) \cup Split(b, n),
               used |-> h.used + (CHOOSE c \in Split(b, n) : c.req # 0).size]
      BY DEF kmalloc
    <2> QED  BY <1>2, <2>1, <2>2
  <1>5. g.blocks = (h.blocks \ {b}) \cup ({x} \cup R) /\ g.used = h.used + x.size
        /\ g = [blocks |-> g.blocks, used |-> g.used]
    BY <1>4
  <1>6. kmalloc_ptr(h, n) = b.at
    BY DEF kmalloc_ptr
  <1> HIDE DEF b, g
  <1>7. \A c \in h.blocks : c # b => Behind(c, b) \/ Behind(b, c)
    BY <1>1 DEF HeapOK, Layout
  <1>8. Layout(g.blocks)
    <2>1. \A c \in g.blocks : BlockOK(c)
      BY <1>2, <1>5 DEF HeapOK, Layout
    <2>2. ASSUME NEW c \in g.blocks, NEW d \in g.blocks, c # d
          PROVE  Behind(c, d) \/ Behind(d, c)
      <3>1. CASE c \in h.blocks /\ d \in h.blocks
        BY <2>2, <3>1 DEF HeapOK, Layout
      <3>2. ASSUME NEW e \in h.blocks, e # b, NEW y \in {x} \cup R
            PROVE  Behind(e, y) \/ Behind(y, e)
        <4>1. BlockOK(e) /\ BlockOK(b) /\ BlockOK(x) /\ BlockOK(y)
          BY <1>1, <1>2, <3>2 DEF HeapOK, Layout
        <4>2. Behind(e, b) \/ Behind(b, e)
          BY <1>7, <3>2
        <4>3. b.at <= y.at /\ y.at + y.size <= b.at + b.size
          BY <1>2, <4>1 DEF BlockOK
        <4> QED  BY <4>1, <4>2, <4>3 DEF BlockOK, Behind
      <3>3. ASSUME NEW y \in {x} \cup R, NEW z \in {x} \cup R, y # z
            PROVE  Behind(y, z) \/ Behind(z, y)
        BY <1>2, <3>3 DEF BlockOK, Behind
      <3> QED  BY <1>5, <2>2, <3>1, <3>2, <3>3
    <2>3. ASSUME NEW u \in Pool PROVE \E c \in g.blocks : InBlock(u, c)
      <3>1. PICK c \in h.blocks : InBlock(u, c)
        BY DEF HeapOK, Layout
      <3>2. CASE c # b
        BY <1>5, <3>1, <3>2
      <3>3. CASE c = b
        BY <1>1, <1>2, <1>5, <3>1, <3>3, HeapConstants DEF InBlock, BlockOK, Pool
      <3> QED  BY <3>2, <3>3
    <2> QED  BY <2>1, <2>2, <2>3 DEF Layout
  <1>9. LiveBlocks(g) = LiveBlocks(h) \cup {x} /\ x \notin LiveBlocks(h)
    <2>1. LiveBlocks(g) = LiveBlocks(h) \cup {x}
      BY <1>1, <1>2, <1>3, <1>5 DEF LiveBlocks
    <2>2. x \notin h.blocks
      <3>1. SUFFICES ASSUME x \in h.blocks PROVE FALSE
        OBVIOUS
      <3>2. x = b
        BY <1>1, <1>2, <3>1, SameBlock DEF HeapOK
      <3> QED  BY <1>1, <1>2, <3>2
    <2> QED  BY <2>1, <2>2 DEF LiveBlocks
  <1>10. \A c, d \in FreeBlocks(g) : c.at + c.size # d.at
    <2>1. FreeBlocks(g) \subseteq (FreeBlocks(h) \ {b}) \cup R
      BY <1>1, <1>2, <1>5 DEF FreeBlocks
    <2>2. ASSUME NEW c \in FreeBlocks(h), c # b, NEW r \in R
          PROVE  c.at + c.size # r.at /\ r.at + r.size # c.at
      <3>1. BlockOK(c) /\ c.at + c.size # b.at /\ b.at + b.size # c.at
            /\ (Behind(c, b) \/ Behind(b, c))
        BY <1>1, <1>7, <2>2 DEF HeapOK, Layout, FreeBlocks
      <3> QED  BY <1>1, <1>2, <2>2, <3>1 DEF BlockOK, Behind
    <2>3. ASSUME NEW r \in R, NEW s \in R PROVE r.at + r.size # s.at
      BY <1>2, <2>3 DEF BlockOK
    <2>4. \A c, d \in FreeBlocks(h) : c.at + c.size # d.at
      BY DEF HeapOK
    <2> QED  BY <2>1, <2>2, <2>3, <2>4
  <1>11. \A c \in LiveBlocks(g) : ~Corrupt(c)
    BY <1>2, <1>9 DEF HeapOK
  <1>12. g.used = Cardinality(LiveUnits(g))
    <2>1. Cardinality(LiveUnits(g)) = Cardinality(LiveUnits(h)) + x.size
      BY <1>8, <1>9, OneMoreLive DEF HeapOK
    <2> QED  BY <1>5, <2>1 DEF HeapOK
  <1>13. HeapOK(g)
    BY <1>5, <1>8, <1>10, <1>11, <1>12 DEF HeapOK
  <1> QED  BY <1>2, <1>6, <1>9, <1>13 DEF g

-----------------------------------------------------------------------------
(* kfree *)

LEMMA BlockAtIs ==
  ASSUME NEW h, HeapOK(h), NEW b \in LiveBlocks(h)
  PROVE  BlockAt(h, b.at) = b
  <1>1. \A c \in LiveBlocks(h) : c.at = b.at <=> c = b
    BY SameBlock DEF HeapOK, LiveBlocks
  <1> QED  BY <1>1 DEF BlockAt

\* The blocks that are merged begin with one of them and end with one of them.
LEMMA JoinedFacts ==
  ASSUME NEW h, HeapOK(h), NEW b \in LiveBlocks(h)
  PROVE  \E p, q \in h.blocks :
           /\ Joined(h, b) = {p, b, q}
           /\ p = b \/ (p.req = 0 /\ p.at + p.size = b.at)
           /\ q = b \/ (q.req = 0 /\ b.at + b.size = q.at)
           /\ p = b => \A c \in FreeBlocks(h) : c.at + c.size # b.at
           /\ q = b => \A c \in FreeBlocks(h) : b.at + b.size # c.at
  <1>1. b \in h.blocks /\ Layout(h.blocks)
    BY DEF LiveBlocks, HeapOK
  <1>2. \E p \in h.blocks :
          /\ {b} \cup Before(h, b) = {p, b}
          /\ p = b \/ (p.req = 0 /\ p.at + p.size = b.at)
          /\ p = b => \A c \in FreeBlocks(h) : c.at + c.size # b.at
    <2>1. CASE Before(h, b) = {}
      <3>1. {b} \cup Before(h, b) = {b, b} /\ \A c \in FreeBlocks(h) : c \notin Before(h, b)
        BY <2>1
      <3> QED  BY <1>1, <3>1 DEF Before
    <2>2. CASE Before(h, b) # {}
      <3>1. PICK p \in h.blocks : p.req = 0 /\ p.at + p.size = b.at /\ p \in Before(h, b)
        BY <2>2 DEF Before, FreeBlocks
      <3>2. \A c \in Before(h, b) : c = p
        BY <1>1, <3>1, SameBlock DEF Before, FreeBlocks
      <3>3. p # b
        BY <3>1 DEF LiveBlocks
      <3>4. {b} \cup Before(h, b) = {p, b}
        BY <3>1, <3>2
      <3> WITNESS p \in h.blocks
      <3> QED  BY <3>1, <3>3, <3>4
    <2> QED  BY <2>1, <2>2
  <1>3. \E q \in h.blocks :
          /\ {b} \cup After(h, b) = {b, q}
          /\ q = b \/ (q.req = 0 /\ b.at + b.size = q.at)
          /\ q = b => \A c \in FreeBlocks(h) : b.at + b.size # c.at
    <2>1. CASE After(h, b) = {}
      <3>1. {b} \cup After(h, b) = {b, b} /\ \A c \in FreeBlocks(h) : c \notin After(h, b)
        BY <2>1
      <3> QED  BY <1>1, <3>1 DEF After
    <2>2. CASE After(h, b) # {}
      <3>1. PICK q \in h.blocks : q.req = 0 /\ b.at + b.size = q.at /\ q \in After(h, b)
        BY <2>2 DEF After, FreeBlocks
      <3>2. \A c \in After(h, b) : c = q
        BY <1>1, <3>1, SameBlock DEF After, FreeBlocks
      <3>3. q # b
        BY <3>1 DEF LiveBlocks
      <3>4. {b} \cup After(h, b) = {b, q}
        BY <3>1, <3>2
      <3> WITNESS q \in h.blocks
      <3> QED  BY <3>1, <3>3, <3>4
    <2> QED  BY <2>1, <2>2
  <1>4. PICK p \in h.blocks :
          /\ {b} \cup Before(h, b) = {p, b}
          /\ p = b \/ (p.req = 0 /\ p.at + p.size = b.at)
          /\ p = b => \A c \in FreeBlocks(h) : c.at + c.size # b.at
    BY <1>2
  <1>5. PICK q \in h.blocks :
          /\ {b} \cup After(h, b) = {b, q}
          /\ q = b \/ (q.req = 0 /\ b.at + b.size = q.at)
          /\ q = b => \A c \in FreeBlocks(h) : b.at + b.size # c.at
    BY <1>3
  <1>6. Joined(h, b) = {p, b, q}
    <2>1. Joined(h, b) = ({b} \cup Before(h, b)) \cup ({b} \cup After(h, b))
      BY DEF Joined
    <2> QED  BY <1>4, <1>5, <2>1
  <1> QED  BY <1>4, <1>5, <1>6

\* kfree of an allocated block leaves the heap in order and takes exactly that
\* block away.
LEMMA KfreeKeeps ==
  ASSUME NEW h, HeapOK(h), NEW b \in LiveBlocks(h)
  PROVE  /\ HeapOK(kfree(h, b.at))
         /\ LiveBlocks(kfree(h, b.at)) = LiveBlocks(h) \ {b}
  <1> DEFINE g == kfree(h, b.at)
             J == Joined(h, b)
  <1>1. PICK p \in h.blocks, q \in h.blocks :
           /\ J = {p, b, q}
           /\ p = b \/ (p.req = 0 /\ p.at + p.size = b.at)
           /\ q = b \/ (q.req = 0 /\ b.at + b.size = q.at)
           /\ p = b => \A c \in FreeBlocks(h) : c.at + c.size # b.at
           /\ q = b => \A c \in FreeBlocks(h) : b.at + b.size # c.at
    BY JoinedFacts
  <1>2. /\ b \in h.blocks /\ b.req # 0 /\ Layout(h.blocks)
        /\ BlockOK(b) /\ BlockOK(p) /\ BlockOK(q)
    BY DEF LiveBlocks, HeapOK, Layout
  <1>3. p.at <= b.at /\ b.at <= q.at /\ b.at + b.size <= q.at + q.size
    BY <1>1, <1>2 DEF BlockOK
  <1>4. (CHOOSE x \in J : \A y \in J : x.at <= y.at) = p
    <2>1. p \in J /\ \A y \in J : p.at <= y.at
      BY <1>1, <1>2, <1>3 DEF BlockOK
    <2>2. ASSUME NEW x \in J, \A y \in J : x.at <= y.at PROVE x = p
      <3>1. x.at = p.at /\ x \in h.blocks
        BY <1>1, <1>2, <1>3, <2>1, <2>2 DEF BlockOK
      <3> QED  BY <1>2, <3>1, SameBlock
    <2> HIDE DEF J
    <2> QED  BY <2>1, <2>2
  <1>5. (CHOOSE x \in J : \A y \in J : y.at <= x.at) = q
    <2>1. q \in J /\ \A y \in J : y.at <= q.at
      BY <1>1, <1>2, <1>3 DEF BlockOK
    <2>2. ASSUME NEW x \in J, \A y \in J : y.at <= x.at PROVE x = q
      <3>1. x.at = q.at /\ x \in h.blocks
        BY <1>1, <1>2, <1>3, <2>1, <2>2 DEF BlockOK
      <3> QED  BY <1>2, <3>1, SameBlock
    <2> HIDE DEF J
    <2> QED  BY <2>1, <2>2
  <1> DEFINE z == Block(p.at, q.at + q.size - p.at, 0)
  <1>6. g = [blocks |-> (h.blocks \ J) \cup {z}, used |-> h.used - b.size]
    <2>1. BlockAt(h, b.at) = b
      BY BlockAtIs
    <2> QED  BY <1>4, <1>5, <2>1 DEF kfree
  <1>7. g.blocks = (h.blocks \ J) \cup {z} /\ g.used = h.used - b.size
        /\ g = [blocks |-> g.blocks, used |-> g.used]
    BY <1>6
  <1>8. z.at = p.at /\ z.at + z.size = q.at + q.size /\ z.req = 0 /\ BlockOK(z)
    <2>1. /\ p.at \in Nat /\ q.at \in Nat /\ q.size \in Nat \ {0} /\ p.at <= q.at
          /\ q.at + q.size <= PoolUnits
      BY <1>2, <1>3 DEF BlockOK
    <2> DEFINE s == q.at + q.size - p.at
    <2>2. s \in Nat \ {0} /\ p.at + s = q.at + q.size
      BY <2>1
    <2>3. z = [at |-> p.at, size |-> s, req |-> 0]
      BY DEF Block
    <2> HIDE DEF s, z
    <2>4. z.at = p.at /\ z.size = s /\ z.req = 0
          /\ z \in [at : Nat, size : Nat \ {0}, req : Nat]
      BY <2>1, <2>2, <2>3
    <2> QED  BY <2>1, <2>2, <2>4 DEF BlockOK
  <1> HIDE DEF J, z, g
  <1>9. ASSUME NEW c \in h.blocks, c \notin J
        PROVE  BlockOK(c) /\ (Behind(c, z) \/ Behind(z, c))
    <2>1. BlockOK(c) /\ c # p /\ c # b /\ c # q
      BY <1>1, <1>2, <1>9 DEF Layout
    <2>2. /\ Behind(c, p) \/ Behind(p, c)
          /\ Behind(c, b) \/ Behind(b, c)
          /\ Behind(c, q) \/ Behind(q, c)
      BY <1>2, <2>1 DEF Layout
    <2> QED  BY <1>1, <1>2, <1>3, <1>8, <2>1, <2>2 DEF BlockOK, Behind
  <1>10. Layout(g.blocks)
    <2>1. \A c \in g.blocks : BlockOK(c)
      BY <1>7, <1>8, <1>9
    <2>2. ASSUME NEW c \in g.blocks, NEW d \in g.blocks, c # d
          PROVE  Behind(c, d) \/ Behind(d, c)
      <3>1. CASE c \in h.blocks \ J /\ d \in h.blocks \ J
        BY <1>2, <2>2, <3>1 DEF Layout
      <3> QED  BY <1>7, <1>9, <2>2, <3>1
    <2>3. ASSUME NEW u \in Pool PROVE \E c \in g.blocks : InBlock(u, c)
      <3>1. PICK c \in h.blocks : InBlock(u, c)
        BY <1>2 DEF Layout
      <3>2. CASE c \notin J
        BY <1>7, <3>1, <3>2
      <3>3. CASE c \in J
        <4>1. InBlock(u, z)
          BY <1>1, <1>2, <1>3, <1>8, <3>1, <3>3, HeapConstants DEF InBlock, BlockOK, Pool
        <4> QED  BY <1>7, <4>1
      <3> QED  BY <3>2, <3>3
    <2> QED  BY <2>1, <2>2, <2>3 DEF Layout
  <1>11. LiveBlocks(g) = LiveBlocks(h) \ {b}
    BY <1>1, <1>7, <1>8 DEF LiveBlocks
  <1>12. \A c, d \in FreeBlocks(g) : c.at + c.size # d.at
    <2>1. FreeBlocks(g) \subseteq (FreeBlocks(h) \ J) \cup {z}
      BY <1>7 DEF FreeBlocks
    <2>2. ASSUME NEW c \in FreeBlocks(h), c \notin J
          PROVE  c.at + c.size # z.at /\ z.at + z.size # c.at
      <3>1. c.at + c.size # p.at
        <4>1. CASE p = b
          BY <1>1, <4>1
        <4>2. CASE p # b
          BY <1>1, <4>2 DEF HeapOK, FreeBlocks
        <4> QED  BY <4>1, <4>2
      <3>2. q.at + q.size # c.at
        <4>1. CASE q = b
          BY <1>1, <4>1
        <4>2. CASE q # b
          BY <1>1, <4>2 DEF HeapOK, FreeBlocks
        <4> QED  BY <4>1, <4>2
      <3> QED  BY <1>8, <3>1, <3>2
    <2>3. z.at + z.size # z.at
      BY <1>8 DEF BlockOK
    <2>4. \A c, d \in FreeBlocks(h) : c.at + c.size # d.at
      BY DEF HeapOK
    <2> QED  BY <2>1, <2>2, <2>3, <2>4
  <1>13. \A c \in LiveBlocks(g) : ~Corrupt(c)
    BY <1>11 DEF HeapOK
  <1>14. g.used = Cardinality(LiveUnits(g))
    <2>1. Cardinality(LiveUnits(h)) = Cardinality(LiveUnits(g)) + b.size
      <3> DEFINE L == LiveBlocks(g)
      <3>1. LiveBlocks(h) = L \cup {b} /\ b \notin L
        BY <1>11
      <3> QED  BY <1>2, <1>10, <3>1, OneMoreLive
    <2>2. Cardinality(LiveUnits(g)) \in Nat /\ b.size \in Nat
      BY <1>2, <1>10, LiveUnitsFinite DEF BlockOK
    <2> QED  BY <1>7, <2>1, <2>2 DEF HeapOK
  <1>15. HeapOK(g)
    BY <1>7, <1>10, <1>12, <1>13, <1>14 DEF HeapOK
  <1> QED  BY <1>11, <1>15 DEF g

-----------------------------------------------------------------------------
(* The inductive invariant of the descriptors *)

Entries ==
  [name : Names \cup {NoName}, writable : BOOLEAN, append : BOOLEAN, dirty : BOOLEAN,
   size : Nat, offset : Nat, data : Int, bytes : Seq(Letters)]

Phases == {"none", "user", "save", "fork", "exiting", "exitsave", "exposed", "exposedsave"}

\* Whoever owns a block without a descriptor: other parts of the kernel, and
\* nobody any more.
Outside == others \cup forgotten

\* Types; and nobody owns what was forgotten.
FTypes ==
  /\ tab \in [Tasks -> [FileFds -> Entries]]
  /\ phase \in [Tasks -> Phases]
  /\ job \in [Tasks -> [fd : Nat, child : Tasks \cup {0}]]
  /\ disk \in [Names -> Seq(Letters)]
  /\ starved \in BOOLEAN
  /\ others \cap forgotten = {}

USE DEF Phases

\* Every allocated block of h has one owner: an entry of t or one of O.
HasBlock(h, e) ==
  e.data # NullPtr
    => \E b \in LiveBlocks(h) : b.at = e.data /\ b.req = BytesOf(e.size)

Owned(h, t, O) ==
  /\ HeapOK(h)
  /\ \A b \in LiveBlocks(h) :
       b.at \in O \/ \E q \in Tasks, f \in FileFds : t[q][f].data = b.at
  /\ \A p \in O : \E b \in LiveBlocks(h) : b.at = p
  /\ \A q \in Tasks, f \in FileFds : HasBlock(h, t[q][f]) /\ t[q][f].data \notin O
  /\ \A q, r \in Tasks : \A f, g \in FileFds :
       t[q][f].data = t[r][g].data /\ t[q][f].data # NullPtr => q = r /\ f = g

\* An entry by itself; s: a fork found no memory.
EntryOK(e, s) ==
  /\ e.name = NoName => e.data = NullPtr
  /\ e.data = NullPtr => e.bytes = <<>>
  /\ e.data # NullPtr => Len(e.bytes) = e.size /\ e.size > 0
  /\ e.dirty => e.size > 0 /\ e.name # NoName
  /\ s \/ (StaleFree(e.bytes) /\ (e.data = NullPtr => e.size = 0))

EntriesOK == \A q \in Tasks, f \in FileFds : EntryOK(tab[q][f], starved)

DiskOK == starved \/ \A n \in Names : StaleFree(disk[n])

\* What the calls under way are at: the entries that fd_table_dup has not come
\* to have no buffer, the entry being saved was written, one system call at a
\* time.
JobsOK ==
  /\ \A q \in Tasks : phase[q] = "fork" =>
       /\ job[q].child \in Tasks /\ phase[job[q].child] = "none"
       /\ \A f \in FileFds : f >= job[q].fd => tab[job[q].child][f].data = NullPtr
  /\ \A q \in Tasks : InSave(q) => job[q].fd \in FileFds /\ tab[q][job[q].fd].dirty
  /\ \A p, q \in Tasks :
       phase[p] \in {"save", "fork"} /\ phase[q] \in {"save", "fork"} => p = q

FilesInv ==
  /\ FTypes /\ Owned(km, tab, Outside) /\ EntriesOK /\ DiskOK /\ JobsOK

-----------------------------------------------------------------------------
(* Who owns what: the effect of the heap's calls *)

Table == [Tasks -> [FileFds -> Entries]]

\* The bytes of a file are a number.
LEMMA BytesNat == \A n \in Nat : BytesOf(n) \in Nat /\ BytesOf(0) = 0
  BY FilesAssumption DEF BytesOf

\* Live blocks begin in the pool, so none is at the null pointer, and no two
\* begin at the same place.
LEMMA LiveAt ==
  ASSUME NEW h, HeapOK(h)
  PROVE  /\ \A b \in LiveBlocks(h) : b.at \in Nat /\ b.at # NullPtr
         /\ \A b, c \in LiveBlocks(h) : b.at = c.at => b = c
  <1>1. Layout(h.blocks) /\ LiveBlocks(h) \subseteq h.blocks
    BY DEF HeapOK, LiveBlocks
  <1>2. \A b, c \in LiveBlocks(h) : b.at = c.at => b = c
    BY <1>1, SameBlock
  <1>3. \A b \in LiveBlocks(h) : b.at \in Nat /\ b.at # NullPtr
    BY <1>1, HeapConstants DEF Layout, BlockOK
  <1> QED  BY <1>2, <1>3

\* Changing entries without touching their buffers changes no owner.
LEMMA OwnedSame ==
  ASSUME NEW h, NEW t, NEW O, Owned(h, t, O), NEW u,
         \A q \in Tasks, f \in FileFds :
           u[q][f].data = t[q][f].data /\ (u[q][f].data # NullPtr => u[q][f].size = t[q][f].size)
  PROVE  Owned(h, u, O)
  BY DEF Owned, HasBlock

\* A request of another caller that is served.
LEMMA OwnedMalloc ==
  ASSUME NEW h, NEW t, NEW O, Owned(h, t, O), NEW n \in Nat, kmalloc_serves(h, n)
  PROVE  LET p == kmalloc_ptr(h, n)
             g == kmalloc(h, n)
         IN /\ Owned(g, t, O \cup {p}) /\ p \notin O /\ p # NullPtr /\ p \in Nat
            /\ \E b \in LiveBlocks(g) : b.at = p /\ b.req = n
  <1> DEFINE p == kmalloc_ptr(h, n)
             g == kmalloc(h, n)
  <1>1. HeapOK(h) /\ HeapOK(g)
    BY KmallocServed DEF Owned
  <1>2. PICK x : /\ x \notin LiveBlocks(h) /\ LiveBlocks(g) = LiveBlocks(h) \cup {x}
                 /\ x.at = p /\ x.req = n
    BY <1>1, KmallocServed
  <1> HIDE DEF p, g
  <1>3. \A b \in LiveBlocks(h) : b.at # p
    BY <1>1, <1>2, LiveAt
  <1>4. p \in Nat /\ p # NullPtr
    BY <1>1, <1>2, LiveAt
  <1>5. p \notin O
    BY <1>3 DEF Owned
  <1>6. \A q \in Tasks, f \in FileFds : t[q][f].data # p
    BY <1>3, <1>4 DEF Owned, HasBlock
  <1>7. Owned(g, t, O \cup {p})
    <2>1. \A b \in LiveBlocks(g) :
            b.at \in O \cup {p} \/ \E q \in Tasks, f \in FileFds : t[q][f].data = b.at
      BY <1>2 DEF Owned
    <2>2. \A r \in O \cup {p} : \E b \in LiveBlocks(g) : b.at = r
      BY <1>2 DEF Owned
    <2>3. \A q \in Tasks, f \in FileFds :
            HasBlock(g, t[q][f]) /\ t[q][f].data \notin O \cup {p}
      BY <1>2, <1>6 DEF Owned, HasBlock
    <2> QED  BY <1>1, <2>1, <2>2, <2>3 DEF Owned
  <1> QED  BY <1>2, <1>4, <1>5, <1>7 DEF p, g

\* A request that is refused.
LEMMA KmallocRefused ==
  ASSUME NEW h, NEW n, ~kmalloc_serves(h, n)
  PROVE  kmalloc(h, n) = h /\ kmalloc_ptr(h, n) = NullPtr
  BY DEF kmalloc, kmalloc_ptr

\* Another caller gives its block back.
LEMMA OwnedFree ==
  ASSUME NEW h, NEW t, NEW O, Owned(h, t, O), NEW p \in O
  PROVE  /\ Owned(kfree(h, p), t, O \ {p})
         /\ \A b \in LiveBlocks(h) : b.at # p => b \in LiveBlocks(kfree(h, p))
  <1> DEFINE g == kfree(h, p)
  <1>1. PICK b \in LiveBlocks(h) : b.at = p
    BY DEF Owned
  <1>2. HeapOK(h) /\ HeapOK(g) /\ LiveBlocks(g) = LiveBlocks(h) \ {b}
    BY <1>1, KfreeKeeps DEF Owned
  <1> HIDE DEF g
  <1>3. \A c \in LiveBlocks(h) : c.at = p <=> c = b
    BY <1>1, <1>2, LiveAt
  <1>4. Owned(g, t, O \ {p})
    <2>1. \A c \in LiveBlocks(g) :
            c.at \in O \ {p} \/ \E q \in Tasks, f \in FileFds : t[q][f].data = c.at
      BY <1>2, <1>3 DEF Owned
    <2>2. \A r \in O \ {p} : \E c \in LiveBlocks(g) : c.at = r
      BY <1>1, <1>2, <1>3 DEF Owned
    <2>3. \A q \in Tasks, f \in FileFds :
            HasBlock(g, t[q][f]) /\ t[q][f].data \notin O \ {p}
      BY <1>2, <1>3 DEF Owned, HasBlock
    <2> QED  BY <1>2, <2>1, <2>2, <2>3 DEF Owned
  <1> QED  BY <1>2, <1>3, <1>4 DEF g

\* An entry without a buffer gets a block that somebody had.
LEMMA OwnedAdopt ==
  ASSUME NEW h, NEW t \in Table, NEW O, Owned(h, t, O), NEW q \in Tasks, NEW f \in FileFds,
         NEW x \in Entries, x.data \in O, HasBlock(h, x), x.data # NullPtr,
         t[q][f].data = NullPtr
  PROVE  Owned(h, [t EXCEPT ![q][f] = x], O \ {x.data})
  <1> DEFINE u == [t EXCEPT ![q][f] = x]
  <1>1. \A r \in Tasks, g \in FileFds : u[r][g] = IF r = q /\ g = f THEN x ELSE t[r][g]
    BY DEF Table
  <1> HIDE DEF u
  <1>2. \A b \in LiveBlocks(h) :
          b.at \in O \ {x.data} \/ \E r \in Tasks, g \in FileFds : u[r][g].data = b.at
    <2>1. SUFFICES ASSUME NEW b \in LiveBlocks(h), b.at \notin O \ {x.data}
                   PROVE  \E r \in Tasks, g \in FileFds : u[r][g].data = b.at
      OBVIOUS
    <2>2. CASE b.at = x.data
      BY <1>1, <2>2
    <2>3. CASE b.at \notin O
      <3>1. PICK r \in Tasks, g \in FileFds : t[r][g].data = b.at
        BY <2>3 DEF Owned
      <3>2. b.at # NullPtr
        BY LiveAt DEF Owned
      <3>3. ~(r = q /\ g = f)
        BY <3>1, <3>2
      <3> QED  BY <1>1, <3>1, <3>3
    <2> QED  BY <2>1, <2>2, <2>3
  <1>3. \A p \in O \ {x.data} : \E b \in LiveBlocks(h) : b.at = p
    BY DEF Owned
  <1>4. \A r \in Tasks, g \in FileFds : HasBlock(h, u[r][g]) /\ u[r][g].data \notin O \ {x.data}
    BY <1>1 DEF Owned
  <1>5. \A r, s \in Tasks : \A g, e \in FileFds :
          u[r][g].data = u[s][e].data /\ u[r][g].data # NullPtr => r = s /\ g = e
    BY <1>1 DEF Owned
  <1> QED  BY <1>2, <1>3, <1>4, <1>5 DEF Owned, u

\* The buffer of an entry goes back to the heap.
LEMMA OwnedDrop ==
  ASSUME NEW h, NEW t \in Table, NEW O, Owned(h, t, O), NEW q \in Tasks, NEW f \in FileFds,
         NEW x \in Entries, x.data = NullPtr, t[q][f].data # NullPtr
  PROVE  LET g == kfree(h, t[q][f].data)
         IN /\ Owned(g, [t EXCEPT ![q][f] = x], O)
            /\ \A b \in LiveBlocks(h) : b.at # t[q][f].data => b \in LiveBlocks(g)
  <1> DEFINE u == [t EXCEPT ![q][f] = x]
             d == t[q][f].data
             g == kfree(h, d)
  <1>1. \A r \in Tasks, e \in FileFds : u[r][e] = IF r = q /\ e = f THEN x ELSE t[r][e]
    BY DEF Table
  <1>2. d \notin O
    BY DEF Owned
  <1>3. Owned(h, u, O \cup {d})
    <2> HIDE DEF u
    <2>1. \A b \in LiveBlocks(h) :
            b.at \in O \cup {d} \/ \E r \in Tasks, e \in FileFds : u[r][e].data = b.at
      BY <1>1 DEF Owned
    <2>2. \A p \in O \cup {d} : \E b \in LiveBlocks(h) : b.at = p
      BY DEF Owned, HasBlock
    <2>3. \A r \in Tasks, e \in FileFds : HasBlock(h, u[r][e]) /\ u[r][e].data \notin O \cup {d}
      <3>1. ASSUME NEW r \in Tasks, NEW e \in FileFds
            PROVE  HasBlock(h, u[r][e]) /\ u[r][e].data \notin O \cup {d}
        <4>1. CASE r = q /\ e = f
          <5>1. u[r][e].data = NullPtr
            BY <1>1, <4>1
          <5>2. \A b \in LiveBlocks(h) : b.at # NullPtr
            BY LiveAt DEF Owned
          <5> QED  BY <5>1, <5>2 DEF Owned, HasBlock
        <4>2. CASE ~(r = q /\ e = f)
          BY <1>1, <4>2 DEF Owned
        <4> QED  BY <4>1, <4>2
      <3> QED  BY <3>1
    <2>4. \A r, s \in Tasks : \A e, k \in FileFds :
            u[r][e].data = u[s][k].data /\ u[r][e].data # NullPtr => r = s /\ e = k
      BY <1>1 DEF Owned
    <2> QED  BY <2>1, <2>2, <2>3, <2>4 DEF Owned
  <1> HIDE DEF u, d
  <1>4. Owned(g, u, (O \cup {d}) \ {d})
        /\ \A b \in LiveBlocks(h) : b.at # d => b \in LiveBlocks(g)
    BY <1>3, OwnedFree
  <1>5. (O \cup {d}) \ {d} = O
    BY <1>2
  <1> QED  BY <1>4, <1>5 DEF u, d

\* A request for an entry that has no buffer.
LEMMA OwnedTake ==
  ASSUME NEW h, NEW t \in Table, NEW O, Owned(h, t, O), NEW q \in Tasks, NEW f \in FileFds,
         NEW x \in Entries, kmalloc_serves(h, BytesOf(x.size)),
         x.data = kmalloc_ptr(h, BytesOf(x.size)), t[q][f].data = NullPtr
  PROVE  Owned(kmalloc(h, BytesOf(x.size)), [t EXCEPT ![q][f] = x], O)
  <1> DEFINE n == BytesOf(x.size)
             p == kmalloc_ptr(h, n)
             g == kmalloc(h, n)
  <1>1. n \in Nat
    BY BytesNat DEF Entries
  <1> HIDE DEF n
  <1>2. /\ Owned(g, t, O \cup {p}) /\ p \notin O /\ p # NullPtr
        /\ \E b \in LiveBlocks(g) : b.at = p /\ b.req = n
    BY <1>1, OwnedMalloc DEF n
  <1>3. HasBlock(g, x) /\ x.data = p
    BY <1>2 DEF HasBlock, n
  <1> HIDE DEF p, g
  <1>4. Owned(g, [t EXCEPT ![q][f] = x], (O \cup {p}) \ {x.data})
    BY <1>2, <1>3, OwnedAdopt
  <1>5. (O \cup {p}) \ {x.data} = O
    BY <1>2, <1>3
  <1> QED  BY <1>4, <1>5 DEF n, g

\* fd_grow: the new buffer is taken before the old one goes back.
LEMMA OwnedRegrow ==
  ASSUME NEW h, NEW t \in Table, NEW O, Owned(h, t, O), NEW q \in Tasks, NEW f \in FileFds,
         NEW x \in Entries, kmalloc_serves(h, BytesOf(x.size)),
         x.data = kmalloc_ptr(h, BytesOf(x.size)), t[q][f].data # NullPtr
  PROVE  Owned(kfree(kmalloc(h, BytesOf(x.size)), t[q][f].data), [t EXCEPT ![q][f] = x], O)
  <1> DEFINE n == BytesOf(x.size)
             d == t[q][f].data
             p == kmalloc_ptr(h, n)
             g == kmalloc(h, n)
             k == kfree(g, d)
             y == [t[q][f] EXCEPT !.data = NullPtr]
             u == [t EXCEPT ![q][f] = y]
  <1>1. n \in Nat
    BY BytesNat DEF Entries
  <1>2. y \in Entries /\ y.data = NullPtr
    <2>1. t[q][f] \in Entries /\ NullPtr \in Int
      BY DEF Table, NullPtr
    <2> QED  BY <2>1 DEF Entries
  <1>3. u \in Table /\ u[q][f].data = NullPtr /\ [u EXCEPT ![q][f] = x] = [t EXCEPT ![q][f] = x]
    BY <1>2 DEF Table
  <1> HIDE DEF n, y, u
  <1>4. /\ Owned(g, t, O \cup {p}) /\ p \notin O /\ p # NullPtr
        /\ \E b \in LiveBlocks(g) : b.at = p /\ b.req = n
    BY <1>1, OwnedMalloc DEF n
  <1> HIDE DEF g, p
  <1>5. d # p
    BY <1>4 DEF Owned
  <1>6. Owned(k, u, O \cup {p}) /\ \A b \in LiveBlocks(g) : b.at # d => b \in LiveBlocks(k)
    BY <1>2, <1>4, OwnedDrop DEF u
  <1> HIDE DEF k
  <1>7. HasBlock(k, x) /\ x.data = p
    BY <1>4, <1>5, <1>6 DEF HasBlock, n, p
  <1>8. Owned(k, [u EXCEPT ![q][f] = x], (O \cup {p}) \ {x.data})
    BY <1>3, <1>4, <1>6, <1>7, OwnedAdopt
  <1>9. (O \cup {p}) \ {x.data} = O
    BY <1>4, <1>7
  <1> QED  BY <1>3, <1>8, <1>9 DEF n, g, k, d

-----------------------------------------------------------------------------
(* Sequences of letters and single entries *)

LEMMA SeqOf ==
  ASSUME NEW S, NEW n \in Nat, NEW s \in [1 .. n -> S]
  PROVE  s \in Seq(S) /\ Len(s) = n /\ DOMAIN s = 1 .. n
  OBVIOUS

LEMMA FillFacts ==
  ASSUME NEW n \in Nat, NEW c \in Letters
  PROVE  /\ Fill(n, c) \in Seq(Letters) /\ Len(Fill(n, c)) = n
         /\ n > 0 => Fill(n, c) # <<>>
         /\ n = 0 => Fill(n, c) = <<>>
         /\ c # "old" => StaleFree(Fill(n, c))
  <1>1. Fill(n, c) \in [1 .. n -> Letters]
    BY DEF Fill
  <1>2. Fill(n, c) \in Seq(Letters) /\ Len(Fill(n, c)) = n
    BY <1>1, SeqOf
  <1>3. n > 0 => Fill(n, c) # <<>>
    BY <1>2
  <1>4. n = 0 => Fill(n, c) = <<>>
    BY <1>2
  <1>5. c # "old" => StaleFree(Fill(n, c))
    BY DEF Fill, StaleFree
  <1> QED  BY <1>2, <1>3, <1>4, <1>5

LEMMA PrefixFacts ==
  ASSUME NEW s \in Seq(Letters), NEW n \in 0 .. Len(s)
  PROVE  /\ SubSeq(s, 1, n) \in Seq(Letters) /\ Len(SubSeq(s, 1, n)) = n
         /\ n = 0 => SubSeq(s, 1, n) = <<>>
         /\ StaleFree(s) => StaleFree(SubSeq(s, 1, n))
  <1>1. SubSeq(s, 1, n) \in Seq(Letters) /\ Len(SubSeq(s, 1, n)) = n
    OBVIOUS
  <1>2. \A i \in 1 .. n : SubSeq(s, 1, n)[i] = s[i] /\ i \in 1 .. Len(s)
    OBVIOUS
  <1>3. DOMAIN SubSeq(s, 1, n) = 1 .. n /\ DOMAIN s = 1 .. Len(s)
    BY <1>1
  <1> QED  BY <1>1, <1>2, <1>3 DEF StaleFree

\* The least member of a set of natural numbers.
LEMMA FirstOfIn ==
  ASSUME NEW S \in SUBSET Nat, S # {}
  PROVE  FirstOf(S) \in S
  BY LeastExists DEF FirstOf

LEMMA FileFdsNat == FileFds \subseteq Nat /\ FileFds = 1 .. MaxOpen /\ MaxOpen \in Nat
  BY FilesAssumption DEF FileFds

LEMMA FreeEntryOK ==
  /\ FreeEntry \in Entries /\ FreeEntry.data = NullPtr
  /\ \A s \in BOOLEAN : EntryOK(FreeEntry, s)
  <1>1. FreeEntry.bytes = <<>> /\ FreeEntry.data = NullPtr /\ FreeEntry.size = 0
        /\ ~FreeEntry.dirty /\ FreeEntry.name = NoName
    BY DEF FreeEntry
  <1>2. StaleFree(<<>>)
    BY DEF StaleFree
  <1>3. <<>> \in Seq(Letters) /\ NullPtr \in Int
    BY DEF NullPtr
  <1>4. FreeEntry \in Entries
    BY <1>3 DEF FreeEntry, Entries
  <1> QED  BY <1>1, <1>2, <1>4 DEF EntryOK

\* An entry that was fine stays so when a fork runs out of memory.
LEMMA EntryWeaker ==
  ASSUME NEW e, NEW s \in BOOLEAN, NEW r \in BOOLEAN, EntryOK(e, s), s => r
  PROVE  EntryOK(e, r)
  BY DEF EntryOK

\* n letters written into an entry that is long enough.
LEMMA WrittenFacts ==
  ASSUME NEW e \in Entries, NEW s \in BOOLEAN, EntryOK(e, s), NEW n \in Nat \ {0},
         e.offset + n <= e.size, e.name # NoName
  PROVE  /\ Written(e, n) \in Entries /\ EntryOK(Written(e, n), s)
         /\ Written(e, n).size = e.size /\ Written(e, n).data = e.data
         /\ Written(e, n).name = e.name
  <1> DEFINE w == Written(e, n)
             by == [i \in 1 .. Len(e.bytes) |->
                      IF e.offset < i /\ i <= e.offset + n THEN "new" ELSE e.bytes[i]]
             o == e.offset + n
  <1>1. e.bytes \in Seq(Letters) /\ Len(e.bytes) \in Nat /\ e.offset \in Nat /\ e.size \in Nat
    BY DEF Entries
  <1>2. by \in [1 .. Len(e.bytes) -> Letters]
    BY <1>1 DEF Letters
  <1>3. by \in Seq(Letters) /\ Len(by) = Len(e.bytes) /\ DOMAIN by = 1 .. Len(e.bytes)
    BY <1>1, <1>2, SeqOf
  <1>4. w = [e EXCEPT !.bytes = by, !.offset = o, !.dirty = TRUE]
    BY DEF Written, Entries
  <1>5. StaleFree(e.bytes) => StaleFree(by)
    BY <1>1, <1>3 DEF StaleFree
  <1>6. e.bytes = <<>> => by = <<>>
    BY <1>3
  <1>9. o \in Nat
    BY <1>1
  <1> HIDE DEF by, w, o
  <1>7. /\ w \in Entries /\ w.bytes = by /\ w.size = e.size /\ w.data = e.data
        /\ w.name = e.name /\ w.dirty = TRUE
    BY <1>3, <1>4, <1>9 DEF Entries
  <1>8. e.size > 0
    BY <1>1
  <1> QED  BY <1>3, <1>5, <1>6, <1>7, <1>8 DEF EntryOK, w

\* fd_grow leaves nothing of what the memory held, unless a fork found none.
LEMMA RegrownFacts ==
  ASSUME NEW e \in Entries, NEW s \in BOOLEAN, EntryOK(e, s), NEW n \in Nat, n > e.size,
         e.name # NoName, kmalloc_ptr(km, BytesOf(n)) \in Nat
  PROVE  LET x == Regrown(e, n)
         IN /\ x \in Entries /\ EntryOK(x, s) /\ x.size = n
            /\ x.data = kmalloc_ptr(km, BytesOf(n)) /\ x.data # NullPtr
            /\ x.offset = e.offset /\ x.name = e.name
  <1> DEFINE x == Regrown(e, n)
             p == kmalloc_ptr(km, BytesOf(n))
             gr == Grown(e, n)
  <1>1. e.bytes \in Seq(Letters) /\ Len(e.bytes) \in Nat /\ e.size \in Nat
    BY DEF Entries
  <1>2. gr \in [1 .. n -> Letters]
    BY <1>1 DEF Grown, Letters
  <1>3. gr \in Seq(Letters) /\ Len(gr) = n /\ DOMAIN gr = 1 .. n
    BY <1>2, SeqOf
  <1>4. s \/ StaleFree(gr)
    <2>1. SUFFICES ASSUME ~s PROVE StaleFree(gr)
      OBVIOUS
    <2>2. Len(e.bytes) = e.size /\ StaleFree(e.bytes)
      <3>1. e.data = NullPtr => e.bytes = <<>> /\ e.size = 0
        BY <2>1 DEF EntryOK
      <3>2. Len(<<>>) = 0
        OBVIOUS
      <3> QED  BY <2>1, <3>1, <3>2 DEF EntryOK
    <2>3. \A i \in 1 .. n : gr[i] # "old"
      BY <1>1, <2>2 DEF Grown, StaleFree
    <2> QED  BY <1>3, <2>3 DEF StaleFree
  <1>5. p \in Int /\ p # NullPtr
    BY DEF NullPtr
  <1>6. x = [e EXCEPT !.size = n, !.data = p, !.bytes = gr]
    BY DEF Regrown
  <1> HIDE DEF gr, p, x
  <1>7. /\ x \in Entries /\ x.bytes = gr /\ x.size = n /\ x.data = p /\ x.name = e.name
        /\ x.offset = e.offset /\ x.dirty = e.dirty
    BY <1>3, <1>5, <1>6 DEF Entries
  <1>8. EntryOK(x, s)
    BY <1>1, <1>3, <1>4, <1>5, <1>7 DEF EntryOK
  <1> QED  BY <1>5, <1>7, <1>8 DEF x, p

-----------------------------------------------------------------------------
(* Tables and calls under way *)

\* One entry changes.
LEMMA EntryUpdate ==
  ASSUME FTypes, EntriesOK, NEW q \in Tasks, NEW f \in FileFds, NEW x \in Entries,
         starved' \in BOOLEAN, starved => starved', EntryOK(x, starved'),
         tab' = [tab EXCEPT ![q][f] = x]
  PROVE  /\ tab' \in [Tasks -> [FileFds -> Entries]] /\ EntriesOK'
         /\ \A r \in Tasks, g \in FileFds :
              tab'[r][g] = IF r = q /\ g = f THEN x ELSE tab[r][g]
  <1>1. tab \in [Tasks -> [FileFds -> Entries]] /\ starved \in BOOLEAN
    BY DEF FTypes
  <1>2. tab' \in [Tasks -> [FileFds -> Entries]]
    BY <1>1
  <1>3. \A r \in Tasks, g \in FileFds :
          tab'[r][g] = IF r = q /\ g = f THEN x ELSE tab[r][g]
    BY <1>1
  <1>4. \A r \in Tasks, g \in FileFds : EntryOK(tab[r][g], starved')
    BY <1>1, EntryWeaker DEF EntriesOK
  <1>5. EntriesOK'
    BY <1>3, <1>4 DEF EntriesOK
  <1> QED  BY <1>2, <1>3, <1>5

\* A process that is not in the middle of a call changes its own table.
LEMMA JobsFrame ==
  ASSUME JobsOK, NEW q \in Tasks, phase[q] \in {"user", "exiting", "exposed"},
         phase' = phase, job' = job,
         \A r \in Tasks \ {q} : \A g \in FileFds : tab'[r][g] = tab[r][g]
  PROVE  JobsOK'
  <1>1. \A p \in Tasks : phase[p] = "fork" =>
          /\ job[p].child \in Tasks /\ phase[job[p].child] = "none"
          /\ \A f \in FileFds : f >= job[p].fd => tab'[job[p].child][f].data = NullPtr
    BY DEF JobsOK
  <1>2. \A p \in Tasks : InSave(p) => job[p].fd \in FileFds /\ tab'[p][job[p].fd].dirty
    BY DEF JobsOK, InSave
  <1>3. \A p, r \in Tasks :
          phase[p] \in {"save", "fork"} /\ phase[r] \in {"save", "fork"} => p = r
    BY DEF JobsOK
  <1> QED  BY <1>1, <1>2, <1>3 DEF JobsOK, InSave

\* The pool after kmalloc_init is one free block.
LEMMA HeapInitOK == HeapOK(kmalloc_init)
  <1> DEFINE b == Block(0, PoolUnits, 0)
  <1>1. /\ kmalloc_init = [blocks |-> {b}, used |-> 0]
        /\ kmalloc_init.blocks = {b} /\ kmalloc_init.used = 0
    BY DEF kmalloc_init
  <1>2. b.at = 0 /\ b.size = PoolUnits /\ b.req = 0 /\ b = [at |-> 0, size |-> PoolUnits, req |-> 0]
    BY DEF Block
  <1>3. BlockOK(b)
    BY <1>2, HeapConstants DEF BlockOK
  <1>4. Layout(kmalloc_init.blocks)
    BY <1>1, <1>2, <1>3, HeapConstants DEF Layout, Pool, InBlock
  <1> HIDE DEF b
  <1>5. LiveBlocks(kmalloc_init) = {} /\ FreeBlocks(kmalloc_init) = {b}
    BY <1>1, <1>2 DEF LiveBlocks, FreeBlocks
  <1>6. Cardinality(LiveUnits(kmalloc_init)) = 0
    BY <1>5, FS_EmptySet DEF LiveUnits
  <1>7. b.at + b.size # b.at
    BY <1>2, HeapConstants
  <1> QED  BY <1>1, <1>4, <1>5, <1>6, <1>7 DEF HeapOK

\* Nobody owns anything in a heap that was just set up.
LEMMA OwnedInit == Owned(kmalloc_init, [q \in Tasks |-> NoFds], {})
  <1>1. \A q \in Tasks, f \in FileFds : [r \in Tasks |-> NoFds][q][f] = FreeEntry
    BY DEF NoFds
  <1>2. LiveBlocks(kmalloc_init) = {}
    BY DEF LiveBlocks, kmalloc_init, Block
  <1> QED  BY <1>1, <1>2, HeapInitOK, FreeEntryOK DEF Owned, HasBlock

LEMMA NoFdsType == NoFds \in [FileFds -> Entries] /\ \A f \in FileFds : NoFds[f] = FreeEntry
  BY FreeEntryOK DEF NoFds

LEMMA FilesInvInit == ASSUME FilesInit PROVE FilesInv
  <1> USE DEF FilesInit
  <1>1. \A q \in Tasks, f \in FileFds : tab[q][f] = FreeEntry
    BY NoFdsType
  <1>2. disk \in [Names -> Seq(Letters)] /\ \A n \in Names : StaleFree(disk[n])
    <2>1. ASSUME NEW n \in Names PROVE disk[n] \in Seq(Letters) /\ StaleFree(disk[n])
      <3>1. PICK k \in 0 .. MaxFile + 1 : disk[n] = Fill(k, "new")
        OBVIOUS
      <3>2. k \in Nat
        BY FilesAssumption
      <3> QED  BY <3>1, <3>2, FillFacts DEF Letters
    <2> QED  BY <2>1
  <1>3. FTypes
    BY <1>2, NoFdsType DEF FTypes, NoJob
  <1>4. Owned(km, tab, Outside)
    BY OwnedInit DEF Outside
  <1>5. EntriesOK
    BY <1>1, FreeEntryOK DEF EntriesOK
  <1>6. JobsOK
    BY <1>1, FreeEntryOK DEF JobsOK, InSave
  <1> QED  BY <1>2, <1>3, <1>4, <1>5, <1>6 DEF FilesInv, DiskOK

-----------------------------------------------------------------------------
(* The steps: processes *)

\* The blocks of a table that is cleared are nobody's.
LEMMA OwnedForget ==
  ASSUME NEW h, NEW t, NEW O, Owned(h, t, O), NEW q \in Tasks, NEW u,
         \A r \in Tasks, f \in FileFds : u[r][f] = IF r = q THEN FreeEntry ELSE t[r][f]
  PROVE  Owned(h, u, (O \cup {t[q][f].data : f \in FileFds}) \ {NullPtr})
  <1> DEFINE D == {t[q][f].data : f \in FileFds}
             P == (O \cup D) \ {NullPtr}
  <1>1. FreeEntry.data = NullPtr
    BY FreeEntryOK
  <1>2. HeapOK(h) /\ \A b \in LiveBlocks(h) : b.at # NullPtr
    BY LiveAt DEF Owned
  <1>3. \A b \in LiveBlocks(h) :
          b.at \in P \/ \E r \in Tasks, f \in FileFds : u[r][f].data = b.at
    <2>1. SUFFICES ASSUME NEW b \in LiveBlocks(h)
                   PROVE  b.at \in P \/ \E r \in Tasks, f \in FileFds : u[r][f].data = b.at
      OBVIOUS
    <2>2. b.at # NullPtr
      BY <1>2
    <2>3. CASE b.at \in O
      BY <2>2, <2>3
    <2>4. CASE \E r \in Tasks, f \in FileFds : t[r][f].data = b.at
      <3>1. PICK r \in Tasks, f \in FileFds : t[r][f].data = b.at
        BY <2>4
      <3>2. CASE r = q
        BY <2>2, <3>1, <3>2
      <3>3. CASE r # q
        BY <3>1, <3>3
      <3> QED  BY <3>2, <3>3
    <2> QED  BY <2>3, <2>4 DEF Owned
  <1>4. \A p \in P : \E b \in LiveBlocks(h) : b.at = p
    <2>1. SUFFICES ASSUME NEW p \in P PROVE \E b \in LiveBlocks(h) : b.at = p
      OBVIOUS
    <2>2. CASE p \in O
      BY <2>2 DEF Owned
    <2>3. CASE p \in D
      <3>1. PICK f \in FileFds : p = t[q][f].data /\ p # NullPtr
        BY <2>3
      <3> QED  BY <3>1 DEF Owned, HasBlock
    <2> QED  BY <2>2, <2>3
  <1>5. \A r \in Tasks, f \in FileFds : HasBlock(h, u[r][f]) /\ u[r][f].data \notin P
    <2>1. SUFFICES ASSUME NEW r \in Tasks, NEW f \in FileFds
                   PROVE  HasBlock(h, u[r][f]) /\ u[r][f].data \notin P
      OBVIOUS
    <2>2. CASE r = q
      BY <1>1, <2>2 DEF HasBlock
    <2>3. CASE r # q
      <3>1. u[r][f] = t[r][f]
        BY <2>3
      <3>2. \A g \in FileFds : t[q][g].data = t[r][f].data => t[r][f].data = NullPtr
        BY <2>3 DEF Owned
      <3> QED  BY <3>1, <3>2 DEF Owned
    <2> QED  BY <2>2, <2>3
  <1>6. \A r, s \in Tasks : \A f, g \in FileFds :
          u[r][f].data = u[s][g].data /\ u[r][f].data # NullPtr => r = s /\ f = g
    <2>1. SUFFICES ASSUME NEW r \in Tasks, NEW s \in Tasks, NEW f \in FileFds, NEW g \in FileFds,
                          u[r][f].data = u[s][g].data, u[r][f].data # NullPtr
                   PROVE  r = s /\ f = g
      OBVIOUS
    <2>2. r # q /\ s # q
      BY <1>1, <2>1
    <2> QED  BY <2>1, <2>2 DEF Owned
  <1> HIDE DEF D, P
  <1>7. Owned(h, u, P)
    BY <1>2, <1>3, <1>4, <1>5, <1>6 DEF Owned
  <1> QED  BY <1>7 DEF D, P

\* Clearing the table of a slot.
LEMMA ClearedSlot ==
  ASSUME FilesInv, NEW q \in Tasks, fd_table_init(q),
         UNCHANGED <<km, others, disk, starved>>
  PROVE  /\ tab' \in [Tasks -> [FileFds -> Entries]] /\ Owned(km', tab', Outside')
         /\ EntriesOK' /\ DiskOK' /\ others' \cap forgotten' = {}
         /\ \A r \in Tasks, f \in FileFds :
              tab'[r][f] = IF r = q THEN FreeEntry ELSE tab[r][f]
  <1>1. tab \in [Tasks -> [FileFds -> Entries]] /\ starved \in BOOLEAN
    BY DEF FilesInv, FTypes
  <1>2. tab' \in [Tasks -> [FileFds -> Entries]]
    BY <1>1, NoFdsType DEF fd_table_init
  <1>3. \A r \in Tasks, f \in FileFds :
          tab'[r][f] = IF r = q THEN FreeEntry ELSE tab[r][f]
    BY <1>1, NoFdsType DEF fd_table_init
  <1>4. Owned(km', tab', Outside')
    <2> DEFINE D == {tab[q][f].data : f \in FileFds}
    <2>1. Owned(km, tab, Outside) /\ km' = km
      BY DEF FilesInv
    <2>2. Owned(km, tab', (Outside \cup D) \ {NullPtr})
      BY <1>3, <2>1, OwnedForget
    <2>3. NullPtr \notin Outside
      BY <2>1, LiveAt DEF Owned
    <2>4. Outside' = (Outside \cup D) \ {NullPtr}
      BY <2>3 DEF fd_table_init, Outside
    <2> QED  BY <2>1, <2>2, <2>4
  <1>7. others' \cap forgotten' = {}
    <2>1. \A f \in FileFds : tab[q][f].data \notin others
      BY DEF FilesInv, Owned, Outside
    <2> QED  BY <2>1 DEF fd_table_init, FilesInv, FTypes
  <1>5. EntriesOK'
    BY <1>1, <1>3, FreeEntryOK DEF EntriesOK, FilesInv
  <1>6. DiskOK'
    BY DEF DiskOK, FilesInv
  <1> QED  BY <1>2, <1>3, <1>4, <1>5, <1>6, <1>7

LEMMA StartTaskStep ==
  ASSUME FilesInv, NEW q \in Tasks, StartTask(q)
  PROVE  FilesInv'
  <1> USE DEF StartTask
  <1>1. phase[q] = "none" /\ Idle
    OBVIOUS
  <1>2. /\ tab' \in [Tasks -> [FileFds -> Entries]] /\ Owned(km', tab', Outside')
        /\ EntriesOK' /\ DiskOK' /\ others' \cap forgotten' = {}
        /\ \A r \in Tasks, f \in FileFds :
             tab'[r][f] = IF r = q THEN FreeEntry ELSE tab[r][f]
    BY <1>1, ClearedSlot
  <1>3. FTypes'
    BY <1>2 DEF FilesInv, FTypes
  <1>4. \A r \in Tasks : phase'[r] = IF r = q THEN "user" ELSE phase[r]
    BY DEF FilesInv, FTypes
  <1>5. JobsOK'
    BY <1>1, <1>2, <1>4 DEF FilesInv, JobsOK, InSave, Idle, Quiet
  <1> QED  BY <1>2, <1>3, <1>5 DEF FilesInv

LEMMA task_forkStep ==
  ASSUME FilesInv, NEW q \in Tasks, NEW c \in Tasks, task_fork(q, c)
  PROVE  FilesInv'
  <1> USE DEF task_fork
  <1>1. phase[c] = "none" /\ phase[q] = "user" /\ Idle /\ q # c
    BY DEF InUser
  <1>2. /\ tab' \in [Tasks -> [FileFds -> Entries]] /\ Owned(km', tab', Outside')
        /\ EntriesOK' /\ DiskOK' /\ others' \cap forgotten' = {}
        /\ \A r \in Tasks, f \in FileFds :
             tab'[r][f] = IF r = c THEN FreeEntry ELSE tab[r][f]
    BY <1>1, ClearedSlot
  <1>3. FTypes'
    BY <1>2 DEF FilesInv, FTypes
  <1>4. \A r \in Tasks : /\ phase'[r] = IF r = q THEN "fork" ELSE phase[r]
                         /\ job'[r] = IF r = q THEN [fd |-> 1, child |-> c] ELSE job[r]
    BY DEF FilesInv, FTypes
  <1>5. JobsOK'
    BY <1>1, <1>2, <1>4, FreeEntryOK DEF FilesInv, JobsOK, InSave, Idle, Quiet
  <1> QED  BY <1>2, <1>3, <1>5 DEF FilesInv

\* The copy of an entry, as the heap serves it or not.
LEMMA fd_table_dupStep ==
  ASSUME FilesInv, NEW q \in Tasks, fd_table_dup(q)
  PROVE  FilesInv'
  <1> DEFINE f == job[q].fd
             c == job[q].child
             e == tab[q][f]
             x == CopyOf(e)
             n == BytesOf(e.size)
  <1>1. /\ phase[q] = "fork" /\ f \in FileFds
        /\ tab' = [tab EXCEPT ![c][f] = x]
        /\ km' = IF e.data = NullPtr THEN km ELSE kmalloc(km, n)
        /\ starved' = (starved \/ (e.data # NullPtr /\ ~kmalloc_serves(km, n)))
        /\ job' = [job EXCEPT ![q].fd = f + 1]
        /\ UNCHANGED <<phase, others, forgotten, disk>>
    BY DEF fd_table_dup
  <1>2. c \in Tasks /\ phase[c] = "none" /\ tab[c][f].data = NullPtr
    BY <1>1, FileFdsNat DEF FilesInv, JobsOK
  <1>3. e \in Entries /\ EntryOK(e, starved) /\ tab \in Table /\ starved \in BOOLEAN
    BY <1>1 DEF FilesInv, FTypes, EntriesOK, Table
  <1>4. Owned(km, tab, Outside) /\ FTypes /\ EntriesOK /\ JobsOK /\ DiskOK
    BY DEF FilesInv
  <1>5. starved' \in BOOLEAN /\ (starved => starved')
    BY <1>1, <1>3
  <1>12. Outside' = Outside
    BY <1>1 DEF Outside
  <1>6. x \in Entries /\ EntryOK(x, starved') /\ Owned(km', tab', Outside')
    <2>1. CASE e.data = NullPtr
      <3>1. x = e /\ km' = km /\ starved' = starved
        BY <1>1, <1>3, <2>1 DEF CopyOf
      <3>2. \A r \in Tasks, g \in FileFds :
              tab'[r][g] = IF r = c /\ g = f THEN x ELSE tab[r][g]
        BY <1>1, <1>2, <1>3 DEF Table
      <3>3. Owned(km, tab', Outside)
        BY <1>2, <1>4, <2>1, <3>1, <3>2, OwnedSame
      <3> QED  BY <1>3, <1>12, <3>1, <3>3
    <2>2. CASE e.data # NullPtr /\ kmalloc_serves(km, n)
      <3> DEFINE p == kmalloc_ptr(km, n)
      <3>1. n \in Nat
        BY <1>3, BytesNat DEF Entries
      <3>2. p \in Nat /\ p # NullPtr
        BY ZenonT(30), <1>4, <2>2, <3>1, OwnedMalloc
      <3>3. x = [e EXCEPT !.data = p] /\ km' = kmalloc(km, n) /\ starved' = starved
        BY <1>1, <1>3, <2>2, <3>2 DEF CopyOf
      <3> HIDE DEF p, x
      <3>4. /\ x \in Entries /\ x.data = p /\ x.size = e.size /\ x.bytes = e.bytes
            /\ x.dirty = e.dirty /\ x.name = e.name
        BY <1>3, <3>2, <3>3 DEF Entries
      <3>5. EntryOK(x, starved)
        BY <1>3, <2>2, <3>2, <3>4 DEF EntryOK
      <3>6. Owned(kmalloc(km, BytesOf(x.size)), [tab EXCEPT ![c][f] = x], Outside)
        <4>1. kmalloc_serves(km, BytesOf(x.size)) /\ x.data = kmalloc_ptr(km, BytesOf(x.size))
          BY <2>2, <3>4 DEF p
        <4> HIDE DEF f, c, e, n
        <4> QED  BY <1>1, <1>2, <1>3, <1>4, <3>4, <4>1, OwnedTake
      <3> QED  BY <1>1, <1>12, <3>3, <3>4, <3>5, <3>6
    <2>3. CASE e.data # NullPtr /\ ~kmalloc_serves(km, n)
      <3>1. kmalloc(km, n) = km /\ kmalloc_ptr(km, n) = NullPtr
        BY <2>3, KmallocRefused
      <3>2. x = [e EXCEPT !.data = NullPtr, !.bytes = <<>>] /\ km' = km /\ starved' = TRUE
        BY <1>1, <2>3, <3>1 DEF CopyOf
      <3>3. NullPtr \in Int /\ <<>> \in Seq(Letters)
        BY DEF NullPtr
      <3>4. \A r \in Tasks, g \in FileFds :
              tab'[r][g] = IF r = c /\ g = f THEN x ELSE tab[r][g]
        BY <1>1, <1>2, <1>3 DEF Table
      <3> HIDE DEF x
      <3>5. /\ x \in Entries /\ x.data = NullPtr /\ x.bytes = <<>> /\ x.size = e.size
            /\ x.dirty = e.dirty /\ x.name = e.name
        BY <1>3, <3>2, <3>3 DEF Entries
      <3>6. EntryOK(x, TRUE)
        BY <1>3, <3>5 DEF EntryOK
      <3>7. Owned(km, tab', Outside)
        BY <1>2, <1>4, <3>4, <3>5, OwnedSame
      <3> QED  BY <1>12, <3>2, <3>5, <3>6, <3>7
    <2> QED  BY <2>1, <2>2, <2>3
  <1> HIDE DEF x
  <1>7. /\ tab' \in [Tasks -> [FileFds -> Entries]] /\ EntriesOK'
        /\ \A r \in Tasks, g \in FileFds :
             tab'[r][g] = IF r = c /\ g = f THEN x ELSE tab[r][g]
    <2> HIDE DEF f, c, e
    <2> QED  BY ZenonT(30), <1>1, <1>2, <1>4, <1>5, <1>6, EntryUpdate
  <1>8. /\ job' \in [Tasks -> [fd : Nat, child : Tasks \cup {0}]]
        /\ \A r \in Tasks : job'[r] = IF r = q THEN [fd |-> f + 1, child |-> c] ELSE job[r]
    <2>1. job \in [Tasks -> [fd : Nat, child : Tasks \cup {0}]]
      BY <1>4 DEF FTypes
    <2>2. job[q] = [fd |-> f, child |-> c] /\ f \in Nat
      BY <2>1
    <2> QED  BY <1>1, <2>1, <2>2
  <1>9. FTypes'
    BY <1>1, <1>4, <1>5, <1>7, <1>8 DEF FTypes
  <1>10. DiskOK'
    BY <1>1, <1>4, <1>5 DEF DiskOK
  <1>11. JobsOK'
    <2>1. \A p \in Tasks : phase'[p] = "fork" =>
            /\ job'[p].child \in Tasks /\ phase'[job'[p].child] = "none"
            /\ \A g \in FileFds : g >= job'[p].fd => tab'[job'[p].child][g].data = NullPtr
      <3>1. SUFFICES ASSUME NEW p \in Tasks, phase'[p] = "fork"
                     PROVE  /\ job'[p].child \in Tasks /\ phase'[job'[p].child] = "none"
                            /\ \A g \in FileFds :
                                 g >= job'[p].fd => tab'[job'[p].child][g].data = NullPtr
        OBVIOUS
      <3>2. p = q
        BY <1>1, <1>4, <3>1 DEF JobsOK
      <3>3. \A g \in FileFds : g >= f + 1 => g >= f /\ g # f
        BY <1>1, FileFdsNat
      <3> QED  BY <1>1, <1>2, <1>4, <1>7, <1>8, <3>2, <3>3 DEF JobsOK
    <2>2. \A p \in Tasks : InSave(p)' => job'[p].fd \in FileFds /\ tab'[p][job'[p].fd].dirty
      <3>1. SUFFICES ASSUME NEW p \in Tasks, phase[p] \in {"save", "exitsave", "exposedsave"}
                     PROVE  job'[p].fd \in FileFds /\ tab'[p][job'[p].fd].dirty
        BY <1>1 DEF InSave
      <3>2. p # q /\ p # c
        BY <1>1, <1>2, <3>1
      <3>3. job'[p] = job[p] /\ job[p].fd \in FileFds /\ tab[p][job[p].fd].dirty
        BY <1>4, <1>8, <3>1, <3>2 DEF JobsOK, InSave
      <3>4. tab'[p][job[p].fd] = tab[p][job[p].fd]
        BY <1>7, <3>2, <3>3
      <3> QED  BY <3>3, <3>4
    <2>3. \A p, r \in Tasks :
            phase'[p] \in {"save", "fork"} /\ phase'[r] \in {"save", "fork"} => p = r
      BY <1>1, <1>4 DEF JobsOK
    <2> QED  BY <2>1, <2>2, <2>3 DEF JobsOK
  <1> QED  BY <1>6, <1>7, <1>9, <1>10, <1>11 DEF FilesInv

LEMMA ForkDoneStep ==
  ASSUME FilesInv, NEW q \in Tasks, ForkDone(q)
  PROVE  FilesInv'
  <1> DEFINE c == job[q].child
  <1> USE DEF ForkDone
  <1>1. FTypes /\ JobsOK /\ Owned(km, tab, Outside) /\ EntriesOK /\ DiskOK
    BY DEF FilesInv
  <1>2. c \in Tasks /\ phase[c] = "none" /\ phase[q] = "fork"
    BY <1>1 DEF JobsOK
  <1>3. \A r \in Tasks : /\ phase'[r] = IF r = q \/ r = c THEN "user" ELSE phase[r]
                         /\ job'[r] = IF r = q THEN NoJob ELSE job[r]
    BY <1>1, <1>2 DEF FTypes
  <1>4. FTypes'
    BY <1>1, <1>2 DEF FTypes, NoJob
  <1>5. Owned(km', tab', Outside') /\ EntriesOK' /\ DiskOK'
    BY <1>1 DEF EntriesOK, DiskOK, Outside
  <1> HIDE DEF c
  <1>6. \A p \in Tasks : phase[p] \in {"save", "fork"} => p = q
    BY <1>1, <1>2 DEF JobsOK
  <1>7. \A p \in Tasks : phase'[p] # "fork" /\ phase'[p] # "save"
    <2>1. ASSUME NEW p \in Tasks PROVE phase'[p] # "fork" /\ phase'[p] # "save"
      <3>1. CASE p = q \/ p = c
        <4>1. phase'[p] = "user"
          BY <1>3, <3>1
        <4> QED  BY <4>1
      <3>2. CASE p # q /\ p # c
        <4>1. phase'[p] = phase[p]
          BY <1>3, <3>2
        <4>2. phase[p] # "fork" /\ phase[p] # "save"
          BY <1>6, <3>2
        <4> QED  BY <4>1, <4>2
      <3> QED  BY <3>1, <3>2
    <2> QED  BY <2>1
  <1>8. \A p \in Tasks : InSave(p)' => job'[p].fd \in FileFds /\ tab'[p][job'[p].fd].dirty
    <2>1. SUFFICES ASSUME NEW p \in Tasks, phase'[p] \in {"save", "exitsave", "exposedsave"}
                   PROVE  job'[p].fd \in FileFds /\ tab'[p][job'[p].fd].dirty
      BY DEF InSave
    <2>2. phase[p] \in {"save", "exitsave", "exposedsave"} /\ job'[p] = job[p]
      BY <1>3, <2>1
    <2> QED  BY <1>1, <2>2 DEF JobsOK, InSave
  <1>9. JobsOK'
    BY <1>7, <1>8 DEF JobsOK
  <1> QED  BY <1>4, <1>5, <1>9 DEF FilesInv

LEMMA process_exitStep ==
  ASSUME FilesInv, NEW q \in Tasks, process_exit(q)
  PROVE  FilesInv'
  <1> USE DEF process_exit
  <1>1. FTypes /\ JobsOK /\ Owned(km, tab, Outside) /\ EntriesOK /\ DiskOK
    BY DEF FilesInv
  <1>2. \A r \in Tasks : phase'[r] = IF r = q THEN "exiting" ELSE phase[r]
    BY <1>1 DEF FTypes
  <1>3. FTypes'
    BY <1>1 DEF FTypes
  <1>4. Owned(km', tab', Outside') /\ EntriesOK' /\ DiskOK'
    BY <1>1 DEF EntriesOK, DiskOK, Outside
  <1>5. JobsOK'
    BY <1>1, <1>2 DEF JobsOK, InSave, InUser
  <1> QED  BY <1>3, <1>4, <1>5 DEF FilesInv

LEMMA ClosePipeStep ==
  ASSUME FilesInv, NEW q \in Tasks, ClosePipe(q)
  PROVE  FilesInv'
  <1> USE DEF ClosePipe
  <1>1. FTypes /\ JobsOK /\ Owned(km, tab, Outside) /\ EntriesOK /\ DiskOK
    BY DEF FilesInv
  <1>2. \A r \in Tasks : phase'[r] = IF r = q THEN "exposed" ELSE phase[r]
    BY <1>1 DEF FTypes
  <1>3. FTypes'
    BY <1>1 DEF FTypes
  <1>4. Owned(km', tab', Outside') /\ EntriesOK' /\ DiskOK'
    BY <1>1 DEF EntriesOK, DiskOK, Outside
  <1>5. JobsOK'
    BY <1>1, <1>2 DEF JobsOK, InSave
  <1> QED  BY <1>3, <1>4, <1>5 DEF FilesInv

\* Whatever a process had open when it is collected stays in its table.
LEMMA CollectStep ==
  ASSUME FilesInv, NEW q \in Tasks, Collect(q)
  PROVE  FilesInv'
  <1> USE DEF Collect
  <1>1. FTypes /\ JobsOK /\ Owned(km, tab, Outside) /\ EntriesOK /\ DiskOK
    BY DEF FilesInv
  <1>2. \A r \in Tasks : /\ phase'[r] = IF r = q THEN "none" ELSE phase[r]
                         /\ r # q => job'[r] = job[r]
    BY <1>1 DEF FTypes
  <1>4. FTypes'
    BY <1>1 DEF FTypes, NoJob
  <1>5. Owned(km', tab', Outside') /\ EntriesOK' /\ DiskOK'
    BY <1>1 DEF EntriesOK, DiskOK, Outside
  <1>6. JobsOK'
    BY <1>1, <1>2 DEF JobsOK, InSave, Idle, Quiet
  <1> QED  BY <1>4, <1>5, <1>6 DEF FilesInv

-----------------------------------------------------------------------------
(* The steps: open files *)

\* A process that is not in the middle of a call changes one entry, and what it
\* does to the heap keeps every owner.
LEMMA EntryStep ==
  ASSUME FilesInv, NEW q \in Tasks, NEW f \in FileFds, NEW x \in Entries,
         phase[q] \in {"user", "exiting", "exposed"}, EntryOK(x, starved),
         tab' = [tab EXCEPT ![q][f] = x], Owned(km', tab', Outside),
         UNCHANGED <<phase, job, others, forgotten, disk, starved>>
  PROVE  FilesInv'
  <1>1. FTypes /\ JobsOK /\ EntriesOK /\ DiskOK /\ starved \in BOOLEAN
    BY DEF FilesInv, FTypes
  <1>2. /\ tab' \in [Tasks -> [FileFds -> Entries]] /\ EntriesOK'
        /\ \A r \in Tasks, g \in FileFds :
             tab'[r][g] = IF r = q /\ g = f THEN x ELSE tab[r][g]
    BY ZenonT(30), <1>1, EntryUpdate
  <1>3. JobsOK'
    BY <1>1, <1>2, JobsFrame
  <1>4. FTypes' /\ DiskOK' /\ Outside' = Outside
    BY <1>1, <1>2 DEF FTypes, DiskOK, Outside
  <1> QED  BY <1>2, <1>3, <1>4 DEF FilesInv

\* An entry changes and keeps its buffer.
LEMMA SameBuffer ==
  ASSUME FilesInv, NEW q \in Tasks, NEW f \in FileFds, NEW x \in Entries,
         x.data = tab[q][f].data, x.data # NullPtr => x.size = tab[q][f].size
  PROVE  Owned(km, [tab EXCEPT ![q][f] = x], Outside)
  <1> DEFINE u == [tab EXCEPT ![q][f] = x]
  <1>1. \A r \in Tasks, g \in FileFds : u[r][g] = IF r = q /\ g = f THEN x ELSE tab[r][g]
    BY DEF FilesInv, FTypes
  <1> HIDE DEF u
  <1>2. Owned(km, u, Outside)
    BY <1>1, OwnedSame DEF FilesInv
  <1> QED  BY <1>2 DEF u

LEMMA EntryAt ==
  ASSUME FilesInv, NEW q \in Tasks, NEW f \in FileFds
  PROVE  /\ tab[q][f] \in Entries /\ EntryOK(tab[q][f], starved) /\ tab \in Table
         /\ starved \in BOOLEAN
  BY DEF FilesInv, FTypes, EntriesOK, Table

\* Only the offset changes.
LEMMA OffsetStep ==
  ASSUME FilesInv, NEW q \in Tasks, NEW f \in FileFds, NEW o \in Nat, phase[q] = "user",
         tab' = [tab EXCEPT ![q][f].offset = o],
         UNCHANGED <<km, phase, job, others, forgotten, disk, starved>>
  PROVE  FilesInv'
  <1> DEFINE e == tab[q][f]
             x == [e EXCEPT !.offset = o]
  <1>1. e \in Entries /\ EntryOK(e, starved) /\ tab \in Table
    BY EntryAt
  <1>2. tab' = [tab EXCEPT ![q][f] = x]
    BY <1>1 DEF Table
  <1> HIDE DEF e
  <1>3. /\ x \in Entries /\ x.data = e.data /\ x.size = e.size /\ x.bytes = e.bytes
        /\ x.dirty = e.dirty /\ x.name = e.name
    BY <1>1 DEF Entries
  <1> HIDE DEF x
  <1>4. EntryOK(x, starved)
    BY <1>1, <1>3 DEF EntryOK
  <1>5. Owned(km, tab', Outside)
    <2>1. x.data = tab[q][f].data /\ x.size = tab[q][f].size
      BY <1>3 DEF e
    <2>2. Owned(km, [tab EXCEPT ![q][f] = x], Outside)
      BY <1>3, <2>1, SameBuffer
    <2> QED  BY <1>2, <2>2
  <1> QED  BY <1>2, <1>3, <1>4, <1>5, EntryStep

LEMMA fd_readStep ==
  ASSUME FilesInv, NEW q \in Tasks, NEW f \in FileFds, NEW n \in Nat, fd_read(q, f, n)
  PROVE  FilesInv'
  <1> DEFINE e == tab[q][f]
             o == IF n < e.size - e.offset THEN e.offset + n ELSE e.size
  <1>1. e \in Entries
    BY EntryAt
  <1>2. o \in Nat
    BY <1>1 DEF Entries
  <1>3. /\ phase[q] = "user" /\ tab' = [tab EXCEPT ![q][f].offset = o]
        /\ UNCHANGED <<km, phase, job, others, forgotten, disk, starved>>
    BY DEF fd_read, InUser
  <1> HIDE DEF o
  <1> QED  BY <1>2, <1>3, OffsetStep

LEMMA fd_lseekStep ==
  ASSUME FilesInv, NEW q \in Tasks, NEW f \in FileFds, NEW o \in Nat, fd_lseek(q, f, o)
  PROVE  FilesInv'
  <1>1. /\ phase[q] = "user" /\ tab' = [tab EXCEPT ![q][f].offset = o]
        /\ UNCHANGED <<km, phase, job, others, forgotten, disk, starved>>
    BY DEF fd_lseek, InUser
  <1> QED  BY <1>1, OffsetStep

\* A new entry has the buffer that the heap gave, and it was filled.
LEMMA fd_openStep ==
  ASSUME FilesInv, NEW q \in Tasks, NEW n \in Names, NEW flags, fd_open(q, n, flags)
  PROVE  FilesInv'
  <1> DEFINE f == FirstOf(FileFds \ OpenFiles(q))
             size == OpenedSize(n, flags)
             p == kmalloc_ptr(km, BytesOf(size))
             h == kmalloc(km, BytesOf(size))
             x == [name |-> n, writable |-> "write" \in flags,
                   append |-> "append" \in flags, dirty |-> FALSE, size |-> size,
                   offset |-> 0, data |-> p, bytes |-> SubSeq(disk[n], 1, size)]
  <1>1. /\ phase[q] = "user" /\ FileFds \ OpenFiles(q) # {}
        /\ size > 0 => p # NullPtr
        /\ \/ km' = h /\ tab' = [tab EXCEPT ![q][f] = x]
           \/ size > 0 /\ km' = kfree(h, p) /\ tab' = tab
        /\ UNCHANGED <<phase, job, others, forgotten, disk, starved>>
    BY DEF fd_open, InUser
  <1>2. f \in FileFds /\ f \notin OpenFiles(q)
    BY <1>1, FirstOfIn, FileFdsNat
  <1> HIDE DEF f
  <1>3. tab[q][f].data = NullPtr
    BY <1>2, EntryAt DEF OpenFiles, IsOpen, EntryOK
  <1>4. FTypes /\ Owned(km, tab, Outside) /\ DiskOK /\ disk[n] \in Seq(Letters)
    BY DEF FilesInv, FTypes
  <1>5. size \in 0 .. Len(disk[n]) /\ size \in Nat
    BY <1>4 DEF OpenedSize
  <1>6. BytesOf(size) \in Nat
    BY <1>5, BytesNat
  <1>7. size = 0 => p = NullPtr /\ h = km
    <2>1. ASSUME size = 0 PROVE ~kmalloc_serves(km, BytesOf(size))
      BY <2>1, BytesNat DEF kmalloc_serves
    <2> QED  BY <2>1, KmallocRefused
  <1>8. size > 0 => kmalloc_serves(km, BytesOf(size))
    BY <1>1, KmallocRefused
  <1>9. CASE km' = h /\ tab' = [tab EXCEPT ![q][f] = x]
    <2> DEFINE by == SubSeq(disk[n], 1, size)
    <2>1. /\ by \in Seq(Letters) /\ Len(by) = size
          /\ size = 0 => by = <<>>
          /\ starved \/ StaleFree(by)
      BY <1>4, <1>5, PrefixFacts DEF DiskOK
    <2> HIDE DEF by
    <2>2. p \in Int
      <3>1. size > 0 => p \in Nat
        BY <1>4, <1>6, <1>8, OwnedMalloc
      <3>2. NullPtr \in Int
        BY DEF NullPtr
      <3> QED  BY <1>5, <1>7, <3>1, <3>2
    <2> HIDE DEF size, p
    <2>3. x \in Entries
      BY <1>5, <2>1, <2>2 DEF Entries, by
    <2>4. EntryOK(x, starved)
      <3>1. x.name # NoName /\ x.data = p /\ x.bytes = by /\ x.size = size /\ x.dirty = FALSE
        BY FilesAssumption DEF by
      <3>2. size = 0 \/ size > 0
        BY <1>5
      <3> HIDE DEF x
      <3>3. p = NullPtr => size = 0
        BY <1>1, <3>2
      <3>4. p # NullPtr => size > 0
        BY <1>7, <3>2
      <3> QED  BY <2>1, <3>1, <3>3, <3>4 DEF EntryOK
    <2>5. Owned(km', tab', Outside)
      <3>1. x.data = p /\ x.size = size
        OBVIOUS
      <3> HIDE DEF x
      <3>2. CASE size > 0
        <4>1. kmalloc_serves(km, BytesOf(x.size)) /\ x.data = kmalloc_ptr(km, BytesOf(x.size))
          BY <1>8, <3>1, <3>2 DEF p
        <4>2. Owned(kmalloc(km, BytesOf(x.size)), [tab EXCEPT ![q][f] = x], Outside)
          BY <1>2, <1>3, <1>4, <2>3, <4>1, EntryAt, OwnedTake
        <4> QED  BY <1>9, <3>1, <4>2
      <3>3. CASE size = 0
        <4>1. km' = km /\ x.data = NullPtr
          BY <1>7, <1>9, <3>1, <3>3
        <4> QED  BY <1>2, <1>3, <1>9, <2>3, <4>1, SameBuffer
      <3> QED  BY <1>5, <3>2, <3>3
    <2> HIDE DEF x
    <2> QED  BY <1>1, <1>2, <1>9, <2>3, <2>4, <2>5, EntryStep
  <1>10. CASE size > 0 /\ km' = kfree(h, p) /\ tab' = tab
    <2> DEFINE O == Outside \cup {p}
    <2>1. Owned(h, tab, O) /\ p \notin Outside
      BY <1>4, <1>6, <1>8, <1>10, OwnedMalloc
    <2>2. p \in O /\ O \ {p} = Outside
      BY <2>1
    <2> HIDE DEF O, h, p, size
    <2>3. Owned(kfree(h, p), tab, O \ {p})
      BY <2>1, <2>2, OwnedFree
    <2>4. Owned(km', tab', Outside')
      BY <1>1, <1>10, <2>2, <2>3 DEF Outside
    <2>5. FTypes' /\ EntriesOK' /\ DiskOK'
      BY <1>1, <1>10 DEF FilesInv, FTypes, EntriesOK, DiskOK
    <2>6. JobsOK'
      BY <1>1, <1>10, JobsFrame DEF FilesInv
    <2> QED  BY <2>4, <2>5, <2>6 DEF FilesInv
  <1> QED  BY <1>1, <1>9, <1>10

\* A write within the buffer, one that makes it grow, and one that cannot.
LEMMA fd_writeStep ==
  ASSUME FilesInv, NEW q \in Tasks, NEW f \in FileFds, NEW n \in Nat \ {0},
         fd_write(q, f, n)
  PROVE  FilesInv'
  <1> DEFINE e0 == tab[q][f]
             e == IF e0.append THEN [e0 EXCEPT !.offset = e0.size] ELSE e0
             end == e.offset + n
             y == Regrown(e, end)
  <1>1. /\ phase[q] = "user" /\ e0.name # NoName
        /\ \/ end <= e.size /\ tab' = [tab EXCEPT ![q][f] = Written(e, n)] /\ km' = km
           \/ /\ end > e.size /\ MayGrow(end)
              /\ tab' = [tab EXCEPT ![q][f] = Written(y, n)] /\ km' = HeapRegrown(e, end)
           \/ end > e.size /\ tab' = [tab EXCEPT ![q][f] = e] /\ km' = km
        /\ UNCHANGED <<phase, job, others, forgotten, disk, starved>>
    BY DEF fd_write, InUser, IsOpen
  <1>2. e0 \in Entries /\ EntryOK(e0, starved) /\ tab \in Table /\ starved \in BOOLEAN
    BY EntryAt
  <1>3. /\ e \in Entries /\ e.data = e0.data /\ e.size = e0.size /\ e.bytes = e0.bytes
        /\ e.dirty = e0.dirty /\ e.name = e0.name
    <2> HIDE DEF e0
    <2>1. e0.size \in Nat
      BY <1>2 DEF Entries
    <2>2. CASE e0.append
      BY <1>2, <2>1, <2>2 DEF Entries
    <2>3. CASE ~e0.append
      BY <1>2, <2>3
    <2> QED  BY <2>2, <2>3
  <1>4. e.offset \in Nat /\ e.size \in Nat /\ end \in Nat
    BY <1>3 DEF Entries
  <1> HIDE DEF e
  <1>5. EntryOK(e, starved)
    BY <1>2, <1>3 DEF EntryOK
  <1> HIDE DEF e0
  <1>6. CASE end <= e.size /\ tab' = [tab EXCEPT ![q][f] = Written(e, n)] /\ km' = km
    <2> DEFINE x == Written(e, n)
    <2>1. x \in Entries /\ EntryOK(x, starved) /\ x.size = e.size /\ x.data = e.data
      BY <1>1, <1>2, <1>3, <1>5, <1>6, WrittenFacts
    <2> HIDE DEF x
    <2>2. x.data = tab[q][f].data /\ x.size = tab[q][f].size
      BY <1>3, <2>1 DEF e0
    <2>3. Owned(km, [tab EXCEPT ![q][f] = x], Outside)
      BY <2>1, <2>2, SameBuffer
    <2>4. Owned(km', tab', Outside)
      BY <1>6, <2>3 DEF x
    <2> QED  BY <1>1, <1>6, <2>1, <2>4, EntryStep DEF x
  <1>7. CASE /\ end > e.size /\ MayGrow(end)
             /\ tab' = [tab EXCEPT ![q][f] = Written(y, n)] /\ km' = HeapRegrown(e, end)
    <2> DEFINE x == Written(y, n)
    <2>1. Owned(km, tab, Outside) /\ kmalloc_serves(km, BytesOf(end)) /\ BytesOf(end) \in Nat
      BY <1>4, <1>7, BytesNat DEF MayGrow, FilesInv
    <2>2. kmalloc_ptr(km, BytesOf(end)) \in Nat
      BY <2>1, OwnedMalloc
    <2>3. /\ y \in Entries /\ EntryOK(y, starved) /\ y.size = end
          /\ y.data = kmalloc_ptr(km, BytesOf(end))
          /\ y.offset = e.offset /\ y.name = e.name
      BY <1>1, <1>2, <1>3, <1>4, <1>5, <1>7, <2>2, RegrownFacts
    <2> HIDE DEF y
    <2>4. y.offset + n <= y.size
      BY <1>4, <2>3
    <2>5. x \in Entries /\ EntryOK(x, starved) /\ x.size = end /\ x.data = y.data
      BY <1>1, <1>2, <1>3, <2>3, <2>4, WrittenFacts
    <2> HIDE DEF x, end
    <2>6. kmalloc_serves(km, BytesOf(x.size)) /\ x.data = kmalloc_ptr(km, BytesOf(x.size))
      BY <2>1, <2>3, <2>5
    <2>7. tab[q][f].data = e.data
      BY <1>3 DEF e0
    <2>8. Owned(km', [tab EXCEPT ![q][f] = x], Outside)
      <3>1. CASE e.data = NullPtr
        <4>1. km' = kmalloc(km, BytesOf(x.size))
          BY <1>7, <2>5, <3>1 DEF HeapRegrown
        <4>2. Owned(kmalloc(km, BytesOf(x.size)), [tab EXCEPT ![q][f] = x], Outside)
          BY <1>2, <2>1, <2>5, <2>6, <2>7, <3>1, OwnedTake
        <4> QED  BY <4>1, <4>2
      <3>2. CASE e.data # NullPtr
        <4>1. km' = kfree(kmalloc(km, BytesOf(x.size)), tab[q][f].data)
          BY <1>7, <2>5, <2>7, <3>2 DEF HeapRegrown
        <4>2. Owned(kfree(kmalloc(km, BytesOf(x.size)), tab[q][f].data),
                    [tab EXCEPT ![q][f] = x], Outside)
          BY <1>2, <2>1, <2>5, <2>6, <2>7, <3>2, OwnedRegrow
        <4> QED  BY <4>1, <4>2
      <3> QED  BY <3>1, <3>2
    <2>9. tab' = [tab EXCEPT ![q][f] = x]
      BY <1>7 DEF x
    <2>10. Owned(km', tab', Outside)
      BY <2>8, <2>9
    <2> QED  BY <1>1, <2>5, <2>9, <2>10, EntryStep
  <1>8. CASE end > e.size /\ tab' = [tab EXCEPT ![q][f] = e] /\ km' = km
    <2>1. e.data = tab[q][f].data /\ e.size = tab[q][f].size
      BY <1>3 DEF e0
    <2>2. Owned(km, [tab EXCEPT ![q][f] = e], Outside)
      BY <1>3, <2>1, SameBuffer
    <2>3. Owned(km', tab', Outside)
      BY <1>8, <2>2
    <2> QED  BY <1>1, <1>3, <1>5, <1>8, <2>3, EntryStep
  <1> QED  BY <1>1, <1>6, <1>7, <1>8

-----------------------------------------------------------------------------
(* The steps: closing *)

\* An entry becomes free and its buffer, if any, goes back.
LEMMA DroppedFacts ==
  ASSUME FilesInv, NEW q \in Tasks, NEW f \in FileFds
  PROVE  Owned(Dropped(tab[q][f]), [tab EXCEPT ![q][f] = FreeEntry], Outside)
  <1> DEFINE x == FreeEntry
  <1>1. x \in Entries /\ x.data = NullPtr /\ Owned(km, tab, Outside) /\ tab \in Table
    BY FreeEntryOK, EntryAt DEF FilesInv
  <1> HIDE DEF x
  <1>2. CASE tab[q][f].data = NullPtr
    <2>1. Owned(km, [tab EXCEPT ![q][f] = x], Outside)
      BY <1>1, <1>2, SameBuffer
    <2> QED  BY <1>2, <2>1 DEF x, Dropped
  <1>3. CASE tab[q][f].data # NullPtr
    <2>1. Owned(kfree(km, tab[q][f].data), [tab EXCEPT ![q][f] = x], Outside)
      BY <1>1, <1>3, OwnedDrop
    <2> QED  BY <1>3, <2>1 DEF x, Dropped
  <1> QED  BY <1>2, <1>3

LEMMA CloseCleanStep ==
  ASSUME FilesInv, NEW q \in Tasks, NEW f \in FileFds, phase[q] \in {"user", "exiting", "exposed"},
         CloseClean(q, f)
  PROVE  FilesInv'
  <1>1. /\ km' = Dropped(tab[q][f]) /\ tab' = [tab EXCEPT ![q][f] = FreeEntry]
        /\ UNCHANGED <<phase, job, others, forgotten, disk, starved>>
    BY DEF CloseClean
  <1>2. Owned(km', tab', Outside)
    BY <1>1, DroppedFacts
  <1>3. FreeEntry \in Entries /\ EntryOK(FreeEntry, starved)
    BY FreeEntryOK, EntryAt
  <1> QED  BY <1>1, <1>2, <1>3, EntryStep

LEMMA DeleteOldStep ==
  ASSUME FilesInv, NEW q \in Tasks, NEW f \in FileFds,
         phase[q] \in {"user", "exiting", "exposed"}, phase[q] = "user" => Idle,
         DeleteOld(q, f)
  PROVE  FilesInv'
  <1> DEFINE n == tab[q][f].name
  <1>1. FTypes /\ JobsOK /\ Owned(km, tab, Outside) /\ EntriesOK /\ DiskOK
    BY DEF FilesInv
  <1>2. /\ tab[q][f].dirty
        /\ disk' = disk \/ disk' = [disk EXCEPT ![n] = <<>>]
        /\ phase' = [phase EXCEPT ![q] = SavePhase(@)]
        /\ job' = [job EXCEPT ![q].fd = f]
        /\ UNCHANGED <<km, tab, others, forgotten, starved>>
    BY DEF DeleteOld
  <1>3. disk' \in [Names -> Seq(Letters)] /\ \A m \in Names : disk'[m] \in {disk[m], <<>>}
    <2>1. disk \in [Names -> Seq(Letters)] /\ <<>> \in Seq(Letters)
      BY <1>1 DEF FTypes
    <2> QED  BY <1>2, <2>1
  <1>4. /\ phase' \in [Tasks -> Phases]
        /\ phase'[q] \in {"save", "exitsave", "exposedsave"}
        /\ phase'[q] = "save" <=> phase[q] = "user"
        /\ \A r \in Tasks : r # q => phase'[r] = phase[r]
    <2>1. SavePhase(phase[q]) = CASE phase[q] = "user" -> "save"
                                  [] phase[q] = "exiting" -> "exitsave"
                                  [] phase[q] = "exposed" -> "exposedsave"
      BY DEF SavePhase
    <2> QED  BY <1>1, <1>2, <2>1 DEF FTypes
  <1>5. /\ job' \in [Tasks -> [fd : Nat, child : Tasks \cup {0}]]
        /\ \A r \in Tasks : r # q => job'[r] = job[r]
        /\ job'[q].fd = f
    <2>1. f \in Nat /\ job \in [Tasks -> [fd : Nat, child : Tasks \cup {0}]]
      BY <1>1, FileFdsNat DEF FTypes
    <2> QED  BY <1>2, <2>1
  <1>6. FTypes'
    BY <1>1, <1>2, <1>3, <1>4, <1>5 DEF FTypes
  <1>7. DiskOK'
    <2>1. StaleFree(<<>>)
      BY DEF StaleFree
    <2> QED  BY <1>1, <1>2, <1>3, <2>1 DEF DiskOK
  <1>8. EntriesOK' /\ Owned(km', tab', Outside')
    BY <1>1, <1>2 DEF EntriesOK, Outside
  <1>9. phase[q] = "user" => \A r \in Tasks : phase[r] # "save" /\ phase[r] # "fork"
    BY DEF Idle, Quiet
  <1>10. JobsOK'
    <2>1. \A p \in Tasks : phase'[p] = "fork" =>
            /\ job'[p].child \in Tasks /\ phase'[job'[p].child] = "none"
            /\ \A g \in FileFds : g >= job'[p].fd => tab'[job'[p].child][g].data = NullPtr
      <3>1. SUFFICES ASSUME NEW p \in Tasks, phase'[p] = "fork"
                     PROVE  /\ job'[p].child \in Tasks /\ phase'[job'[p].child] = "none"
                            /\ \A g \in FileFds :
                                 g >= job'[p].fd => tab'[job'[p].child][g].data = NullPtr
        OBVIOUS
      <3>2. p # q /\ phase[p] = "fork" /\ job'[p] = job[p]
        BY <1>4, <1>5, <3>1
      <3>3. /\ job[p].child \in Tasks /\ phase[job[p].child] = "none"
            /\ \A g \in FileFds : g >= job[p].fd => tab[job[p].child][g].data = NullPtr
        BY <1>1, <3>2 DEF JobsOK
      <3>4. phase'[job[p].child] = "none"
        BY <1>4, <3>3
      <3> QED  BY <1>2, <3>2, <3>3, <3>4
    <2>2. \A p \in Tasks : InSave(p)' => job'[p].fd \in FileFds /\ tab'[p][job'[p].fd].dirty
      BY <1>1, <1>2, <1>4, <1>5 DEF JobsOK, InSave
    <2>3. \A p, r \in Tasks :
            phase'[p] \in {"save", "fork"} /\ phase'[r] \in {"save", "fork"} => p = r
      BY <1>1, <1>4, <1>9 DEF JobsOK
    <2> QED  BY <2>1, <2>2, <2>3 DEF JobsOK
  <1> QED  BY <1>6, <1>7, <1>8, <1>10 DEF FilesInv

LEMMA fd_closeStep ==
  ASSUME FilesInv, NEW q \in Tasks, fd_close(q)
  PROVE  FilesInv'
  <1>1. PICK f \in FileFds : /\ phase[q] \in {"user", "exiting", "exposed"}
                             /\ phase[q] = "user" => Idle
                             /\ CloseClean(q, f) \/ DeleteOld(q, f)
    BY DEF fd_close, OpenFiles
  <1> QED  BY <1>1, CloseCleanStep, DeleteOldStep

\* What is written to the disk is what the buffer holds.
LEMMA FoundFacts ==
  ASSUME NEW e \in Entries, NEW s \in BOOLEAN, EntryOK(e, s)
  PROVE  /\ Found(e) \in Seq(Letters) /\ Len(Found(e)) = e.size
         /\ s \/ StaleFree(Found(e))
  <1>1. e.size \in Nat /\ e.bytes \in Seq(Letters)
    BY DEF Entries
  <1>2. CASE e.data = NullPtr
    <2>1. Found(e) = Fill(e.size, "old")
      BY <1>2 DEF Found
    <2>2. Found(e) \in Seq(Letters) /\ Len(Found(e)) = e.size
      BY <1>1, <2>1, FillFacts DEF Letters
    <2>3. s \/ StaleFree(Found(e))
      <3>1. SUFFICES ASSUME ~s PROVE StaleFree(Found(e))
        OBVIOUS
      <3>2. Found(e) = <<>>
        BY <1>1, <1>2, <2>1, <3>1, FillFacts DEF EntryOK, Letters
      <3> QED  BY <3>2 DEF StaleFree
    <2> QED  BY <2>2, <2>3
  <1>3. CASE e.data # NullPtr
    BY <1>1, <1>3 DEF Found, EntryOK
  <1> QED  BY <1>2, <1>3

LEMMA SaveStep ==
  ASSUME FilesInv, NEW q \in Tasks, fd_close_save(q) \/ SaveFails(q)
  PROVE  FilesInv'
  <1> DEFINE f == job[q].fd
             e == tab[q][f]
             n == e.name
  <1>1. /\ InSave(q)
        /\ disk' \in {[disk EXCEPT ![n] = Found(e)], disk, [disk EXCEPT ![n] = <<>>]}
        /\ km' = Dropped(e) /\ tab' = [tab EXCEPT ![q][f] = FreeEntry]
        /\ phase' = [phase EXCEPT ![q] = SavedPhase(@)]
        /\ job' = [job EXCEPT ![q] = NoJob]
        /\ UNCHANGED <<others, forgotten, starved>>
    BY DEF fd_close_save, SaveFails, EndSave, Saved, SavedAs, InSave
  <1>2. FTypes /\ JobsOK /\ Owned(km, tab, Outside) /\ EntriesOK /\ DiskOK
    BY DEF FilesInv
  <1>3. f \in FileFds
    BY <1>1, <1>2 DEF JobsOK
  <1> HIDE DEF f
  <1>4. e \in Entries /\ EntryOK(e, starved) /\ starved \in BOOLEAN
    BY <1>3, EntryAt
  <1>5. Owned(km', tab', Outside')
    BY <1>1, <1>3, DroppedFacts DEF Outside
  <1> HIDE DEF e
  <1>6. /\ tab' \in [Tasks -> [FileFds -> Entries]] /\ EntriesOK'
        /\ \A r \in Tasks, g \in FileFds :
             tab'[r][g] = IF r = q /\ g = f THEN FreeEntry ELSE tab[r][g]
    <2>1. FreeEntry \in Entries /\ EntryOK(FreeEntry, starved')
      BY <1>1, <1>4, FreeEntryOK
    <2> QED  BY ZenonT(30), <1>1, <1>2, <1>3, <1>4, <2>1, EntryUpdate
  <1>7. /\ Found(e) \in Seq(Letters) /\ <<>> \in Seq(Letters) /\ StaleFree(<<>>)
        /\ starved \/ StaleFree(Found(e))
    BY <1>4, FoundFacts DEF StaleFree
  <1>8. /\ disk' \in [Names -> Seq(Letters)]
        /\ \A m \in Names : disk'[m] \in {disk[m], <<>>, Found(e)}
    <2>1. disk \in [Names -> Seq(Letters)]
      BY <1>2 DEF FTypes
    <2> HIDE DEF n
    <2> QED  BY <1>1, <1>7, <2>1
  <1>9. DiskOK'
    BY <1>1, <1>2, <1>7, <1>8 DEF DiskOK
  <1>10. /\ phase' \in [Tasks -> Phases]
         /\ phase'[q] \in {"user", "exiting", "exposed"}
         /\ \A r \in Tasks : r # q => phase'[r] = phase[r]
         /\ job' \in [Tasks -> [fd : Nat, child : Tasks \cup {0}]]
         /\ \A r \in Tasks : r # q => job'[r] = job[r]
    <2>1. SavedPhase(phase[q]) \in {"user", "exiting", "exposed"}
      BY DEF SavedPhase
    <2> QED  BY <1>1, <1>2, <2>1 DEF FTypes, NoJob
  <1>11. FTypes'
    BY <1>1, <1>2, <1>6, <1>8, <1>10 DEF FTypes
  <1>12. JobsOK'
    <2>1. \A p \in Tasks : phase'[p] = "fork" =>
            /\ job'[p].child \in Tasks /\ phase'[job'[p].child] = "none"
            /\ \A g \in FileFds : g >= job'[p].fd => tab'[job'[p].child][g].data = NullPtr
      <3>1. SUFFICES ASSUME NEW p \in Tasks, phase'[p] = "fork"
                     PROVE  /\ job'[p].child \in Tasks /\ phase'[job'[p].child] = "none"
                            /\ \A g \in FileFds :
                                 g >= job'[p].fd => tab'[job'[p].child][g].data = NullPtr
        OBVIOUS
      <3>2. p # q /\ phase[p] = "fork" /\ job'[p] = job[p]
        BY <1>10, <3>1
      <3>3. /\ job[p].child \in Tasks /\ phase[job[p].child] = "none"
            /\ \A g \in FileFds : g >= job[p].fd => tab[job[p].child][g].data = NullPtr
        BY <1>2, <3>2 DEF JobsOK
      <3>4. job[p].child # q
        BY <1>1, <3>3 DEF InSave
      <3>5. phase'[job[p].child] = "none"
        BY <1>10, <3>3, <3>4
      <3>6. \A g \in FileFds : tab'[job[p].child][g] = tab[job[p].child][g]
        BY <1>6, <3>3, <3>4
      <3> QED  BY <3>2, <3>3, <3>5, <3>6
    <2>2. \A p \in Tasks : InSave(p)' => job'[p].fd \in FileFds /\ tab'[p][job'[p].fd].dirty
      <3>1. SUFFICES ASSUME NEW p \in Tasks, phase'[p] \in {"save", "exitsave", "exposedsave"}
                     PROVE  job'[p].fd \in FileFds /\ tab'[p][job'[p].fd].dirty
        BY DEF InSave
      <3>2. p # q /\ phase[p] \in {"save", "exitsave", "exposedsave"} /\ job'[p] = job[p]
        BY <1>10, <3>1
      <3> QED  BY <1>2, <1>6, <3>2 DEF JobsOK, InSave
    <2>3. \A p, r \in Tasks :
            phase'[p] \in {"save", "fork"} /\ phase'[r] \in {"save", "fork"} => p = r
      BY <1>2, <1>10 DEF JobsOK
    <2> QED  BY <2>1, <2>2, <2>3 DEF JobsOK
  <1> QED  BY <1>5, <1>6, <1>9, <1>11, <1>12 DEF FilesInv

-----------------------------------------------------------------------------
(* The steps: power and the other callers *)

LEMMA PowerLossStep ==
  ASSUME FilesInv, PowerLoss
  PROVE  FilesInv'
  <1> USE DEF PowerLoss
  <1>1. \A q \in Tasks, f \in FileFds : tab'[q][f] = FreeEntry
    BY NoFdsType
  <1>2. FTypes'
    BY NoFdsType DEF FilesInv, FTypes, NoJob
  <1>3. Owned(km', tab', Outside')
    BY OwnedInit DEF Outside
  <1>4. EntriesOK'
    BY <1>1, FreeEntryOK DEF EntriesOK, FilesInv, FTypes
  <1>5. DiskOK'
    BY DEF FilesInv, DiskOK
  <1>6. JobsOK'
    BY <1>1, FreeEntryOK DEF JobsOK, InSave
  <1> QED  BY <1>2, <1>3, <1>4, <1>5, <1>6 DEF FilesInv

\* The heap and the pointers of others change, the processes do not.
LEMMA OthersStep ==
  ASSUME FilesInv, Owned(km', tab, Outside'), others' \cap forgotten = {},
         UNCHANGED <<tab, phase, job, forgotten, disk, starved>>
  PROVE  FilesInv'
  <1>1. FTypes' /\ EntriesOK' /\ DiskOK'
    BY DEF FilesInv, FTypes, EntriesOK, DiskOK
  <1>2. JobsOK'
    BY DEF FilesInv, JobsOK, InSave
  <1> QED  BY <1>1, <1>2 DEF FilesInv

LEMMA OtherMallocStep ==
  ASSUME FilesInv, OtherMalloc
  PROVE  FilesInv'
  <1>1. PICK n \in Requests :
          /\ km' = kmalloc(km, n)
          /\ others' = (others \cup {kmalloc_ptr(km, n)}) \ {NullPtr}
          /\ UNCHANGED <<tab, phase, job, forgotten, disk, starved>>
    BY DEF OtherMalloc
  <1>2. n \in Nat /\ Owned(km, tab, Outside)
    BY FilesAssumption, HeapConstants DEF FilesInv
  <1>3. NullPtr \notin others /\ others \cap forgotten = {}
    BY <1>2, LiveAt DEF Owned, Outside, FilesInv, FTypes
  <1>4. CASE kmalloc_serves(km, n)
    <2> DEFINE p == kmalloc_ptr(km, n)
    <2>1. /\ Owned(kmalloc(km, n), tab, Outside \cup {p})
          /\ p # NullPtr /\ p \notin Outside
      BY <1>2, <1>4, OwnedMalloc
    <2> HIDE DEF p
    <2>2. others' = others \cup {p} /\ Outside' = Outside \cup {p}
      BY <1>1, <1>3, <2>1 DEF p, Outside
    <2>3. Owned(km', tab, Outside') /\ others' \cap forgotten = {}
      BY <1>1, <1>3, <2>1, <2>2 DEF Outside
    <2> QED  BY <1>1, <2>3, OthersStep
  <1>5. CASE ~kmalloc_serves(km, n)
    <2>1. km' = km /\ others' = others
      BY <1>1, <1>3, <1>5, KmallocRefused
    <2>2. Owned(km', tab, Outside')
      BY <1>1, <1>2, <2>1 DEF Outside
    <2> QED  BY <1>1, <1>3, <2>1, <2>2, OthersStep
  <1> QED  BY <1>4, <1>5

LEMMA OtherFreeStep ==
  ASSUME FilesInv, OtherFree
  PROVE  FilesInv'
  <1>1. PICK p \in others :
          /\ km' = kfree(km, p) /\ others' = others \ {p}
          /\ UNCHANGED <<tab, phase, job, forgotten, disk, starved>>
    BY DEF OtherFree
  <1>2. Owned(kfree(km, p), tab, Outside \ {p})
    BY OwnedFree DEF FilesInv, Outside
  <1>3. Owned(km', tab, Outside') /\ others' \cap forgotten = {}
    <2>1. Outside' = Outside \ {p}
      BY <1>1 DEF Outside, FilesInv, FTypes
    <2> QED  BY <1>1, <1>2, <2>1 DEF FilesInv, FTypes
  <1> QED  BY <1>1, <1>3, OthersStep

\* The steps of a process preserve the invariant.
LEMMA ProcessStep ==
  ASSUME FilesInv, NEW q \in Tasks, ProcessNext(q)
  PROVE  FilesInv'
  <1>1. CASE StartTask(q)
    BY <1>1, StartTaskStep
  <1>2. CASE fd_table_dup(q)
    BY <1>2, fd_table_dupStep
  <1>3. CASE ForkDone(q)
    BY <1>3, ForkDoneStep
  <1>4. CASE process_exit(q)
    BY <1>4, process_exitStep
  <1>5. CASE ClosePipe(q)
    BY <1>5, ClosePipeStep
  <1>6. CASE fd_close(q)
    BY <1>6, fd_closeStep
  <1>7. CASE fd_close_save(q)
    BY <1>7, SaveStep
  <1>8. CASE \E c \in Tasks : task_fork(q, c)
    BY <1>8, task_forkStep
  <1>9. CASE \E n \in Names, flags \in OpenFlags : fd_open(q, n, flags)
    BY <1>9, fd_openStep
  <1>10. CASE \E f \in FileFds :
                \/ \E n \in 1 .. MaxCount : fd_read(q, f, n) \/ fd_write(q, f, n)
                \/ \E off \in 0 .. MaxFile : fd_lseek(q, f, off)
    <2>1. PICK f \in FileFds :
                \/ \E n \in 1 .. MaxCount : fd_read(q, f, n) \/ fd_write(q, f, n)
                \/ \E off \in 0 .. MaxFile : fd_lseek(q, f, off)
      BY <1>10
    <2>2. \A n \in 1 .. MaxCount : n \in Nat /\ n \in Nat \ {0}
      BY FilesAssumption
    <2>3. \A o \in 0 .. MaxFile : o \in Nat
      BY FilesAssumption
    <2>4. CASE \E n \in 1 .. MaxCount : fd_read(q, f, n)
      BY <2>2, <2>4, fd_readStep
    <2>5. CASE \E n \in 1 .. MaxCount : fd_write(q, f, n)
      BY <2>2, <2>5, fd_writeStep
    <2>6. CASE \E off \in 0 .. MaxFile : fd_lseek(q, f, off)
      BY <2>3, <2>6, fd_lseekStep
    <2> QED  BY <2>1, <2>4, <2>5, <2>6
  <1> QED
    BY <1>1, <1>2, <1>3, <1>4, <1>5, <1>6, <1>7, <1>8, <1>9, <1>10 DEF ProcessNext

LEMMA FilesInvStep ==
  ASSUME FilesInv, [FilesNext]_fvars
  PROVE  FilesInv'
  <1>1. CASE PowerLoss
    BY <1>1, PowerLossStep
  <1>2. CASE OtherMalloc
    BY <1>2, OtherMallocStep
  <1>3. CASE OtherFree
    BY <1>3, OtherFreeStep
  <1>4. CASE \E q \in Tasks : ProcessNext(q)
    BY <1>4, ProcessStep
  <1>5. CASE UNCHANGED fvars
    <2>1. /\ Owned(km', tab, Outside') /\ others' \cap forgotten = {}
          /\ UNCHANGED <<tab, phase, job, forgotten, disk, starved>>
      BY <1>5 DEF fvars, FilesInv, Outside, FTypes
    <2> QED  BY <2>1, OthersStep
  <1>6. CASE \E q \in Tasks : SaveFails(q) \/ Collect(q)
    BY <1>6, SaveStep, CollectStep
  <1> QED  BY <1>1, <1>2, <1>3, <1>4, <1>5, <1>6 DEF FilesNext

\* The invariant of the heap and the descriptors holds in every reachable state.
THEOREM FilesInvariant == FilesSpec => []FilesInv
  <1>1. FilesInit => FilesInv
    BY FilesInvInit
  <1>2. FilesInv /\ [FilesNext]_fvars => FilesInv'
    BY FilesInvStep
  <1> QED  BY <1>1, <1>2, PTL DEF FilesSpec

-----------------------------------------------------------------------------
(* What the invariant means *)

\* With nothing allocated, the block that begins the pool ends it too: a free
\* block behind it would have been merged.
LEMMA FreeMergedHolds == ASSUME HeapOK(km) PROVE FreeMerged
  <1>1. \A b, c \in FreeBlocks(km) : b.at + b.size # c.at
    BY DEF HeapOK
  <1>2. ASSUME LiveBlocks(km) = {} PROVE km = kmalloc_init
    <2>1. Layout(km.blocks) /\ \A c \in km.blocks : BlockOK(c)
      BY DEF HeapOK, Layout
    <2>2. \A c \in km.blocks : c.req = 0 /\ c \in FreeBlocks(km)
      BY <1>2 DEF LiveBlocks, FreeBlocks
    <2>3. 0 \in Pool
      BY HeapConstants DEF Pool
    <2>4. PICK b \in km.blocks : InBlock(0, b)
      BY <2>1, <2>3 DEF Layout
    <2>5. b.at = 0 /\ BlockOK(b)
      BY <2>1, <2>4 DEF BlockOK, InBlock
    <2>6. b.size = PoolUnits
      <3>1. SUFFICES ASSUME b.size < PoolUnits PROVE FALSE
        BY <2>5, HeapConstants DEF BlockOK
      <3>2. b.size \in Pool
        BY <2>5, <3>1, HeapConstants DEF BlockOK, Pool
      <3>3. PICK c \in km.blocks : InBlock(b.size, c)
        BY <2>1, <3>2 DEF Layout
      <3>4. BlockOK(c) /\ c # b
        BY <2>1, <2>5, <3>3 DEF BlockOK, InBlock
      <3>5. Behind(b, c) \/ Behind(c, b)
        BY <2>1, <3>4 DEF Layout
      <3>6. b.at + b.size = c.at
        BY <2>5, <3>3, <3>4, <3>5 DEF BlockOK, Behind, InBlock
      <3> QED  BY <1>1, <2>2, <3>6
    <2>7. \A c \in km.blocks : c = b
      <3>1. SUFFICES ASSUME NEW c \in km.blocks, c # b PROVE FALSE
        OBVIOUS
      <3>2. BlockOK(c) /\ (Behind(b, c) \/ Behind(c, b))
        BY <2>1, <3>1 DEF Layout
      <3> QED  BY <2>5, <2>6, <3>2, HeapConstants DEF BlockOK, Behind
    <2>8. b = Block(0, PoolUnits, 0)
      BY <2>2, <2>5, <2>6 DEF BlockOK, Block
    <2>9. km.blocks = {Block(0, PoolUnits, 0)}
      BY <2>7, <2>8
    <2>10. km.used = 0
      BY <1>2, FS_EmptySet DEF HeapOK, LiveUnits
    <2> QED  BY <2>9, <2>10 DEF HeapOK, kmalloc_init
  <1> QED  BY <1>1, <1>2 DEF FreeMerged

\* The blocks tile the pool, the audit finds nothing and the count is right.
LEMMA HeapSoundHolds == ASSUME HeapOK(km) PROVE HeapSound
  <1>1. Layout(km.blocks)
    BY DEF HeapOK
  <1>2. Tiled(km)
    <2>1. ASSUME NEW b \in km.blocks PROVE b.size > 0 /\ Units(b) \subseteq Pool
      <3>1. BlockOK(b)
        BY <1>1 DEF Layout
      <3> QED  BY <3>1, UnitsOf DEF BlockOK
    <2>2. ASSUME NEW b \in km.blocks, NEW c \in km.blocks, b # c
          PROVE  Units(b) \cap Units(c) = {}
      <3>1. BlockOK(b) /\ BlockOK(c) /\ (Behind(b, c) \/ Behind(c, b))
        BY <1>1, <2>2 DEF Layout
      <3> QED  BY <3>1 DEF BlockOK, Behind, Units
    <2>3. ASSUME NEW u \in Pool PROVE \E b \in km.blocks : u \in Units(b)
      <3>1. PICK b \in km.blocks : InBlock(u, b)
        BY <1>1 DEF Layout
      <3>2. BlockOK(b) /\ u \in Int
        BY <1>1, HeapConstants DEF Layout, Pool
      <3> QED  BY <3>1, <3>2, UnitsOf
    <2> QED  BY <2>1, <2>2, <2>3 DEF Tiled
  <1>3. kmalloc_audit(km) = {}
    BY DEF HeapOK, kmalloc_audit
  <1>4. km.used = Cardinality(UNION {Units(b) : b \in LiveBlocks(km)})
    BY DEF HeapOK, LiveUnits
  <1> QED  BY <1>2, <1>3, <1>4, FreeMergedHolds DEF HeapSound

LEMMA BuffersOwnedHolds == ASSUME FilesInv PROVE BuffersOwned
  <1>1. Owned(km, tab, Outside) /\ HeapOK(km)
    BY DEF FilesInv, Owned
  <1>2. \A e \in Buffered : /\ e[1] \in Tasks /\ e[2] \in FileFds /\ e = <<e[1], e[2]>>
                            /\ BufferOf(e) = tab[e[1]][e[2]].data /\ BufferOf(e) # NullPtr
    BY DEF Buffered, BufferOf
  <1>3. \A q \in Tasks, f \in FileFds : tab[q][f].data # NullPtr =>
          <<q, f>> \in Buffered /\ BufferOf(<<q, f>>) = tab[q][f].data
    BY DEF Buffered, BufferOf
  <1>4. {b.at : b \in LiveBlocks(km)} = Outside \cup {BufferOf(e) : e \in Buffered}
    <2>1. ASSUME NEW b \in LiveBlocks(km)
          PROVE  b.at \in Outside \cup {BufferOf(e) : e \in Buffered}
      <3>1. b.at # NullPtr
        BY <1>1, LiveAt
      <3>2. CASE \E q \in Tasks, f \in FileFds : tab[q][f].data = b.at
        BY <1>3, <3>1, <3>2
      <3> QED  BY <1>1, <3>2 DEF Owned
    <2>2. ASSUME NEW p \in Outside PROVE \E b \in LiveBlocks(km) : b.at = p
      BY <1>1 DEF Owned
    <2>3. ASSUME NEW e \in Buffered PROVE \E b \in LiveBlocks(km) : b.at = BufferOf(e)
      BY <1>1, <1>2 DEF Owned, HasBlock
    <2> QED  BY <2>1, <2>2, <2>3
  <1>5. \A e \in Buffered : BufferOf(e) \notin Outside
    BY <1>1, <1>2 DEF Owned
  <1>6. \A d, e \in Buffered : BufferOf(d) = BufferOf(e) => d = e
    BY <1>1, <1>2 DEF Owned
  <1>7. ASSUME NEW e \in Buffered
        PROVE  /\ kfree_accepts(km, BufferOf(e))
               /\ Len(tab[e[1]][e[2]].bytes) = tab[e[1]][e[2]].size
               /\ BlockAt(km, BufferOf(e)).req = BytesOf(tab[e[1]][e[2]].size)
    <2>1. PICK b \in LiveBlocks(km) :
            b.at = BufferOf(e) /\ b.req = BytesOf(tab[e[1]][e[2]].size)
      BY <1>1, <1>2 DEF Owned, HasBlock
    <2>2. BlockAt(km, BufferOf(e)) = b
      BY <1>1, <2>1, BlockAtIs
    <2>3. ~Corrupt(b)
      BY <1>1 DEF HeapOK
    <2>4. EntryOK(tab[e[1]][e[2]], starved)
      BY <1>2 DEF FilesInv, EntriesOK
    <2> QED  BY <1>2, <2>1, <2>2, <2>3, <2>4 DEF kfree_accepts, EntryOK
  <1>8. others \cap forgotten = {}
    BY DEF FilesInv, FTypes
  <1> QED  BY <1>4, <1>5, <1>6, <1>7, <1>8 DEF BuffersOwned, BufferOf, Outside

LEMMA NothingStaleHolds == ASSUME FilesInv PROVE NothingStale
  <1>1. ASSUME NEW q \in Tasks, NEW f \in FileFds
        PROVE  starved \/ StaleFree(Found(tab[q][f]))
    BY EntryAt, FoundFacts
  <1> QED  BY <1>1 DEF FilesInv, DiskOK, NothingStale

\* The heap never hands out memory twice (kmalloc.c, kmalloc and kfree under
\* every caller in kernel/fd.c and any others).
THEOREM HeapIsSound == FilesSpec => []HeapSound
  <1>1. FilesInv => HeapSound
    BY HeapSoundHolds DEF FilesInv, Owned
  <1> QED  BY <1>1, FilesInvariant, PTL

\* Free neighbours are merged, whatever the order of the calls.
THEOREM HeapIsMerged == FilesSpec => []FreeMerged
  <1>1. FilesInv => FreeMerged
    BY FreeMergedHolds DEF FilesInv, Owned
  <1> QED  BY <1>1, FilesInvariant, PTL

\* Every buffer of a descriptor is an allocated block of its own.
THEOREM EveryBufferOwned == FilesSpec => []BuffersOwned
  <1>1. FilesInv => BuffersOwned
    BY BuffersOwnedHolds
  <1> QED  BY <1>1, FilesInvariant, PTL

\* fd_grow and the other paths never show what the memory held before.
THEOREM NothingStaleShows == FilesSpec => []NothingStale
  <1>1. FilesInv => NothingStale
    BY NothingStaleHolds
  <1> QED  BY <1>1, FilesInvariant, PTL

\* A request that passes the bound is served exactly when the largest free block
\* is long enough: what kmalloc_largest_free reports is what can be had.
LEMMA LargestServes ==
  ASSUME NEW h, HeapOK(h), NEW n \in Nat, n # 0, n <= KM_POOL_SIZE
  PROVE  kmalloc_serves(h, n) <=> Need(n) <= kmalloc_largest_free(h)
  <1>1. Need(n) \in Nat \ {0}
    BY NeedFacts
  <1>2. \A b \in FreeBlocks(h) : b.size \in Nat /\ b.size <= PoolUnits
    BY HeapConstants DEF HeapOK, Layout, BlockOK, FreeBlocks
  <1>3. CASE FreeBlocks(h) = {}
    BY <1>1, <1>3 DEF kmalloc_serves, Fitting, kmalloc_largest_free
  <1>4. CASE FreeBlocks(h) # {}
    <2> DEFINE S == {PoolUnits - b.size : b \in FreeBlocks(h)}
               m == CHOOSE b \in FreeBlocks(h) : \A c \in FreeBlocks(h) : c.size <= b.size
    <2>1. S \in SUBSET Nat /\ S # {}
      BY <1>2, <1>4, HeapConstants
    <2>2. \E x \in S : \A y \in S : x <= y
      <3> HIDE DEF S
      <3> QED  BY <2>1, LeastExists
    <2>3. PICK b \in FreeBlocks(h) : \A c \in FreeBlocks(h) : PoolUnits - b.size <= PoolUnits - c.size
      BY <2>2
    <2>4. \A c \in FreeBlocks(h) : c.size <= b.size
      BY <1>2, <2>3, HeapConstants
    <2>5. m \in FreeBlocks(h) /\ \A c \in FreeBlocks(h) : c.size <= m.size
      BY <2>4
    <2>6. kmalloc_largest_free(h) = m.size
      BY <1>4 DEF kmalloc_largest_free
    <2> HIDE DEF m, S
    <2>7. kmalloc_serves(h, n) <=> \E c \in FreeBlocks(h) : c.size >= Need(n)
      BY DEF kmalloc_serves, Fitting
    <2>8. ASSUME NEW c \in FreeBlocks(h), c.size >= Need(n) PROVE Need(n) <= m.size
      <3>1. c.size <= m.size /\ c.size \in Nat /\ m.size \in Nat
        BY <1>2, <2>5
      <3> QED  BY <1>1, <2>8, <3>1
    <2>9. Need(n) <= m.size => \E c \in FreeBlocks(h) : c.size >= Need(n)
      BY <1>1, <1>2, <2>5
    <2> QED  BY <2>6, <2>7, <2>8, <2>9
  <1> QED  BY <1>3, <1>4

\* kmalloc_largest_free tells in every reachable state what kmalloc can serve.
THEOREM LargestIsServed ==
  FilesSpec => [](\A n \in 1 .. KM_POOL_SIZE :
                    kmalloc_serves(km, n) <=> Need(n) <= kmalloc_largest_free(km))
  <1> DEFINE P == \A n \in 1 .. KM_POOL_SIZE :
                    kmalloc_serves(km, n) <=> Need(n) <= kmalloc_largest_free(km)
  <1>1. FilesInv => P
    <2>1. SUFFICES ASSUME FilesInv, NEW n \in 1 .. KM_POOL_SIZE
                   PROVE  kmalloc_serves(km, n) <=> Need(n) <= kmalloc_largest_free(km)
      OBVIOUS
    <2>2. n \in Nat /\ n # 0 /\ n <= KM_POOL_SIZE
      BY HeapConstants
    <2>3. HeapOK(km)
      BY <2>1 DEF FilesInv, Owned
    <2> QED  BY <2>2, <2>3, LargestServes
  <1> QED  BY <1>1, FilesInvariant, PTL

-----------------------------------------------------------------------------
(* No file vanishes *)

\* r goes on saving what it was saving.
KeepsSaving(r) ==
  InSave(r) => InSave(r)' /\ tab'[r][job'[r].fd].name = tab[r][job[r].fd].name

FileKept(n) ==
  disk[n] # <<>> \/ BeingSaved(n)
    => \/ disk'[n] # <<>> \/ BeingSaved(n)'
       \/ BeingSaved(n) /\ cut'

\* A step that leaves the disk alone and interrupts no save loses nothing.
LEMMA KeptQuietly ==
  ASSUME \A r \in Tasks : KeepsSaving(r), disk' = disk, NEW n \in Names
  PROVE  FileKept(n)
  BY DEF KeepsSaving, FileKept, BeingSaved, Saved, InSave

\* r is not the process that acts: its save goes on.
LEMMA OtherKeepsSaving ==
  ASSUME FilesInv, NEW r \in Tasks,
         InSave(r) => /\ phase'[r] = phase[r] /\ job'[r] = job[r]
                      /\ \A g \in FileFds : tab'[r][g] = tab[r][g]
  PROVE  KeepsSaving(r)
  BY DEF FilesInv, JobsOK, InSave, KeepsSaving

\* The steps of a process that is not saving.
LEMMA QuietStep ==
  ASSUME FilesInv, NEW q \in Tasks, ~InSave(q), disk' = disk,
         \A r \in Tasks \ {q} : InSave(r) =>
           /\ phase'[r] = phase[r] /\ job'[r] = job[r]
           /\ \A g \in FileFds : tab'[r][g] = tab[r][g],
         NEW n \in Names
  PROVE  FileKept(n)
  <1>1. \A r \in Tasks : KeepsSaving(r)
    <2>1. KeepsSaving(q)
      BY DEF KeepsSaving
    <2>2. ASSUME NEW r \in Tasks, r # q PROVE KeepsSaving(r)
      BY <2>2, OtherKeepsSaving
    <2> QED  BY <2>1, <2>2
  <1> QED  BY <1>1, KeptQuietly

\* fd_open, fd_read, fd_write and fd_lseek are calls of a process, and what they
\* change of the tables is its own.
LEMMA CallsKeep ==
  ASSUME FilesInv, NEW q \in Tasks, phase[q] = "user", disk' = disk,
         phase' = phase, job' = job, NEW f,
         tab' = tab \/ (\E x : tab' = [tab EXCEPT ![q][f] = x])
           \/ (\E o : tab' = [tab EXCEPT ![q][f].offset = o]),
         NEW n \in Names
  PROVE  FileKept(n)
  <1>1. ~InSave(q)
    BY DEF InSave
  <1>2. \A r \in Tasks \ {q} : \A g \in FileFds : tab'[r][g] = tab[r][g]
    BY DEF FilesInv, FTypes
  <1> QED  BY <1>1, <1>2, QuietStep

LEMMA fd_closeKeeps ==
  ASSUME FilesInv, NEW q \in Tasks, fd_close(q), NEW n \in Names
  PROVE  FileKept(n)
  <1>1. PICK f \in FileFds : /\ phase[q] \in {"user", "exiting", "exposed"}
                             /\ CloseClean(q, f) \/ DeleteOld(q, f)
    BY DEF fd_close, OpenFiles
  <1>2. ~InSave(q)
    BY <1>1 DEF InSave
  <1>3. CASE CloseClean(q, f)
    <2>1. /\ disk' = disk /\ phase' = phase /\ job' = job
          /\ tab' = [tab EXCEPT ![q][f] = FreeEntry]
      BY <1>3 DEF CloseClean
    <2>2. \A r \in Tasks \ {q} : \A g \in FileFds : tab'[r][g] = tab[r][g]
      BY <2>1 DEF FilesInv, FTypes
    <2> QED  BY <1>2, <2>1, <2>2, QuietStep
  <1>4. CASE DeleteOld(q, f)
    <2> DEFINE m == tab[q][f].name
    <2>1. /\ disk' = disk \/ disk' = [disk EXCEPT ![m] = <<>>]
          /\ phase' = [phase EXCEPT ![q] = SavePhase(@)]
          /\ job' = [job EXCEPT ![q].fd = f] /\ tab' = tab
      BY <1>4 DEF DeleteOld
    <2>2. /\ phase'[q] \in {"save", "exitsave", "exposedsave"} /\ job'[q].fd = f
          /\ \A r \in Tasks : r # q => phase'[r] = phase[r] /\ job'[r] = job[r]
      <3>1. SavePhase(phase[q]) \in {"save", "exitsave", "exposedsave"}
        BY DEF SavePhase
      <3> QED  BY <2>1, <3>1 DEF FilesInv, FTypes
    <2>3. CASE n = m
      BY <2>1, <2>2, <2>3 DEF FileKept, BeingSaved, Saved, InSave
    <2>4. CASE n # m
      <3>1. disk'[n] = disk[n]
        BY <2>1, <2>4 DEF FilesInv, FTypes
      <3>2. BeingSaved(n) => BeingSaved(n)'
        <4>1. SUFFICES ASSUME NEW r \in Tasks, phase[r] \in {"save", "exitsave", "exposedsave"},
                              tab[r][job[r].fd].name = n
                       PROVE  BeingSaved(n)'
          BY DEF BeingSaved, Saved, InSave
        <4>2. r # q
          BY <1>1, <4>1
        <4> QED  BY <2>1, <2>2, <4>1, <4>2 DEF BeingSaved, Saved, InSave
      <3> QED  BY <3>1, <3>2 DEF FileKept
    <2> QED  BY <2>3, <2>4
  <1> QED  BY <1>1, <1>3, <1>4

\* The entry that is saved was written, so it is not empty.
LEMMA SaveKeeps ==
  ASSUME FilesInv, NEW q \in Tasks, fd_close_save(q) \/ SaveFails(q), NEW n \in Names
  PROVE  FileKept(n)
  <1> DEFINE f == job[q].fd
             e == tab[q][f]
             m == e.name
  <1>1. /\ InSave(q)
        /\ disk' = [disk EXCEPT ![m] = Found(e)]
           \/ (disk' \in {disk, [disk EXCEPT ![m] = <<>>]} /\ cut')
        /\ tab' = [tab EXCEPT ![q][f] = FreeEntry]
        /\ phase' = [phase EXCEPT ![q] = SavedPhase(@)]
        /\ job' = [job EXCEPT ![q] = NoJob]
    BY DEF fd_close_save, SaveFails, EndSave, Saved, SavedAs, InSave
  <1>2. f \in FileFds /\ e.dirty
    BY <1>1 DEF FilesInv, JobsOK
  <1>3. e \in Entries /\ EntryOK(e, starved) /\ starved \in BOOLEAN
    BY <1>2, EntryAt
  <1>4. ASSUME n # m PROVE disk'[n] = disk[n] /\ (BeingSaved(n) => BeingSaved(n)')
    <2>1. disk'[n] = disk[n]
      BY <1>1, <1>4 DEF FilesInv, FTypes
    <2>2. BeingSaved(n) => BeingSaved(n)'
      <3>1. SUFFICES ASSUME NEW r \in Tasks, phase[r] \in {"save", "exitsave", "exposedsave"},
                            tab[r][job[r].fd].name = n
                     PROVE  BeingSaved(n)'
        BY DEF BeingSaved, Saved, InSave
      <3>2. r # q
        BY <1>4, <3>1
      <3>3. phase'[r] = phase[r] /\ job'[r] = job[r] /\ tab'[r] = tab[r]
        BY <1>1, <3>2 DEF FilesInv, FTypes
      <3> QED  BY <3>1, <3>3 DEF BeingSaved, Saved, InSave
    <2> QED  BY <2>1, <2>2
  <1>5. CASE n # m
    BY <1>4, <1>5 DEF FileKept
  <1>6. CASE n = m /\ cut'
    BY <1>1, <1>6 DEF FileKept, BeingSaved, Saved, InSave
  <1>7. CASE n = m /\ disk' = [disk EXCEPT ![m] = Found(e)]
    <2> HIDE DEF e
    <2>1. Found(e) # <<>>
      <3>1. Len(Found(e)) = e.size /\ e.size > 0 /\ e.size \in Nat
        BY <1>2, <1>3, FoundFacts DEF EntryOK, Entries
      <3>2. Len(<<>>) = 0
        OBVIOUS
      <3> QED  BY <3>1, <3>2
    <2> QED  BY <1>7, <2>1 DEF FileKept, FilesInv, FTypes
  <1> QED  BY <1>1, <1>5, <1>6, <1>7

LEMMA PowerLossKeeps ==
  ASSUME FilesInv, PowerLoss, NEW n \in Names
  PROVE  FileKept(n)
  BY DEF PowerLoss, FileKept, BeingSaved

\* The collection of a process ends its save, and no other.
LEMMA CollectKeeps ==
  ASSUME FilesInv, NEW q \in Tasks, Collect(q), NEW n \in Names
  PROVE  FileKept(n)
  <1>1. CASE phase[q] = "exposedsave"
    <2>1. cut' = TRUE /\ disk' = disk
      BY <1>1 DEF Collect
    <2> QED  BY <2>1 DEF FileKept
  <1>2. CASE phase[q] # "exposedsave"
    <2>1. ~InSave(q) /\ disk' = disk
      BY <1>2 DEF Collect, InSave
    <2>2. \A r \in Tasks \ {q} : /\ phase'[r] = phase[r] /\ job'[r] = job[r]
                                 /\ \A g \in FileFds : tab'[r][g] = tab[r][g]
      BY DEF Collect, FilesInv, FTypes
    <2> QED  BY <2>1, <2>2, QuietStep
  <1> QED  BY <1>1, <1>2

LEMMA ProcessKeeps ==
  ASSUME FilesInv, NEW q \in Tasks, NEW n \in Names, ProcessNext(q)
  PROVE  FileKept(n)
  <1>1. /\ phase \in [Tasks -> Phases]
        /\ job \in [Tasks -> [fd : Nat, child : Tasks \cup {0}]]
        /\ tab \in [Tasks -> [FileFds -> Entries]]
    BY DEF FilesInv, FTypes
  <1>2. CASE StartTask(q)
    BY <1>1, <1>2, QuietStep DEF StartTask, fd_table_init, InSave
  <1>3. CASE fd_table_dup(q)
    <2> DEFINE c == job[q].child
    <2>1. /\ phase[q] = "fork" /\ disk' = disk /\ phase' = phase
          /\ job' = [job EXCEPT ![q].fd = job[q].fd + 1]
          /\ tab' = [tab EXCEPT ![c][job[q].fd] = CopyOf(tab[q][job[q].fd])]
      BY <1>3 DEF fd_table_dup
    <2>2. c \in Tasks /\ phase[c] = "none"
      BY <2>1 DEF FilesInv, JobsOK
    <2> HIDE DEF c
    <2>3. ASSUME NEW r \in Tasks \ {q}, InSave(r)
          PROVE  /\ phase'[r] = phase[r] /\ job'[r] = job[r]
                 /\ \A g \in FileFds : tab'[r][g] = tab[r][g]
      <3>1. r # c
        BY <2>2, <2>3 DEF InSave
      <3> QED  BY <1>1, <2>1, <2>3, <3>1
    <2> QED  BY <2>1, <2>3, QuietStep DEF InSave
  <1>4. CASE ForkDone(q)
    <2>1. /\ phase[q] = "fork" /\ disk' = disk /\ tab' = tab
          /\ phase' = [phase EXCEPT ![q] = "user", ![job[q].child] = "user"]
          /\ job' = [job EXCEPT ![q] = NoJob]
      BY <1>4 DEF ForkDone
    <2>2. job[q].child \in Tasks /\ phase[job[q].child] = "none"
      BY <2>1 DEF FilesInv, JobsOK
    <2>3. ASSUME NEW r \in Tasks \ {q}, InSave(r)
          PROVE  phase'[r] = phase[r] /\ job'[r] = job[r]
      <3>1. r # job[q].child
        BY <2>2, <2>3 DEF InSave
      <3> QED  BY <1>1, <2>1, <2>3, <3>1
    <2> QED  BY <2>1, <2>3, QuietStep DEF InSave
  <1>5. CASE process_exit(q) \/ ClosePipe(q)
    BY <1>1, <1>5, QuietStep DEF process_exit, ClosePipe, InUser, InSave
  <1>6. CASE fd_close(q)
    BY <1>6, fd_closeKeeps
  <1>7. CASE fd_close_save(q)
    BY <1>7, SaveKeeps
  <1>8. CASE \E c \in Tasks : task_fork(q, c)
    <2>1. PICK c \in Tasks : task_fork(q, c)
      BY <1>8
    <2>2. /\ phase[q] = "user" /\ phase[c] = "none" /\ disk' = disk
          /\ phase' = [phase EXCEPT ![q] = "fork"]
          /\ job' = [job EXCEPT ![q] = [fd |-> 1, child |-> c]]
          /\ tab' = [tab EXCEPT ![c] = NoFds]
      BY <2>1 DEF task_fork, fd_table_init, InUser
    <2>3. ASSUME NEW r \in Tasks \ {q}, InSave(r)
          PROVE  phase'[r] = phase[r] /\ job'[r] = job[r] /\ tab'[r] = tab[r]
      <3>1. r # c
        BY <2>2, <2>3 DEF InSave
      <3> QED  BY <1>1, <2>2, <2>3, <3>1
    <2> QED  BY <2>2, <2>3, QuietStep DEF InSave
  <1>9. CASE \E m \in Names, flags \in OpenFlags : fd_open(q, m, flags)
    <2>1. PICK m \in Names, flags \in OpenFlags : fd_open(q, m, flags)
      BY <1>9
    <2> DEFINE f == FirstOf(FileFds \ OpenFiles(q))
    <2>2. /\ phase[q] = "user" /\ disk' = disk /\ phase' = phase /\ job' = job
          /\ tab' = tab \/ (\E x : tab' = [tab EXCEPT ![q][f] = x])
      BY <2>1 DEF fd_open, InUser
    <2> QED  BY <2>2, CallsKeep
  <1>10. CASE \E f \in FileFds :
                \/ \E k \in 1 .. MaxCount : fd_read(q, f, k) \/ fd_write(q, f, k)
                \/ \E off \in 0 .. MaxFile : fd_lseek(q, f, off)
    <2>1. PICK f \in FileFds :
                \/ \E k \in 1 .. MaxCount : fd_read(q, f, k) \/ fd_write(q, f, k)
                \/ \E off \in 0 .. MaxFile : fd_lseek(q, f, off)
      BY <1>10
    <2>2. /\ phase[q] = "user" /\ disk' = disk /\ phase' = phase /\ job' = job
          /\ (\E x : tab' = [tab EXCEPT ![q][f] = x])
             \/ (\E o : tab' = [tab EXCEPT ![q][f].offset = o])
      BY <2>1 DEF fd_read, fd_write, fd_lseek, InUser
    <2> QED  BY <2>2, CallsKeep
  <1> QED
    BY <1>2, <1>3, <1>4, <1>5, <1>6, <1>7, <1>8, <1>9, <1>10 DEF ProcessNext

LEMMA StepKeeps ==
  ASSUME FilesInv, [FilesNext]_fvars, NEW n \in Names
  PROVE  FileKept(n)
  <1>1. CASE PowerLoss
    BY <1>1, PowerLossKeeps
  <1>2. CASE OtherMalloc \/ OtherFree \/ UNCHANGED fvars
    <2>1. disk' = disk /\ phase' = phase /\ job' = job /\ tab' = tab
      BY <1>2 DEF OtherMalloc, OtherFree, fvars
    <2>2. \A r \in Tasks : KeepsSaving(r)
      BY <2>1, OtherKeepsSaving
    <2> QED  BY <2>1, <2>2, KeptQuietly
  <1>3. CASE \E q \in Tasks : ProcessNext(q)
    BY <1>3, ProcessKeeps
  <1>4. CASE \E q \in Tasks : SaveFails(q) \/ Collect(q)
    BY <1>4, SaveKeeps, CollectKeeps
  <1> QED  BY <1>1, <1>2, <1>3, <1>4 DEF FilesNext

\* A file is on the disk or being saved, until its own save is cut short
\* (kernel/fd.c, fd_close deletes before it creates).
THEOREM FilesAreKept == FilesSpec => FilesKept
  <1>1. FilesInv /\ [FilesNext]_fvars =>
          [\A n \in Names :
             disk[n] # <<>> \/ BeingSaved(n)
               => \/ disk'[n] # <<>> \/ BeingSaved(n)'
                  \/ BeingSaved(n) /\ cut']_fvars
    BY StepKeeps DEF FileKept
  <1> QED  BY <1>1, FilesInvariant, PTL DEF FilesSpec, FilesKept
=============================================================================
