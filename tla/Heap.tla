-------------------------------- MODULE Heap --------------------------------
(***************************************************************************)
(* The kernel heap (kernel/kmalloc.c): a fixed pool cut into blocks, first *)
(* fit over a list of the free ones, a canary behind every request.        *)
(*                                                                         *)
(* Every size the allocator computes is a multiple of 16, so addresses and *)
(* block sizes count units of 16 bytes; requests count bytes.  The list of *)
(* free blocks is in address order (a split leaves the rest where the      *)
(* block was, kfree inserts by address), so its members determine it.  The *)
(* contents of the canaries are left out: a caller stays in its buffer.    *)
(* Every call runs with interrupts off.                                    *)
(***************************************************************************)
EXTENDS Integers, FiniteSets

CONSTANTS
  PoolUnits,   \* KM_POOL_SIZE / KM_ALIGN
  Word         \* a uint32_t is a number modulo Word: 2^32

KM_ALIGN == 16
KM_HDR == 16
KM_TAIL == 4
KM_MIN_SPLIT == 32
KM_POOL_SIZE == PoolUnits * KM_ALIGN

\* The pool with a header, a canary and the rounding fits into a word.
ASSUME HeapAssumption ==
  /\ PoolUnits \in Nat \ {0} /\ Word \in Nat
  /\ KM_POOL_SIZE + KM_HDR + KM_TAIL + KM_ALIGN <= Word

VARIABLE km    \* [blocks: the blocks of the pool, used: km_used_bytes in units]

\* A block: where it is, how long it is, and the bytes that were requested; a
\* block with no request is free.
Block(a, s, r) == [at |-> a, size |-> s, req |-> r]

FreeBlocks(h) == {b \in h.blocks : b.req = 0}

LiveBlocks(h) == {b \in h.blocks : b.req # 0}

Units(b) == b.at .. b.at + b.size - 1

NullPtr == -1

kmalloc_init == [blocks |-> {Block(0, PoolUnits, 0)}, used |-> 0]

round_up(v, a) == LET w == (v + a - 1) % Word IN w - (w % a)

\* The units that a request of n bytes takes, in 32 bits.
Need(n) == round_up((n + KM_HDR + KM_TAIL) % Word, KM_ALIGN) \div KM_ALIGN

\* The free blocks that are long enough.
Fitting(h, n) == {b \in FreeBlocks(h) : b.size >= Need(n)}

\* Faulty variant: the bound is not checked.
kmalloc_servesAny(h, n) == n # 0 /\ Fitting(h, n) # {}

\* kmalloc does not return NULL: the bound is checked before the addition.
kmalloc_serves(h, n) == n # 0 /\ n <= KM_POOL_SIZE /\ Fitting(h, n) # {}

\* First fit.
FirstFitting(h, n) == CHOOSE b \in Fitting(h, n) : \A c \in Fitting(h, n) : b.at <= c.at

\* The pointer that kmalloc returns.
kmalloc_ptr(h, n) == IF kmalloc_serves(h, n) THEN FirstFitting(h, n).at ELSE NullPtr

\* The blocks that take the place of b: a rest of 32 bytes or more is split off.
Split(b, n) ==
  IF (b.size - Need(n)) * KM_ALIGN >= KM_MIN_SPLIT
  THEN {Block(b.at, Need(n), n), Block(b.at + Need(n), b.size - Need(n), 0)}
  ELSE {Block(b.at, b.size, n)}

\* kmalloc: the heap after the call.
kmalloc(h, n) ==
  IF kmalloc_serves(h, n)
  THEN LET b == FirstFitting(h, n)
           s == Split(b, n)
       IN [blocks |-> (h.blocks \ {b}) \cup s,
           used |-> h.used + (CHOOSE c \in s : c.req # 0).size]
  ELSE h

\* The block that a pointer of kmalloc stands for.
BlockAt(h, p) == CHOOSE b \in LiveBlocks(h) : b.at = p

\* The free blocks that end where b begins and that begin where b ends.
Before(h, b) == {x \in FreeBlocks(h) : x.at + x.size = b.at}
After(h, b) == {x \in FreeBlocks(h) : b.at + b.size = x.at}

\* A block that is freed and the free blocks that it is merged with.
Joined(h, b) == {b} \cup Before(h, b) \cup After(h, b)

\* kfree of a pointer that kmalloc returned: the heap after the call.
kfree(h, p) ==
  LET b == BlockAt(h, p)
      J == Joined(h, b)
      first == CHOOSE x \in J : \A y \in J : x.at <= y.at
      last == CHOOSE x \in J : \A y \in J : y.at <= x.at
  IN [blocks |-> (h.blocks \ J)
                   \cup {Block(first.at, last.at + last.size - first.at, 0)},
      used |-> h.used - b.size]

\* The checks of kfree that need no canary: those of a block that stops it.
Corrupt(b) ==
  \/ b.size * KM_ALIGN < KM_HDR \/ b.at + b.size > PoolUnits
  \/ b.req > KM_POOL_SIZE
  \/ KM_HDR + round_up(b.req, 4) + KM_TAIL > b.size * KM_ALIGN

\* kfree does not panic: p is a pointer that is out, to a sound block.
kfree_accepts(h, p) == \E b \in LiveBlocks(h) : b.at = p /\ ~Corrupt(b)

\* The allocated blocks that kmalloc_audit counts.
kmalloc_audit(h) == {b \in LiveBlocks(h) : Corrupt(b)}

kmalloc_largest_free(h) ==
  IF FreeBlocks(h) = {} THEN 0
  ELSE (CHOOSE b \in FreeBlocks(h) : \A c \in FreeBlocks(h) : c.size <= b.size).size

-----------------------------------------------------------------------------
(* Properties *)

Pool == 0 .. PoolUnits - 1

\* The blocks lie in the pool without overlap and without a gap: the walk of
\* kmalloc_audit from block to block visits them all and ends at the pool's end.
Tiled(h) ==
  /\ \A b \in h.blocks : b.size > 0 /\ Units(b) \subseteq Pool
  /\ \A b, c \in h.blocks : b # c => Units(b) \cap Units(c) = {}
  /\ \A u \in Pool : \E b \in h.blocks : u \in Units(b)

\* No two free blocks are next to each other, so that the largest request the
\* pool can serve does not shrink with time: with nothing allocated the pool is
\* one block again.
FreeMerged ==
  /\ \A b, c \in FreeBlocks(km) : b.at + b.size # c.at
  /\ LiveBlocks(km) = {} => km = kmalloc_init

\* kmalloc never hands out memory twice nor a block shorter than what was asked
\* for, whatever the request and the order of calls: the audit finds nothing,
\* km_used_bytes is what the allocated blocks take, and the pool does not fall
\* to pieces.
HeapSound ==
  /\ Tiled(km) /\ kmalloc_audit(km) = {}
  /\ km.used = Cardinality(UNION {Units(b) : b \in LiveBlocks(km)})
  /\ FreeMerged
=============================================================================
