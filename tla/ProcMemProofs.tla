--------------------------- MODULE ProcMemProofs ---------------------------
(***************************************************************************)
(* The memory of processes, proved for every pool, every firmware map, any *)
(* number of slots and every set of images whose segments share no page.   *)
(*                                                                         *)
(* Every action has one of four effects on the ledger of pages: it grants  *)
(* free pages to one owner, releases pages of one owner, hands a complete  *)
(* account over, or keeps the ledger.  Each effect preserves the ledger    *)
(* and is a step of PageOwnership.                                         *)
(***************************************************************************)
EXTENDS ProcMem, FiniteSetTheorems, TLAPS

-----------------------------------------------------------------------------
(* The calls of the page allocator: an allocation takes exactly n pages    *)
(* that were free, a release gives back exactly the pages it names, and    *)
(* the counter follows.                                                    *)

\* A run of n pages is a finite set of n pages.
LEMMA RunFacts ==
  ASSUME NEW f \in Int, NEW n \in Nat
  PROVE  /\ IsFiniteSet(Run(f, n)) /\ Cardinality(Run(f, n)) = n
         /\ Run(f, n) \subseteq Int
         /\ \A p \in Int : p \in Run(f, n) <=> f <= p /\ p < f + n
  BY FS_Interval, f + n - 1 \in Int DEF Run

\* The pool is finite, and so is the set of allocated pages.
LEMMA PoolFinite ==
  ASSUME NEW S \in SUBSET Pool
  PROVE  IsFiniteSet(S) /\ Cardinality(S) \in Nat
  <1>1. IsFiniteSet(Pool)
    BY PmmAssumption, FS_Interval, PoolPages - 1 \in Int DEF Pool
  <1> QED  BY <1>1, FS_Subset, FS_CardinalityType

\* Every non-empty set of pages has a lowest page.
LEMMA LowestPage ==
  ASSUME NEW S \in SUBSET Pool, S # {}
  PROVE  \E f \in S : \A g \in S : f <= g
  <1>1. S \subseteq Nat
    BY PmmAssumption DEF Pool
  <1>2. IsWellFoundedOn({ss \in Nat \X Nat : ss[1] < ss[2]}, Nat)
    BY NatLessThanWellFounded DEF OpToRel
  <1>3. PICK f \in S : \A g \in S :
                         ~(<<g, f>> \in {ss \in Nat \X Nat : ss[1] < ss[2]})
    BY <1>1, <1>2, WFMin, Zenon
  <1>4. ASSUME NEW g \in S PROVE f <= g
    <2>1. ~(g < f)
      BY <1>1, <1>3
    <2> QED  BY <1>1, <2>1
  <1> QED  BY <1>4

\* First fit finds n free pages of the pool whenever there are any: the scan of
\* pmm_alloc_pages never returns a page that is in use.
LEMMA FirstFitFits ==
  ASSUME NEW n \in Nat, CanAlloc(n)
  PROVE  FirstFit(n) \in Pool /\ FitsAt(FirstFit(n), n)
  <1> DEFINE S == {f \in Pool : FitsAt(f, n)}
  <1>1. \E f \in S : \A g \in S : f <= g
    BY LowestPage DEF CanAlloc
  <1>2. \E f \in Pool : FitsAt(f, n) /\ \A g \in Pool : FitsAt(g, n) => f <= g
    BY <1>1
  <1> QED  BY <1>2 DEF FirstFit

\* An allocation either hands out n pages that were free, and counts them, or
\* changes nothing.
THEOREM AllocTakesFreePages ==
  ASSUME NEW n \in Nat \ {0}, NEW r, AllocPages(n, r)
  PROVE  \/ /\ r \in Pool /\ r # NoPage
            /\ Run(r, n) \subseteq Pool \ bitmap
            /\ bitmap' = bitmap \cup Run(r, n)
            /\ g_used' = g_used + Cardinality(Run(r, n))
         \/ r = NoPage /\ bitmap' = bitmap /\ g_used' = g_used
  <1>1. CASE CanAlloc(n)
    <2>1. r \in Pool /\ FitsAt(r, n)
      BY <1>1, FirstFitFits DEF AllocPages
    <2>2. r \in Nat
      BY <2>1, PmmAssumption DEF Pool
    <2>3. Cardinality(Run(r, n)) = n
      BY <2>2, RunFacts
    <2> QED  BY <1>1, <2>1, <2>2, <2>3 DEF AllocPages, FitsAt, NoPage
  <1>2. CASE ~CanAlloc(n)
    BY <1>2 DEF AllocPages
  <1> QED  BY <1>1, <1>2

\* Giving back a run that is allocated frees exactly its pages and counts them.
THEOREM FreeReturnsPages ==
  ASSUME NEW n \in Nat \ {0}, NEW f \in Int, FreePages(f, n),
         Run(f, n) \subseteq bitmap
  PROVE  /\ bitmap' = bitmap \ Run(f, n)
         /\ g_used' = g_used - Cardinality(Run(f, n))
  BY RunFacts DEF FreePages

-----------------------------------------------------------------------------
(* The ledger *)

Granted(o, R) ==
  /\ R \subseteq Pool \ bitmap
  /\ bitmap' = bitmap \cup R
  /\ g_used' = g_used + Cardinality(R)
  /\ Held' = [Held EXCEPT ![o] = @ \cup R]

Released(o, R) ==
  /\ R \subseteq Held[o]
  /\ bitmap' = bitmap \ R
  /\ g_used' = g_used - Cardinality(R)
  /\ Held' = [Held EXCEPT ![o] = @ \ R]

Handed(o, t) ==
  /\ o # t /\ Held[t] = {}
  /\ UNCHANGED <<bitmap, g_used>>
  /\ Held' = [Held EXCEPT ![t] = Held[o], ![o] = {}]

Kept == UNCHANGED <<bitmap, g_used, Held>>

Effect ==
  \/ \E o \in Owners, R \in SUBSET Pool : Granted(o, R) \/ Released(o, R)
  \/ \E o, t \in Owners : Handed(o, t)
  \/ Kept

\* The firmware pages are pages of the pool.
LEMMA ReservedInPool == Reserved \in SUBSET Pool
  BY DEF Reserved

\* Free pages granted to one owner: the ledger stays balanced.
LEMMA LedgerGrows ==
  ASSUME NEW B \in SUBSET Pool, NEW U \in Int, NEW f \in [Owners -> SUBSET Pool],
         Ledger(B, U, f),
         NEW o \in Owners, NEW R \in SUBSET (Pool \ B)
  PROVE  Ledger(B \cup R, U + Cardinality(R), [f EXCEPT ![o] = @ \cup R])
  <1> DEFINE h == [f EXCEPT ![o] = @ \cup R]
  <1>1. UNION {h[u] : u \in Owners} = (UNION {f[u] : u \in Owners}) \cup R
    <2>1. ASSUME NEW p, NEW u \in Owners, p \in h[u]
          PROVE  p \in (UNION {f[w] : w \in Owners}) \cup R
      BY <2>1
    <2>2. ASSUME NEW p, NEW u \in Owners, p \in f[u]
          PROVE  p \in UNION {h[w] : w \in Owners}
      BY <2>2
    <2>3. R \subseteq h[o]
      OBVIOUS
    <2> QED  BY <2>1, <2>2, <2>3
  <1>2. B \cup R = Reserved \cup UNION {h[u] : u \in Owners}
    BY <1>1 DEF Ledger
  <1>3. \A u \in Owners : h[u] \cap Reserved = {}
    BY DEF Ledger
  <1>4. \A u \in Owners : f[u] \subseteq B
    BY DEF Ledger
  <1>5. \A u, w \in Owners : u # w => h[u] \cap h[w] = {}
    <2> SUFFICES ASSUME NEW u \in Owners, NEW w \in Owners, u # w
                 PROVE  h[u] \cap h[w] = {}
      OBVIOUS
    <2>1. f[u] \cap f[w] = {} /\ R \cap f[u] = {} /\ R \cap f[w] = {}
      BY <1>4 DEF Ledger
    <2> QED  BY <2>1
  <1>6. U + Cardinality(R) = Cardinality(B \cup R)
    <2>1. IsFiniteSet(B) /\ IsFiniteSet(R) /\ Cardinality(B) \in Nat /\ Cardinality(R) \in Nat
      BY PoolFinite
    <2>2. B \cap R = {}
      OBVIOUS
    <2>3. Cardinality(B \cap R) = 0
      BY <2>2, FS_EmptySet
    <2>4. Cardinality(B \cup R) =
            Cardinality(B) + Cardinality(R) - Cardinality(B \cap R)
      BY <2>1, FS_Union
    <2> QED  BY <2>1, <2>3, <2>4 DEF Ledger
  <1> QED  BY <1>2, <1>3, <1>5, <1>6 DEF Ledger

\* Pages given back by their holder: nobody else held them.
LEMMA LedgerShrinks ==
  ASSUME NEW B \in SUBSET Pool, NEW U \in Int, NEW f \in [Owners -> SUBSET Pool],
         Ledger(B, U, f),
         NEW o \in Owners, NEW R \in SUBSET f[o]
  PROVE  Ledger(B \ R, U - Cardinality(R), [f EXCEPT ![o] = @ \ R])
  <1> DEFINE h == [f EXCEPT ![o] = @ \ R]
  <1>1. R \cap Reserved = {} /\ \A u \in Owners \ {o} : R \cap f[u] = {}
    BY DEF Ledger
  <1>2. UNION {h[u] : u \in Owners} = (UNION {f[u] : u \in Owners}) \ R
    <2>1. ASSUME NEW p, NEW u \in Owners, p \in h[u]
          PROVE  p \in UNION {f[w] : w \in Owners} /\ p \notin R
      BY <1>1, <2>1
    <2>2. ASSUME NEW p, NEW u \in Owners, p \in f[u], p \notin R
          PROVE  p \in UNION {h[w] : w \in Owners}
      BY <2>2
    <2> QED  BY <2>1, <2>2
  <1>3. B \ R = Reserved \cup UNION {h[u] : u \in Owners}
    BY <1>1, <1>2 DEF Ledger
  <1>4. \A u \in Owners : h[u] \subseteq f[u]
    OBVIOUS
  <1>5. /\ \A u \in Owners : h[u] \cap Reserved = {}
        /\ \A u, w \in Owners : u # w => h[u] \cap h[w] = {}
    BY <1>4 DEF Ledger
  <1>6. U - Cardinality(R) = Cardinality(B \ R)
    <2>1. R \subseteq B
      BY DEF Ledger
    <2>2. IsFiniteSet(B) /\ Cardinality(B) \in Nat /\ Cardinality(R) \in Nat
      BY <2>1, PoolFinite
    <2>3. B \cap R = R
      BY <2>1
    <2>4. Cardinality(B \ R) = Cardinality(B) - Cardinality(R)
      BY <2>2, <2>3, FS_Difference
    <2> QED  BY <2>2, <2>4 DEF Ledger
  <1> QED  BY <1>3, <1>5, <1>6 DEF Ledger

\* An account handed over as a whole.
LEMMA LedgerHands ==
  ASSUME NEW B, NEW U, NEW f \in [Owners -> SUBSET Pool], Ledger(B, U, f),
         NEW o \in Owners, NEW t \in Owners, o # t, f[t] = {}
  PROVE  Ledger(B, U, [f EXCEPT ![t] = f[o], ![o] = {}])
  <1> DEFINE h == [f EXCEPT ![t] = f[o], ![o] = {}]
  <1>1. /\ h \in [Owners -> SUBSET Pool]
        /\ h[o] = {} /\ h[t] = f[o] /\ \A u \in Owners \ {o, t} : h[u] = f[u]
    OBVIOUS
  <1>2. UNION {h[u] : u \in Owners} = UNION {f[u] : u \in Owners}
    <2>1. ASSUME NEW p, NEW u \in Owners, p \in h[u]
          PROVE  p \in UNION {f[w] : w \in Owners}
      BY <1>1, <2>1
    <2>2. ASSUME NEW p, NEW u \in Owners, p \in f[u]
          PROVE  p \in UNION {h[w] : w \in Owners}
      BY <1>1, <2>2
    <2> QED  BY <2>1, <2>2
  <1>3. \A u \in Owners : h[u] \cap Reserved = {}
    BY <1>1 DEF Ledger
  <1>4. \A u, w \in Owners : u # w => h[u] \cap h[w] = {}
    BY <1>1 DEF Ledger
  <1> QED  BY <1>2, <1>3, <1>4 DEF Ledger

-----------------------------------------------------------------------------
(* Accounts: one item more, one item less *)

\* The pages an optional item stands for.
LEMMA PieceFacts ==
  /\ NoPage \notin Pool
  /\ \A n : Piece(NoPage, n) = {}
  /\ \A r \in Pool : \A n : Piece(r, n) = Run(r, n)
  BY PmmAssumption DEF Pool, NoPage, Piece

\* A page directory.
LEMMA AddsDirectory ==
  ASSUME NEW a \in Accounts, ItemsApart(a), a.pd = NoPage,
         NEW r \in Pool, Run(r, 1) \cap PagesOf(a) = {}
  PROVE  LET b == [a EXCEPT !.pd = r]
         IN  /\ b \in Accounts /\ ItemsApart(b)
             /\ PagesOf(b) = PagesOf(a) \cup Run(r, 1)
  <1> DEFINE b == [a EXCEPT !.pd = r]
  <1>1. b \in Accounts
    BY DEF Accounts
  <1>2. b.pt = a.pt /\ b.stack = a.stack /\ b.segs = a.segs /\ b.pd = r
    BY DEF Accounts
  <1>3. PagesOf(b) = PagesOf(a) \cup Run(r, 1)
    BY <1>2, PieceFacts DEF PagesOf
  <1>4. ItemsApart(b)
    BY <1>2, PieceFacts DEF ItemsApart, PagesOf
  <1> QED  BY <1>1, <1>3, <1>4

\* A page table.
LEMMA AddsTable ==
  ASSUME NEW a \in Accounts, ItemsApart(a), a.pt = NoPage,
         NEW r \in Pool, Run(r, 1) \cap PagesOf(a) = {}
  PROVE  LET b == [a EXCEPT !.pt = r]
         IN  /\ b \in Accounts /\ ItemsApart(b)
             /\ PagesOf(b) = PagesOf(a) \cup Run(r, 1)
  <1> DEFINE b == [a EXCEPT !.pt = r]
  <1>1. b \in Accounts
    BY DEF Accounts
  <1>2. b.pd = a.pd /\ b.stack = a.stack /\ b.segs = a.segs /\ b.pt = r
    BY DEF Accounts
  <1>3. PagesOf(b) = PagesOf(a) \cup Run(r, 1)
    BY <1>2, PieceFacts DEF PagesOf
  <1>4. ItemsApart(b)
    BY <1>2, PieceFacts DEF ItemsApart, PagesOf
  <1> QED  BY <1>1, <1>3, <1>4

\* A stack.
LEMMA AddsStack ==
  ASSUME NEW a \in Accounts, ItemsApart(a), a.stack = NoPage,
         NEW r \in Pool, Run(r, StackPages) \cap PagesOf(a) = {}
  PROVE  LET b == [a EXCEPT !.stack = r]
         IN  /\ b \in Accounts /\ ItemsApart(b)
             /\ PagesOf(b) = PagesOf(a) \cup Run(r, StackPages)
  <1> DEFINE b == [a EXCEPT !.stack = r]
  <1>1. b \in Accounts
    BY DEF Accounts
  <1>2. b.pd = a.pd /\ b.pt = a.pt /\ b.segs = a.segs /\ b.stack = r
    BY DEF Accounts
  <1>3. PagesOf(b) = PagesOf(a) \cup Run(r, StackPages)
    BY <1>2, PieceFacts DEF PagesOf
  <1>4. ItemsApart(b)
    BY <1>2, PieceFacts DEF ItemsApart, PagesOf
  <1> QED  BY <1>1, <1>3, <1>4

\* A segment.
LEMMA AddsSegment ==
  ASSUME NEW a \in Accounts, ItemsApart(a), NEW s \in LoadedSegment,
         PhysOf(s) \cap PagesOf(a) = {}
  PROVE  LET b == [a EXCEPT !.segs = @ \cup {s}]
         IN  /\ b \in Accounts /\ ItemsApart(b)
             /\ PagesOf(b) = PagesOf(a) \cup PhysOf(s)
  <1> DEFINE b == [a EXCEPT !.segs = @ \cup {s}]
  <1>1. b \in Accounts
    BY DEF Accounts
  <1>2. b.pd = a.pd /\ b.pt = a.pt /\ b.stack = a.stack /\ b.segs = a.segs \cup {s}
    BY DEF Accounts
  <1>3. PagesOf(b) = PagesOf(a) \cup PhysOf(s)
    BY <1>2 DEF PagesOf
  <1>4. ItemsApart(b)
    BY <1>2 DEF ItemsApart, PagesOf
  <1> QED  BY <1>1, <1>3, <1>4

\* The page directory leaves the account.
LEMMA DropsDirectory ==
  ASSUME NEW a \in Accounts, ItemsApart(a), a.pd # NoPage
  PROVE  LET b == [a EXCEPT !.pd = NoPage]
         IN  /\ b \in Accounts /\ ItemsApart(b)
             /\ Run(a.pd, 1) \subseteq PagesOf(a)
             /\ PagesOf(b) = PagesOf(a) \ Run(a.pd, 1)
  <1> DEFINE b == [a EXCEPT !.pd = NoPage]
  <1>1. b \in Accounts
    BY DEF Accounts
  <1>2. b.pt = a.pt /\ b.stack = a.stack /\ b.segs = a.segs /\ b.pd = NoPage /\ a.pd \in Pool
    BY DEF Accounts
  <1>3. /\ Run(a.pd, 1) \subseteq PagesOf(a)
        /\ PagesOf(b) = PagesOf(a) \ Run(a.pd, 1)
    BY <1>2, PieceFacts DEF PagesOf, ItemsApart
  <1>4. ItemsApart(b)
    BY <1>2, PieceFacts DEF ItemsApart
  <1> QED  BY <1>1, <1>3, <1>4

\* The page table leaves the account.
LEMMA DropsTable ==
  ASSUME NEW a \in Accounts, ItemsApart(a), a.pt # NoPage
  PROVE  LET b == [a EXCEPT !.pt = NoPage]
         IN  /\ b \in Accounts /\ ItemsApart(b)
             /\ Run(a.pt, 1) \subseteq PagesOf(a)
             /\ PagesOf(b) = PagesOf(a) \ Run(a.pt, 1)
  <1> DEFINE b == [a EXCEPT !.pt = NoPage]
  <1>1. b \in Accounts
    BY DEF Accounts
  <1>2. b.pd = a.pd /\ b.stack = a.stack /\ b.segs = a.segs /\ b.pt = NoPage /\ a.pt \in Pool
    BY DEF Accounts
  <1>3. /\ Run(a.pt, 1) \subseteq PagesOf(a)
        /\ PagesOf(b) = PagesOf(a) \ Run(a.pt, 1)
    BY <1>2, PieceFacts DEF PagesOf, ItemsApart
  <1>4. ItemsApart(b)
    BY <1>2, PieceFacts DEF ItemsApart
  <1> QED  BY <1>1, <1>3, <1>4

\* The stack leaves the account.
LEMMA DropsStack ==
  ASSUME NEW a \in Accounts, ItemsApart(a), a.stack # NoPage
  PROVE  LET b == [a EXCEPT !.stack = NoPage]
         IN  /\ b \in Accounts /\ ItemsApart(b)
             /\ Run(a.stack, StackPages) \subseteq PagesOf(a)
             /\ PagesOf(b) = PagesOf(a) \ Run(a.stack, StackPages)
  <1> DEFINE b == [a EXCEPT !.stack = NoPage]
  <1>1. b \in Accounts
    BY DEF Accounts
  <1>2. b.pd = a.pd /\ b.pt = a.pt /\ b.segs = a.segs /\ b.stack = NoPage /\ a.stack \in Pool
    BY DEF Accounts
  <1>3. /\ Run(a.stack, StackPages) \subseteq PagesOf(a)
        /\ PagesOf(b) = PagesOf(a) \ Run(a.stack, StackPages)
    BY <1>2, PieceFacts DEF PagesOf, ItemsApart
  <1>4. ItemsApart(b)
    BY <1>2, PieceFacts DEF ItemsApart
  <1> QED  BY <1>1, <1>3, <1>4

\* A segment leaves the account.
LEMMA DropsSegment ==
  ASSUME NEW a \in Accounts, ItemsApart(a), NEW s \in a.segs
  PROVE  LET b == [a EXCEPT !.segs = @ \ {s}]
         IN  /\ b \in Accounts /\ ItemsApart(b)
             /\ PhysOf(s) \subseteq PagesOf(a)
             /\ PagesOf(b) = PagesOf(a) \ PhysOf(s)
  <1> DEFINE b == [a EXCEPT !.segs = @ \ {s}]
  <1>1. b \in Accounts
    BY DEF Accounts
  <1>2. b.pd = a.pd /\ b.pt = a.pt /\ b.stack = a.stack /\ b.segs = a.segs \ {s}
    BY DEF Accounts
  <1>3. PhysOf(s) \subseteq PagesOf(a)
    BY DEF PagesOf
  <1>4. PagesOf(b) = PagesOf(a) \ PhysOf(s)
    BY <1>2 DEF PagesOf, ItemsApart
  <1>5. ItemsApart(b)
    BY <1>2 DEF ItemsApart
  <1> QED  BY <1>1, <1>3, <1>4, <1>5

-----------------------------------------------------------------------------
(* From account changes to effects, and from effects to the ledger *)

\* Under the invariant every held page is an allocated page of the pool.
LEMMA HeldType ==
  ASSUME IInv
  PROVE  /\ Held \in [Owners -> SUBSET Pool]
         /\ \A o \in Owners : Held[o] = PagesOf(acct[o])
         /\ \A o \in Owners : PagesOf(acct[o]) \subseteq bitmap
         /\ bitmap \in SUBSET Pool /\ g_used \in Int
  BY DEF IInv, TypeOK, Ledger, Held

\* One account changes, so what one owner holds changes.
LEMMA HeldUpdate ==
  ASSUME IInv, NEW o \in Owners, NEW b, acct' = [acct EXCEPT ![o] = b]
  PROVE  Held' = [Held EXCEPT ![o] = PagesOf(b)]
  BY DEF IInv, TypeOK, Held

\* An allocation whose result is entered in the account of o.
LEMMA AllocEffect ==
  ASSUME IInv, NEW o \in Owners, NEW n \in Nat \ {0}, NEW r, AllocPages(n, r),
         NEW b, acct' = [acct EXCEPT ![o] = b],
         r # NoPage => PagesOf(b) = PagesOf(acct[o]) \cup Run(r, n),
         r = NoPage => PagesOf(b) = PagesOf(acct[o])
  PROVE  Effect /\ bitmap' \in SUBSET Pool /\ g_used' \in Int
  <1>1. CASE r = NoPage
    <2>1. bitmap' = bitmap /\ g_used' = g_used
      BY <1>1, AllocTakesFreePages
    <2>2. Held' = [Held EXCEPT ![o] = Held[o]]
      BY <1>1, HeldUpdate, HeldType
    <2>3. Held' = Held
      BY <2>2, HeldType
    <2> QED  BY <2>1, <2>3, HeldType DEF Effect, Kept
  <1>2. CASE r # NoPage
    <2>1. /\ Run(r, n) \subseteq Pool \ bitmap
          /\ bitmap' = bitmap \cup Run(r, n)
          /\ g_used' = g_used + Cardinality(Run(r, n))
      BY <1>2, AllocTakesFreePages
    <2>2. Held' = [Held EXCEPT ![o] = @ \cup Run(r, n)]
      BY <1>2, HeldUpdate, HeldType
    <2>3. Granted(o, Run(r, n))
      BY <2>1, <2>2 DEF Granted
    <2>4. Run(r, n) \in SUBSET Pool /\ Cardinality(Run(r, n)) \in Nat
      BY <2>1, PoolFinite
    <2> QED  BY <2>1, <2>3, <2>4, HeldType DEF Effect
  <1> QED  BY <1>1, <1>2

\* Pages of o given back and taken off its account.
LEMMA FreeEffect ==
  ASSUME IInv, NEW o \in Owners, NEW R \in SUBSET PagesOf(acct[o]),
         bitmap' = bitmap \ R, g_used' = g_used - Cardinality(R),
         NEW b, acct' = [acct EXCEPT ![o] = b],
         PagesOf(b) = PagesOf(acct[o]) \ R
  PROVE  Effect /\ bitmap' \in SUBSET Pool /\ g_used' \in Int
  <1>1. R \in SUBSET Pool /\ R \subseteq Held[o]
    BY HeldType
  <1>2. Held' = [Held EXCEPT ![o] = @ \ R]
    BY HeldUpdate, HeldType
  <1>3. Released(o, R)
    BY <1>1, <1>2 DEF Released
  <1>4. Cardinality(R) \in Nat
    BY <1>1, PoolFinite
  <1> QED  BY <1>1, <1>3, <1>4, HeldType DEF Effect

\* A step that touches neither the allocator nor an account.
LEMMA KeepEffect ==
  ASSUME IInv, UNCHANGED <<bitmap, g_used, acct>>
  PROVE  Effect /\ bitmap' \in SUBSET Pool /\ g_used' \in Int
  BY HeldType DEF Effect, Kept, Held

\* Every effect keeps the ledger balanced.
LEMMA EffectLedger ==
  ASSUME IInv, Effect
  PROVE  Ledger(bitmap', g_used', Held')
  <1>0. Ledger(bitmap, g_used, Held)
    BY DEF IInv
  <1>1. ASSUME NEW o \in Owners, NEW R \in SUBSET Pool, Granted(o, R)
        PROVE  Ledger(bitmap', g_used', Held')
    BY <1>0, <1>1, HeldType, LedgerGrows DEF Granted
  <1>2. ASSUME NEW o \in Owners, NEW R \in SUBSET Pool, Released(o, R)
        PROVE  Ledger(bitmap', g_used', Held')
    BY <1>0, <1>2, HeldType, LedgerShrinks DEF Released
  <1>3. ASSUME NEW o \in Owners, NEW t \in Owners, Handed(o, t)
        PROVE  Ledger(bitmap', g_used', Held')
    BY <1>0, <1>3, HeldType, LedgerHands DEF Handed
  <1>4. CASE Kept
    BY <1>0, <1>4 DEF Kept
  <1> QED  BY <1>1, <1>2, <1>3, <1>4 DEF Effect

\* Every effect is a step, or a stutter, of the abstract specification.
LEMMA EffectRefines ==
  ASSUME IInv, Effect
  PROVE  Ownership!Next \/ UNCHANGED Ownership!vars
  <1>1. ASSUME NEW o \in Owners, NEW R \in SUBSET Pool, Granted(o, R)
        PROVE  Ownership!Grant(o)
    <2>1. (Pool \ bitmap) \ (Pool \ bitmap') = R
      BY <1>1 DEF Granted
    <2> QED  BY <1>1, <2>1 DEF Granted, Ownership!Grant
  <1>2. ASSUME NEW o \in Owners, NEW R \in SUBSET Pool, Released(o, R)
        PROVE  Ownership!Release(o)
    <2>1. (Pool \ bitmap') \ (Pool \ bitmap) = R
      BY <1>2, HeldType DEF Released
    <2> QED  BY <1>2, <2>1 DEF Released, Ownership!Release
  <1>3. ASSUME NEW o \in Owners, NEW t \in Owners, Handed(o, t)
        PROVE  Ownership!HandOver(o, t)
    BY <1>3 DEF Handed, Ownership!HandOver
  <1>4. CASE Kept
    BY <1>4 DEF Kept, Ownership!vars
  <1> QED  BY <1>1, <1>2, <1>3, <1>4 DEF Effect, Ownership!Next

-----------------------------------------------------------------------------
(* Every action preserves the invariant *)

\* What an action has to show; the ledger follows from its effect.
Preserved ==
  /\ Effect
  /\ TypeOK'
  /\ \A o \in Owners : ItemsApart(acct'[o])
  /\ ControlInv'
  /\ LoadInv'
  /\ MapInv'

\* Slots and the two builders are different owners.
LEMMA OwnerFacts ==
  /\ ExecB \in Owners /\ ForkB \in Owners /\ ExecB # ForkB
  /\ NoLock \notin Owners
  /\ Procs \subseteq Owners /\ ExecB \notin Procs /\ ForkB \notin Procs
  /\ Owners = Procs \cup {ExecB, ForkB}
  BY ProcMemAssumption DEF Owners, Procs, ExecB, ForkB, NoLock

\* elf_validate lets segments through that lie in the user area, whatever the
\* headers of the file say.
LEMMA ValidImageFits ==
  ASSUME NEW img \in Images, elf_validate(img)
  PROVE  Loaded(img) \in SUBSET Segment
  <1> SUFFICES ASSUME NEW s \in img, s.pages > 0 PROVE s \in Segment
    BY DEF Loaded
  <1>1. s \in [va : Int, pages : Nat]
    BY ProcMemAssumption
  <1>2. 0 <= s.va /\ s.va < VaPages /\ s.pages <= VaPages - s.va
    BY <1>1 DEF elf_validate, range_in
  <1>3. s.va \in 0 .. VaPages - 1 /\ s.pages \in 1 .. VaPages /\ s.va + s.pages <= VaPages
    BY <1>1, <1>2, ProcMemAssumption
  <1>4. s = [va |-> s.va, pages |-> s.pages]
    BY <1>1
  <1>5. s \in [va : Va, pages : 1 .. VaPages]
    BY <1>3, <1>4 DEF Va
  <1> QED  BY <1>3, <1>5 DEF Segment

\* exec_spawn asks for a page directory.
LEMMA ExecBeginPreserves ==
  ASSUME IInv, PageAligned, ExecBegin
  PROVE  Preserved
  <1> USE OwnerFacts
  <1>1. PICK img \in Images : elf_validate(img) /\ todo' = [todo EXCEPT ![ExecB] = Loaded(img)]
    BY DEF ExecBegin
  <1>2. PICK r \in Pool \cup {NoPage} :
           AllocPages(1, r) /\ acct' = [acct EXCEPT ![ExecB].pd = r]
    BY DEF ExecBegin
  <1>3. acct[ExecB] = EmptyAcct /\ pte[ExecB] = NoMap
    BY DEF ExecBegin, IInv, ControlInv
  <1> DEFINE b == [acct[ExecB] EXCEPT !.pd = r]
  <1>4. acct \in [Owners -> Accounts] /\ acct' = [acct EXCEPT ![ExecB] = b]
    BY <1>2 DEF IInv, TypeOK
  <1>5. /\ b \in Accounts /\ ItemsApart(b)
        /\ r # NoPage => PagesOf(b) = PagesOf(acct[ExecB]) \cup Run(r, 1)
        /\ r = NoPage => PagesOf(b) = PagesOf(acct[ExecB])
        /\ b.pt = NoPage /\ b.stack = NoPage /\ b.segs = {}
    <2>1. acct[ExecB] \in Accounts /\ ItemsApart(acct[ExecB])
      BY <1>4 DEF IInv
    <2>2. CASE r = NoPage
      BY <2>1, <2>2, <1>3 DEF EmptyAcct
    <2>3. CASE r # NoPage
      <3>1. Run(r, 1) \cap PagesOf(acct[ExecB]) = {}
        BY <2>3, <1>2, AllocTakesFreePages, HeldType
      <3>2. b.pt = NoPage /\ b.stack = NoPage /\ b.segs = {} /\ acct[ExecB].pd = NoPage
        BY <1>3 DEF EmptyAcct
      <3> QED  BY <2>1, <2>3, <3>1, <3>2, AddsDirectory
    <2> QED  BY <2>2, <2>3
  <1> HIDE DEF b
  <1>6. Effect /\ bitmap' \in SUBSET Pool /\ g_used' \in Int
    BY <1>2, <1>4, <1>5, 1 \in Nat \ {0}, AllocEffect
  <1>a. Loaded(img) \in SUBSET Segment
    BY <1>1, ValidImageFits
  <1>7. TypeOK'
    BY <1>1, <1>a, <1>4, <1>5, <1>6 DEF ExecBegin, Goto, IInv, TypeOK
  <1>8. \A o \in Owners : ItemsApart(acct'[o])
    BY <1>4, <1>5 DEF IInv
  <1>9. ControlInv'
    BY <1>3, <1>4, <1>5 DEF ExecBegin, Goto, Runs, IInv, TypeOK, ControlInv
  <1>10. LoadInv'
    BY <1>1, <1>4, <1>5 DEF ExecBegin, Goto, PageAligned, LoadInv, IInv, TypeOK
  <1>11. MapInv'
    BY <1>4 DEF ExecBegin, Goto, IInv, TypeOK, MapInv
  <1> QED  BY <1>6, <1>7, <1>8, <1>9, <1>10, <1>11 DEF Preserved

\* task_fork takes the lock and asks for a page directory.
LEMMA ForkBeginPreserves ==
  ASSUME IInv, ForkBegin
  PROVE  Preserved
  <1> USE OwnerFacts
  <1>1. PICK t \in Procs : todo' = [todo EXCEPT ![ForkB] =
                    {[va |-> s.va, pages |-> s.pages] : s \in acct[t].segs}]
    BY DEF ForkBegin
  <1>2. PICK r \in Pool \cup {NoPage} :
           AllocPages(1, r) /\ acct' = [acct EXCEPT ![ForkB].pd = r]
    BY DEF ForkBegin
  <1>3. acct[ForkB] = EmptyAcct /\ pte[ForkB] = NoMap
    BY DEF ForkBegin, IInv, ControlInv
  <1> DEFINE b == [acct[ForkB] EXCEPT !.pd = r]
  <1>4. acct \in [Owners -> Accounts] /\ acct' = [acct EXCEPT ![ForkB] = b]
    BY <1>2 DEF IInv, TypeOK
  <1>5. /\ b \in Accounts /\ ItemsApart(b)
        /\ r # NoPage => PagesOf(b) = PagesOf(acct[ForkB]) \cup Run(r, 1)
        /\ r = NoPage => PagesOf(b) = PagesOf(acct[ForkB])
        /\ b.pt = NoPage /\ b.stack = NoPage /\ b.segs = {}
    <2>1. acct[ForkB] \in Accounts /\ ItemsApart(acct[ForkB])
      BY <1>4 DEF IInv
    <2>2. CASE r = NoPage
      BY <2>1, <2>2, <1>3 DEF EmptyAcct
    <2>3. CASE r # NoPage
      <3>1. Run(r, 1) \cap PagesOf(acct[ForkB]) = {}
        BY <2>3, <1>2, AllocTakesFreePages, HeldType
      <3>2. b.pt = NoPage /\ b.stack = NoPage /\ b.segs = {} /\ acct[ForkB].pd = NoPage
        BY <1>3 DEF EmptyAcct
      <3> QED  BY <2>1, <2>3, <3>1, <3>2, AddsDirectory
    <2> QED  BY <2>2, <2>3
  <1> HIDE DEF b
  <1>6. Effect /\ bitmap' \in SUBSET Pool /\ g_used' \in Int
    BY <1>2, <1>4, <1>5, 1 \in Nat \ {0}, AllocEffect
  <1>7. TypeOK'
    <2>1. {[va |-> s.va, pages |-> s.pages] : s \in acct[t].segs} \in SUBSET Segment
      <3>1. acct[t].segs \in SUBSET LoadedSegment
        BY <1>4 DEF Accounts
      <3> QED  BY <3>1 DEF LoadedSegment, Segment
    <2> QED
      BY <2>1, <1>1, <1>4, <1>5, <1>6 DEF ForkBegin, Goto, IInv, TypeOK
  <1>8. \A o \in Owners : ItemsApart(acct'[o])
    BY <1>4, <1>5 DEF IInv
  <1>9. ControlInv'
    <2>1. /\ \A u \in Owners \ {ForkB} : pc'[u] = pc[u] /\ acct'[u] = acct[u]
          /\ pc'[ForkB] = "pt" /\ acct'[ForkB] = b /\ pte' = pte
          /\ lock = NoLock /\ lock' = ForkB /\ state' = state
      BY <1>4 DEF ForkBegin, Goto, IInv, TypeOK
    <2>2. \A u \in Procs : pc[u] = "idle"
      BY <2>1 DEF IInv, ControlInv
    <2> QED  BY <2>1, <2>2, <1>3, <1>5 DEF IInv, ControlInv
  <1>10. LoadInv'
    <2>1. /\ acct'[ExecB] = acct[ExecB] /\ todo'[ExecB] = todo[ExecB]
          /\ pc'[ExecB] = pc[ExecB] /\ pte' = pte
      BY <1>1, <1>4 DEF ForkBegin, Goto, IInv, TypeOK
    <2> QED  BY <2>1 DEF IInv, LoadInv
  <1>11. MapInv'
    BY <1>4 DEF ForkBegin, Goto, IInv, TypeOK, MapInv
  <1> QED  BY <1>6, <1>7, <1>8, <1>9, <1>10, <1>11 DEF Preserved

\* Either builder asks for a page table.
LEMMA AllocTablePreserves ==
  ASSUME IInv, NEW o \in Owners, AllocTable(o)
  PROVE  Preserved
  <1> USE OwnerFacts
  <1>1. PICK r \in Pool \cup {NoPage} :
           /\ AllocPages(1, r) /\ acct' = [acct EXCEPT ![o].pt = r]
           /\ IF r = NoPage \/ acct[o].pd = NoPage
              THEN Goto(o, "teardown") /\ UNCHANGED lock
              ELSE Goto(o, "segs") /\ lock' = o
    BY DEF AllocTable
  <1>2. o \in {ExecB, ForkB}
    BY DEF AllocTable, IInv, ControlInv
  <1>3. /\ acct[o].pt = NoPage /\ acct[o].stack = NoPage /\ acct[o].segs = {}
        /\ pte[o] = NoMap
    BY <1>2 DEF AllocTable, IInv, ControlInv
  <1> DEFINE b == [acct[o] EXCEPT !.pt = r]
  <1>4. acct \in [Owners -> Accounts] /\ acct' = [acct EXCEPT ![o] = b]
    BY <1>1 DEF IInv, TypeOK
  <1>5. /\ b \in Accounts /\ ItemsApart(b)
        /\ r # NoPage => PagesOf(b) = PagesOf(acct[o]) \cup Run(r, 1)
        /\ r = NoPage => PagesOf(b) = PagesOf(acct[o])
        /\ b.pt = r /\ b.stack = NoPage /\ b.segs = {}
    <2>1. acct[o] \in Accounts /\ ItemsApart(acct[o])
      BY <1>4 DEF IInv
    <2>2. b.pt = r /\ b.stack = NoPage /\ b.segs = {}
      BY <2>1, <1>3 DEF Accounts
    <2>3. CASE r = NoPage
      <3>1. b = acct[o]
        BY <2>1, <2>3, <1>3 DEF Accounts
      <3> QED  BY <2>1, <2>2, <2>3, <3>1
    <2>4. CASE r # NoPage
      <3>1. Run(r, 1) \cap PagesOf(acct[o]) = {}
        BY <2>4, <1>1, AllocTakesFreePages, HeldType
      <3> QED  BY <2>1, <2>2, <2>4, <3>1, <1>3, AddsTable
    <2> QED  BY <2>3, <2>4
  <1> HIDE DEF b
  <1>6. Effect /\ bitmap' \in SUBSET Pool /\ g_used' \in Int
    <2>1. AllocPages(1, r) /\ 1 \in Nat \ {0}
      BY <1>1
    <2> QED  BY <2>1, <1>4, <1>5, AllocEffect
  <1>7. TypeOK'
    BY SMTT(30), <1>1, <1>4, <1>5, <1>6 DEF AllocTable, Goto, IInv, TypeOK
  <1>8. \A u \in Owners : ItemsApart(acct'[u])
    BY <1>4, <1>5 DEF IInv
  <1>9. ControlInv'
    BY <1>1, <1>2, <1>3, <1>4, <1>5
    DEF AllocTable, Goto, Runs, IInv, TypeOK, ControlInv
  <1>10. LoadInv'
    BY <1>1, <1>2, <1>3, <1>4, <1>5 DEF AllocTable, Goto, LoadInv, IInv, TypeOK
  <1>11. MapInv'
    BY <1>1, <1>2, <1>3, <1>4 DEF AllocTable, Goto, IInv, TypeOK, MapInv, NoMap
  <1> QED  BY <1>6, <1>7, <1>8, <1>9, <1>10, <1>11 DEF Preserved

\* A page table entry written for a run of pages names a page of the run.
LEMMA MappedPage ==
  ASSUME NEW r \in Pool, NEW va \in Int, NEW n \in Nat, NEW v \in Run(va, n)
  PROVE  r + (v - va) \in Run(r, n)
  <1>1. r \in Int
    BY PmmAssumption DEF Pool
  <1>2. v \in Int /\ va <= v /\ v < va + n
    BY RunFacts
  <1> QED  BY <1>1, <1>2, RunFacts

\* paging_unmap clears entries.
LEMMA UnmapType ==
  ASSUME NEW m \in [Va -> Pool \cup {NoPage}], NEW va, NEW n
  PROVE  paging_unmap(m, va, n) \in [Va -> Pool \cup {NoPage}]
  BY DEF paging_unmap

LEMMA UnmapEmpty ==
  ASSUME NEW va, NEW n
  PROVE  paging_unmap(NoMap, va, n) = NoMap
  BY DEF paging_unmap, NoMap

\* elf_load and task_fork give a segment its pages and map them.
LEMMA LoadSegmentPreserves ==
  ASSUME IInv, NEW o \in Owners, LoadSegment(o)
  PROVE  Preserved
  <1> USE OwnerFacts
  <1>1. PICK s \in todo[o], r \in Pool \cup {NoPage} :
           /\ AllocPages(s.pages, r)
           /\ IF r = NoPage
              THEN /\ Goto(o, IF o = ExecB THEN "unwind" ELSE "teardown")
                   /\ UNCHANGED <<acct, pte, todo>>
              ELSE /\ acct' = [acct EXCEPT ![o].segs = @ \cup
                                 {[va |-> s.va, pages |-> s.pages, phys |-> r]}]
                   /\ pte' = [pte EXCEPT ![o] = paging_map(@, s.va, s.pages, r)]
                   /\ todo' = [todo EXCEPT ![o] = @ \ {s}]
                   /\ UNCHANGED pc
    BY DEF LoadSegment
  <1>2. o \in {ExecB, ForkB} /\ acct[o].pt # NoPage /\ acct[o].stack = NoPage
    BY DEF LoadSegment, IInv, ControlInv
  <1>3. /\ s \in Segment /\ s.va \in Va /\ s.pages \in Nat \ {0}
        /\ s.va + s.pages <= VaPages /\ s.pages \in 1 .. VaPages /\ s.va \in Int
    BY ProcMemAssumption DEF IInv, TypeOK, Segment, Va
  <1>4. acct \in [Owners -> Accounts] /\ acct[o] \in Accounts /\ ItemsApart(acct[o])
    BY DEF IInv, TypeOK
  <1>5. CASE r = NoPage
    <2>1. /\ UNCHANGED <<acct, pte, todo, state, lock>>
          /\ pc' = [pc EXCEPT ![o] = IF o = ExecB THEN "unwind" ELSE "teardown"]
      BY <1>1, <1>5 DEF LoadSegment, Goto
    <2>2. bitmap' = bitmap /\ g_used' = g_used
      BY <1>1, <1>3, <1>5, AllocTakesFreePages
    <2>3. Effect /\ bitmap' \in SUBSET Pool /\ g_used' \in Int
      BY <2>1, <2>2, KeepEffect
    <2>4. TypeOK'
      BY <2>1, <2>3 DEF IInv, TypeOK
    <2>5. \A u \in Owners : ItemsApart(acct'[u])
      BY <2>1 DEF IInv
    <2>6. ControlInv'
      BY <2>1, <1>2 DEF LoadSegment, Runs, IInv, TypeOK, ControlInv
    <2>7. LoadInv'
      BY <2>1 DEF LoadSegment, IInv, TypeOK, LoadInv
    <2>8. MapInv'
      BY <2>1, <1>2 DEF LoadSegment, IInv, TypeOK, MapInv
    <2> QED  BY <2>3, <2>4, <2>5, <2>6, <2>7, <2>8 DEF Preserved
  <1>6. CASE r # NoPage
    <2> DEFINE d == [va |-> s.va, pages |-> s.pages, phys |-> r]
               b == [acct[o] EXCEPT !.segs = @ \cup {d}]
               m == paging_map(pte[o], s.va, s.pages, r)
    <2>1. /\ acct' = [acct EXCEPT ![o] = b] /\ pte' = [pte EXCEPT ![o] = m]
          /\ todo' = [todo EXCEPT ![o] = @ \ {s}]
          /\ UNCHANGED <<state, lock, pc>> /\ pc[o] = "segs"
      BY <1>1, <1>4, <1>6 DEF LoadSegment, IInv, TypeOK
    <2>2. /\ r \in Pool /\ Run(r, s.pages) \subseteq Pool \ bitmap
          /\ PhysOf(d) = Run(r, s.pages) /\ VaOf(d) = VaOf(s)
      BY <1>1, <1>3, <1>6, AllocTakesFreePages DEF PhysOf, VaOf
    <2>3. d \in LoadedSegment
      BY <1>3, <2>2 DEF LoadedSegment
    <2>4. PhysOf(d) \cap PagesOf(acct[o]) = {}
      BY <2>2, HeldType
    <2>5. /\ b \in Accounts /\ ItemsApart(b)
          /\ PagesOf(b) = PagesOf(acct[o]) \cup PhysOf(d)
      BY <1>4, <2>3, <2>4, AddsSegment
    <2>6. b.pt = acct[o].pt /\ b.stack = acct[o].stack /\ b.segs = acct[o].segs \cup {d}
      BY <1>4 DEF Accounts
    <2>7. \A v \in Va : v \in VaOf(s) => m[v] = r + (v - s.va) /\ m[v] \in PhysOf(d)
      BY <1>3, <2>2, MappedPage DEF VaOf, paging_map
    <2>8. \A v \in Va : v \notin VaOf(s) => m[v] = pte[o][v]
      BY DEF paging_map, VaOf
    <2>9. m \in [Va -> Pool \cup {NoPage}]
      <3>1. pte[o] \in [Va -> Pool \cup {NoPage}]
        BY DEF IInv, TypeOK
      <3>2. ASSUME NEW v \in Va PROVE m[v] \in Pool \cup {NoPage}
        BY <2>2, <2>7, <2>8, <3>1
      <3> QED  BY <3>2 DEF paging_map
    <2>10. \A v \in VaOf(s) : v \in Va
      BY <1>3, ProcMemAssumption DEF VaOf, Va, Run
    <2>11. d.phys = r /\ d.va = s.va
      OBVIOUS
    <2> HIDE DEF b, m, d
    <2>12. Effect /\ bitmap' \in SUBSET Pool /\ g_used' \in Int
      <3>1. AllocPages(s.pages, r) /\ s.pages \in Nat \ {0}
        BY <1>1, <1>3
      <3> QED  BY <3>1, <1>6, <2>1, <2>2, <2>5, AllocEffect
    <2>13. TypeOK'
      BY <2>1, <2>5, <2>9, <2>12 DEF IInv, TypeOK
    <2>14. \A u \in Owners : ItemsApart(acct'[u])
      BY <1>4, <2>1, <2>5 DEF IInv
    <2>15. ControlInv'
      <3>1. /\ acct'[o] = b /\ \A u \in Owners \ {o} : acct'[u] = acct[u]
            /\ \A u \in Owners \ {o} : pte'[u] = pte[u]
        BY <1>4, <2>1 DEF IInv, TypeOK
      <3> QED  BY <3>1, <2>1, <2>6, <1>2 DEF IInv, ControlInv
    <2>16. LoadInv'
      <3>1. CASE o # ExecB
        BY <3>1, <1>4, <2>1 DEF IInv, TypeOK, LoadInv
      <3>2. CASE o = ExecB
        <4>1. /\ acct'[ExecB] = b /\ pte'[ExecB] = m
              /\ todo'[ExecB] = todo[ExecB] \ {s} /\ pc' = pc
          BY <3>2, <1>4, <2>1 DEF IInv, TypeOK
        <4>2. LoadInv /\ pc[ExecB] = "segs" /\ s \in todo[ExecB]
          BY <3>2, <2>1 DEF IInv
        <4>3. \A x, y \in b.segs : x # y => VaOf(x) \cap VaOf(y) = {}
          BY <3>2, <4>2, <2>2, <2>6 DEF LoadInv
        <4>4. \A x \in b.segs, y \in todo[ExecB] \ {s} : VaOf(x) \cap VaOf(y) = {}
          BY <3>2, <4>2, <2>2, <2>6 DEF LoadInv
        <4>5. \A x, y \in todo[ExecB] \ {s} : x # y => VaOf(x) \cap VaOf(y) = {}
          BY <4>2 DEF LoadInv
        <4>6. ASSUME NEW x \in b.segs, NEW v \in VaOf(x)
              PROVE  m[v] = x.phys + (v - x.va)
          <5>1. CASE x = d
            BY <5>1, <2>2, <2>7, <2>10, <2>11
          <5>2. CASE x # d
            <6>1. x \in acct[o].segs /\ VaOf(x) \cap VaOf(s) = {}
              BY <5>2, <2>6, <3>2, <4>2 DEF LoadInv
            <6>2. x \in LoadedSegment
              BY <6>1, <1>4 DEF Accounts
            <6>3. v \in Va
              BY <6>2, ProcMemAssumption, RunFacts DEF LoadedSegment, VaOf, Va
            <6> QED  BY <6>1, <6>3, <2>8, <3>2, <4>2 DEF LoadInv
          <5> QED  BY <5>1, <5>2
        <4> QED  BY <4>1, <4>2, <4>3, <4>4, <4>5, <4>6 DEF LoadInv
      <3> QED  BY <3>1, <3>2
    <2>17. MapInv'
      <3>1. /\ acct'[o] = b /\ pte'[o] = m
            /\ \A u \in Owners \ {o} : acct'[u] = acct[u] /\ pte'[u] = pte[u]
        BY <1>4, <2>1 DEF IInv, TypeOK
      <3>2. \A v \in Va : pte[o][v] # NoPage => pte[o][v] \in PagesOf(acct[o])
        BY <1>2, <2>1 DEF IInv, MapInv
      <3>3. \A v \in Va : m[v] # NoPage => m[v] \in PagesOf(b)
        BY <2>5, <2>7, <2>8, <3>2
      <3> QED  BY <2>1, <3>1, <3>3 DEF IInv, MapInv
    <2> QED  BY <2>12, <2>13, <2>14, <2>15, <2>16, <2>17 DEF Preserved
  <1> QED  BY <1>5, <1>6

\* Either builder gives the process a stack.
LEMMA AllocStackPreserves ==
  ASSUME IInv, NEW o \in Owners, AllocStack(o)
  PROVE  Preserved
  <1> USE OwnerFacts
  <1>1. PICK r \in Pool \cup {NoPage} :
           /\ AllocPages(StackPages, r)
           /\ acct' = [acct EXCEPT ![o].stack = r]
           /\ IF r = NoPage
              THEN Goto(o, "teardown") /\ UNCHANGED pte
              ELSE /\ Goto(o, "register")
                   /\ pte' = [pte EXCEPT ![o] = paging_map(@, StackBase, StackPages, r)]
    BY DEF AllocStack
  <1>2. o \in {ExecB, ForkB} /\ acct[o].pt # NoPage /\ acct[o].stack = NoPage
    BY DEF AllocStack, IInv, ControlInv
  <1>3. StackPages \in Nat \ {0} /\ StackBase \in Int
    BY ProcMemAssumption DEF StackBase
  <1> DEFINE b == [acct[o] EXCEPT !.stack = r]
             S == Run(StackBase, StackPages)
             m == paging_map(pte[o], StackBase, StackPages, r)
  <1>4. /\ acct \in [Owners -> Accounts] /\ acct[o] \in Accounts
        /\ ItemsApart(acct[o]) /\ acct' = [acct EXCEPT ![o] = b]
        /\ UNCHANGED <<state, todo, lock>> /\ pc[o] = "segs"
        /\ b.pt = acct[o].pt /\ b.segs = acct[o].segs
    <2>1. /\ acct \in [Owners -> Accounts] /\ acct[o] \in Accounts
          /\ ItemsApart(acct[o])
      BY DEF IInv, TypeOK
    <2>2. acct' = [acct EXCEPT ![o] = b]
      BY <1>1, <2>1
    <2>3. b.pt = acct[o].pt /\ b.segs = acct[o].segs
      BY <2>1 DEF Accounts
    <2> QED  BY <2>1, <2>2, <2>3 DEF AllocStack
  <1>5. CASE r = NoPage
    <2>1. b = acct[o]
      BY <1>2, <1>4, <1>5 DEF Accounts
    <2>2. acct' = acct /\ pte' = pte /\ pc' = [pc EXCEPT ![o] = "teardown"]
      BY <1>1, <1>4, <1>5, <2>1 DEF Goto
    <2>3. bitmap' = bitmap /\ g_used' = g_used
      BY <1>1, <1>3, <1>5, AllocTakesFreePages
    <2>4. Effect /\ bitmap' \in SUBSET Pool /\ g_used' \in Int
      BY <2>2, <2>3, KeepEffect
    <2>5. TypeOK'
      BY <2>2, <2>4, <1>4 DEF IInv, TypeOK
    <2>6. \A u \in Owners : ItemsApart(acct'[u])
      BY <2>2 DEF IInv
    <2>7. ControlInv'
      BY <2>2, <1>2, <1>4 DEF AllocStack, Runs, IInv, TypeOK, ControlInv
    <2>8. LoadInv'
      BY <2>2, <1>4 DEF IInv, TypeOK, LoadInv
    <2>9. MapInv'
      BY <2>2, <1>2, <1>4 DEF IInv, TypeOK, MapInv
    <2> QED  BY <2>4, <2>5, <2>6, <2>7, <2>8, <2>9 DEF Preserved
  <1>6. CASE r # NoPage
    <2>1. pte' = [pte EXCEPT ![o] = m] /\ pc' = [pc EXCEPT ![o] = "register"]
      BY <1>1, <1>6 DEF Goto, IInv, TypeOK
    <2>2. r \in Pool /\ Run(r, StackPages) \subseteq Pool \ bitmap
      BY <1>1, <1>3, <1>6, AllocTakesFreePages
    <2>3. Run(r, StackPages) \cap PagesOf(acct[o]) = {}
      BY <2>2, HeldType
    <2>4. /\ b \in Accounts /\ ItemsApart(b)
          /\ PagesOf(b) = PagesOf(acct[o]) \cup Run(r, StackPages)
      BY <1>2, <1>4, <2>2, <2>3, AddsStack
    <2>5. \A v \in Va : v \in S => m[v] \in Run(r, StackPages)
      BY <1>3, <2>2, MappedPage DEF paging_map
    <2>6. \A v \in Va : v \notin S => m[v] = pte[o][v]
      BY DEF paging_map
    <2>7. m \in [Va -> Pool \cup {NoPage}]
      <3>1. pte[o] \in [Va -> Pool \cup {NoPage}]
        BY DEF IInv, TypeOK
      <3>2. ASSUME NEW v \in Va PROVE m[v] \in Pool \cup {NoPage}
        BY <2>2, <2>5, <2>6, <3>1
      <3> QED  BY <3>2 DEF paging_map
    <2> HIDE DEF b, m
    <2>8. Effect /\ bitmap' \in SUBSET Pool /\ g_used' \in Int
      <3>1. AllocPages(StackPages, r)
        BY <1>1
      <3> QED  BY <3>1, <1>3, <1>4, <1>6, <2>4, AllocEffect
    <2>9. TypeOK'
      BY <2>1, <2>4, <2>7, <2>8, <1>4 DEF IInv, TypeOK
    <2>10. \A u \in Owners : ItemsApart(acct'[u])
      BY <1>4, <2>4 DEF IInv
    <2>11. /\ acct'[o] = b /\ pte'[o] = m /\ pc'[o] = "register"
           /\ \A u \in Owners \ {o} : /\ acct'[u] = acct[u] /\ pte'[u] = pte[u]
                                      /\ pc'[u] = pc[u]
      BY <1>4, <2>1 DEF IInv, TypeOK
    <2>12. ControlInv'
      BY <2>11, <1>2, <1>4 DEF AllocStack, Runs, IInv, ControlInv
    <2>13. LoadInv'
      BY <2>11, <1>4 DEF IInv, LoadInv
    <2>14. MapInv'
      <3>1. \A v \in Va : pte[o][v] # NoPage => pte[o][v] \in PagesOf(acct[o])
        BY <1>2, <1>4 DEF IInv, MapInv
      <3>2. \A v \in Va : m[v] # NoPage => m[v] \in PagesOf(b)
        BY <2>4, <2>5, <2>6, <3>1
      <3> QED  BY <1>4, <2>11, <3>2 DEF IInv, MapInv
    <2> QED  BY <2>8, <2>9, <2>10, <2>12, <2>13, <2>14 DEF Preserved
  <1> QED  BY <1>5, <1>6

\* The account moves to an empty slot of the task table.
LEMMA RegisterPreserves ==
  ASSUME IInv, NEW o \in Owners, Register(o)
  PROVE  Preserved
  <1> USE OwnerFacts
  <1>1. PICK t \in FreeSlots :
          /\ state' = [state EXCEPT ![t] = "LIVE"]
          /\ acct' = [acct EXCEPT ![t] = acct[o], ![o] = EmptyAcct]
          /\ pte' = [pte EXCEPT ![t] = pte[o], ![o] = NoMap]
    BY DEF Register
  <1>2. o \in {ExecB, ForkB}
    BY DEF Register, IInv, ControlInv
  <1>3. t \in Procs /\ t # o /\ state[t] = "UNUSED" /\ pc[t] = "idle"
    BY <1>2 DEF FreeSlots, IInv, ControlInv
  <1>4. acct[t] = EmptyAcct
    BY <1>3 DEF IInv, ControlInv
  <1>5. /\ PagesOf(EmptyAcct) = {} /\ EmptyAcct \in Accounts /\ ItemsApart(EmptyAcct)
    BY PieceFacts DEF EmptyAcct, Accounts, PagesOf, ItemsApart
  <1>6. /\ acct'[t] = acct[o] /\ acct'[o] = EmptyAcct
        /\ pte'[t] = pte[o] /\ pte'[o] = NoMap
        /\ state'[t] = "LIVE" /\ \A u \in Procs \ {t} : state'[u] = state[u]
        /\ \A u \in Owners \ {t, o} : acct'[u] = acct[u] /\ pte'[u] = pte[u]
        /\ pc'[o] = "idle" /\ \A u \in Owners \ {o} : pc'[u] = pc[u]
        /\ lock' = NoLock /\ pc[o] = "register"
        /\ UNCHANGED <<bitmap, g_used, todo>>
    BY <1>1, <1>3 DEF Register, Goto, IInv, TypeOK
  <1>7. TypeOK'
    <2>1. NoMap \in [Va -> Pool \cup {NoPage}]
      BY DEF NoMap
    <2> QED
      BY <2>1, <1>1, <1>3, <1>5 DEF Register, Goto, IInv, TypeOK
  <1>8. Effect
    <2>1. Held[t] = {}
      BY <1>3, <1>4, <1>5, HeldType
    <2>2. Held' = [Held EXCEPT ![t] = Held[o], ![o] = {}]
      <3>1. \A u \in Owners : Held'[u] = PagesOf(acct'[u])
        BY DEF Held
      <3>2. Held' = [u \in Owners |-> PagesOf(acct'[u])]
        BY DEF Held
      <3>3. \A u \in Owners :
              [Held EXCEPT ![t] = Held[o], ![o] = {}][u] = PagesOf(acct'[u])
        BY ZenonT(60), <1>3, <1>5, <1>6, HeldType
      <3> QED  BY <3>2, <3>3, HeldType
    <2>3. Handed(o, t)
      BY <1>3, <1>6, <2>1, <2>2 DEF Handed
    <2> QED  BY <1>3, <2>3 DEF Effect
  <1>9. \A u \in Owners : ItemsApart(acct'[u])
    BY <1>5, <1>6 DEF IInv
  <1>10. ControlInv'
    <2>1. \A u \in Procs : pc[u] = "idle"
      BY <1>2, <1>6 DEF Register, Runs, IInv, ControlInv
    <2>2. \A u \in {ExecB, ForkB} \ {o} : u = ForkB => pc[u] = "idle"
      BY <1>2 DEF Register, Runs, IInv, ControlInv
    <2> QED  BY <2>1, <2>2, <1>2, <1>3, <1>6 DEF IInv, ControlInv
  <1>11. LoadInv'
    BY <1>2, <1>3, <1>6 DEF IInv, LoadInv
  <1>12. MapInv'
    <2>1. \A v \in Va : pte[o][v] # NoPage => pte[o][v] \in PagesOf(acct[o])
      BY <1>2, <1>6 DEF IInv, MapInv
    <2> QED  BY <2>1, <1>2, <1>3, <1>6 DEF IInv, MapInv
  <1> QED  BY <1>7, <1>8, <1>9, <1>10, <1>11, <1>12 DEF Preserved

\* exec_spawn gives up after the stack was mapped.
LEMMA ExecFailsPreserves ==
  ASSUME IInv, ExecFails
  PROVE  Preserved
  <1> USE OwnerFacts
  <1>1. /\ UNCHANGED <<bitmap, g_used, state, acct, pte, todo, lock>>
        /\ pc' = [pc EXCEPT ![ExecB] = "teardown"] /\ pc[ExecB] = "register"
    BY DEF ExecFails, Goto
  <1>2. Effect
    BY <1>1, KeepEffect
  <1>3. TypeOK' /\ \A u \in Owners : ItemsApart(acct'[u])
    BY <1>1 DEF IInv, TypeOK
  <1>4. ControlInv'
    BY <1>1 DEF IInv, TypeOK, ControlInv
  <1>5. LoadInv' /\ MapInv'
    BY <1>1 DEF IInv, TypeOK, LoadInv, MapInv
  <1> QED  BY <1>2, <1>3, <1>4, <1>5 DEF Preserved

\* unwind has cleared the image.
LEMMA UnwindDonePreserves ==
  ASSUME IInv, UnwindDone
  PROVE  Preserved
  <1> USE OwnerFacts
  <1>1. /\ UNCHANGED <<bitmap, g_used, state, acct, pte, todo, lock>>
        /\ pc' = [pc EXCEPT ![ExecB] = "teardown"] /\ pc[ExecB] = "unwind"
    BY DEF UnwindDone, Goto
  <1>2. Effect
    BY <1>1, KeepEffect
  <1>3. TypeOK' /\ \A u \in Owners : ItemsApart(acct'[u])
    BY <1>1 DEF IInv, TypeOK
  <1>4. ControlInv'
    BY <1>1 DEF IInv, TypeOK, ControlInv
  <1>5. LoadInv' /\ MapInv'
    BY <1>1 DEF IInv, TypeOK, LoadInv, MapInv
  <1> QED  BY <1>2, <1>3, <1>4, <1>5 DEF Preserved

\* unwind looks the pages up in the page table; LoadInv says it finds exactly
\* the pages of the segment.
LEMMA UnwindPreserves ==
  ASSUME IInv, Unwind
  PROVE  Preserved
  <1> USE OwnerFacts
  <1>1. PICK s \in acct[ExecB].segs :
          /\ FreeEach(paging_query(pte[ExecB], s.va, s.pages))
          /\ acct' = [acct EXCEPT ![ExecB].segs = @ \ {s}]
          /\ pte' = [pte EXCEPT ![ExecB] = paging_unmap(@, s.va, s.pages)]
    BY DEF Unwind
  <1> DEFINE b == [acct[ExecB] EXCEPT !.segs = @ \ {s}]
             m == paging_unmap(pte[ExecB], s.va, s.pages)
  <1>2. /\ acct \in [Owners -> Accounts] /\ acct[ExecB] \in Accounts
        /\ ItemsApart(acct[ExecB]) /\ pte[ExecB] \in [Va -> Pool \cup {NoPage}]
        /\ pc[ExecB] = "unwind" /\ UNCHANGED <<state, pc, todo, lock>>
    BY DEF Unwind, IInv, TypeOK
  <1>3. acct' = [acct EXCEPT ![ExecB] = b] /\ pte' = [pte EXCEPT ![ExecB] = m]
    BY <1>1, <1>2 DEF IInv, TypeOK
  <1>4. s \in LoadedSegment /\ s.va \in Int /\ s.pages \in Nat /\ s.phys \in Pool
    BY <1>1, <1>2, ProcMemAssumption DEF Accounts, LoadedSegment, Va
  <1>5. \A v \in VaOf(s) : pte[ExecB][v] = s.phys + (v - s.va)
    BY <1>1, <1>2 DEF IInv, LoadInv
  <1>6. paging_query(pte[ExecB], s.va, s.pages) = PhysOf(s)
    <2>1. s.phys \in Nat
      BY <1>4, PmmAssumption DEF Pool
    <2>2. ASSUME NEW v \in VaOf(s) PROVE pte[ExecB][v] \in PhysOf(s)
      BY <1>4, <1>5, MappedPage DEF VaOf, PhysOf
    <2>3. ASSUME NEW p \in PhysOf(s)
          PROVE  p # NoPage /\ \E v \in VaOf(s) : pte[ExecB][v] = p
      <3>1. p \in Int /\ s.phys <= p /\ p < s.phys + s.pages
        BY <1>4, <2>1, RunFacts DEF PhysOf
      <3>2. s.va + (p - s.phys) \in VaOf(s)
        BY <1>4, <2>1, <3>1, RunFacts DEF VaOf
      <3>3. pte[ExecB][s.va + (p - s.phys)] = p
        BY <1>4, <1>5, <2>1, <3>1, <3>2
      <3> QED  BY <2>1, <3>1, <3>2, <3>3 DEF NoPage
    <2> QED  BY <2>1, <2>2, <2>3 DEF paging_query, VaOf
  <1>7. /\ b \in Accounts /\ ItemsApart(b) /\ PhysOf(s) \subseteq PagesOf(acct[ExecB])
        /\ PagesOf(b) = PagesOf(acct[ExecB]) \ PhysOf(s)
    BY <1>2, DropsSegment
  <1>8. /\ b.pd = acct[ExecB].pd /\ b.pt = acct[ExecB].pt
        /\ b.stack = acct[ExecB].stack /\ b.segs = acct[ExecB].segs \ {s}
    BY <1>2 DEF Accounts
  <1>9. m \in [Va -> Pool \cup {NoPage}] /\ \A v \in Va \ VaOf(s) : m[v] = pte[ExecB][v]
    BY <1>2, UnmapType DEF paging_unmap, VaOf
  <1> HIDE DEF b, m
  <1>10. Effect /\ bitmap' \in SUBSET Pool /\ g_used' \in Int
    <2>1. PhysOf(s) \cap bitmap = PhysOf(s)
      BY <1>7, HeldType
    <2>2. bitmap' = bitmap \ PhysOf(s) /\ g_used' = g_used - Cardinality(PhysOf(s))
      BY <1>1, <1>6, <2>1 DEF FreeEach
    <2> QED  BY <2>2, <1>3, <1>7, FreeEffect
  <1>11. TypeOK'
    BY <1>2, <1>3, <1>7, <1>9, <1>10 DEF IInv, TypeOK
  <1>12. /\ acct'[ExecB] = b /\ pte'[ExecB] = m
         /\ \A u \in Owners \ {ExecB} : acct'[u] = acct[u] /\ pte'[u] = pte[u]
    BY <1>2, <1>3 DEF IInv, TypeOK
  <1>13. \A u \in Owners : ItemsApart(acct'[u])
    BY <1>7, <1>12 DEF IInv
  <1>14. ControlInv'
    BY <1>2, <1>8, <1>12 DEF IInv, ControlInv
  <1>15. LoadInv'
    <2>1. LoadInv
      BY DEF IInv
    <2>2. ASSUME NEW x \in b.segs, NEW v \in VaOf(x)
          PROVE  m[v] = x.phys + (v - x.va)
      <3>1. x \in acct[ExecB].segs /\ VaOf(x) \cap VaOf(s) = {}
        BY <1>1, <1>2, <1>8, <2>1 DEF LoadInv
      <3>2. x \in LoadedSegment
        BY <3>1, <1>2 DEF Accounts
      <3>3. v \in Va
        BY <3>2, ProcMemAssumption DEF LoadedSegment, VaOf, Va, Run
      <3> QED  BY <3>1, <3>3, <1>2, <1>9, <2>1 DEF LoadInv
    <2> QED  BY <2>1, <2>2, <1>2, <1>8, <1>12 DEF LoadInv
  <1>16. MapInv'
    BY <1>2, <1>12 DEF IInv, MapInv
  <1> QED  BY <1>10, <1>11, <1>13, <1>14, <1>15, <1>16 DEF Preserved

\* A step that only takes an item off an account being cleared.
LEMMA ClearingStep ==
  ASSUME IInv, NEW o \in Owners, pc[o] = "teardown", Effect,
         bitmap' \in SUBSET Pool, g_used' \in Int,
         UNCHANGED <<state, pc, todo, lock>>,
         NEW b \in Accounts, acct' = [acct EXCEPT ![o] = b], ItemsApart(b),
         NEW m \in [Va -> Pool \cup {NoPage}], pte' = [pte EXCEPT ![o] = m],
         b.pt = NoPage => m = NoMap \/ (m = pte[o] /\ acct[o].pt = NoPage)
  PROVE  Preserved
  <1> USE OwnerFacts
  <1>1. TypeOK'
    BY DEF IInv, TypeOK
  <1>2. /\ acct'[o] = b /\ pte'[o] = m
        /\ \A u \in Owners \ {o} : acct'[u] = acct[u] /\ pte'[u] = pte[u]
    BY DEF IInv, TypeOK
  <1>3. \A u \in Owners : ItemsApart(acct'[u])
    BY <1>2 DEF IInv
  <1>4. o \in Procs => state[o] = "ZOMBIE"
    BY DEF IInv, ControlInv
  <1>5. ControlInv'
    BY <1>2 DEF IInv, ControlInv
  <1>6. LoadInv' /\ MapInv'
    BY <1>2, <1>4 DEF IInv, LoadInv, MapInv
  <1> QED  BY <1>1, <1>3, <1>5, <1>6 DEF Preserved

\* The table after a piece of an account was given back: exec unmaps it.
LEMMA UnmappedTable ==
  ASSUME IInv, NEW o \in Owners, pc[o] = "teardown", NEW va, NEW n, Unmapped(o, va, n)
  PROVE  \E m \in [Va -> Pool \cup {NoPage}] :
           /\ pte' = [pte EXCEPT ![o] = m]
           /\ acct[o].pt = NoPage => m = NoMap \/ m = pte[o]
  <1>1. pte \in [Owners -> [Va -> Pool \cup {NoPage}]]
    BY DEF IInv, TypeOK
  <1>2. CASE o = ExecB
    <2> DEFINE m == paging_unmap(pte[o], va, n)
    <2>1. pte' = [pte EXCEPT ![o] = m] /\ m \in [Va -> Pool \cup {NoPage}]
      BY <1>1, <1>2, UnmapType DEF Unmapped
    <2>2. acct[o].pt = NoPage => m = NoMap
      BY <1>2, UnmapEmpty DEF IInv, ControlInv
    <2> HIDE DEF m
    <2> QED  BY <2>1, <2>2
  <1>3. CASE o # ExecB
    <2>1. pte' = [pte EXCEPT ![o] = pte[o]]
      BY <1>1, <1>3 DEF Unmapped
    <2> QED  BY <1>1, <2>1
  <1> QED  BY <1>2, <1>3

\* A segment is given back by its account.
LEMMA FreeSegmentPreserves ==
  ASSUME IInv, NEW o \in Owners, FreeSegment(o)
  PROVE  Preserved
  <1> USE OwnerFacts
  <1>1. PICK s \in acct[o].segs :
          /\ IF o = ExecB THEN FreeEach(PhysOf(s)) ELSE FreePages(s.phys, s.pages)
          /\ acct' = [acct EXCEPT ![o].segs = @ \ {s}]
          /\ Unmapped(o, s.va, s.pages)
    BY DEF FreeSegment
  <1> DEFINE b == [acct[o] EXCEPT !.segs = @ \ {s}]
  <1>2. /\ acct \in [Owners -> Accounts] /\ acct[o] \in Accounts
        /\ ItemsApart(acct[o]) /\ pte \in [Owners -> [Va -> Pool \cup {NoPage}]]
        /\ pc[o] = "teardown" /\ UNCHANGED <<state, pc, todo, lock>>
    BY DEF FreeSegment, IInv, TypeOK
  <1>3. acct' = [acct EXCEPT ![o] = b]
    BY <1>1, <1>2
  <1>m. PICK m \in [Va -> Pool \cup {NoPage}] :
          /\ pte' = [pte EXCEPT ![o] = m]
          /\ acct[o].pt = NoPage => m = NoMap \/ m = pte[o]
    BY <1>1, <1>2, UnmappedTable
  <1>4. s.pages \in Nat \ {0} /\ s.phys \in Int
    BY <1>1, <1>2, ProcMemAssumption, PmmAssumption
    DEF Accounts, LoadedSegment, Pool
  <1>5. /\ b \in Accounts /\ ItemsApart(b) /\ PhysOf(s) \subseteq PagesOf(acct[o])
        /\ PagesOf(b) = PagesOf(acct[o]) \ PhysOf(s)
    BY <1>2, DropsSegment
  <1>6. b.pt = acct[o].pt
    BY <1>2 DEF Accounts
  <1> HIDE DEF b
  <1>7. bitmap' = bitmap \ PhysOf(s) /\ g_used' = g_used - Cardinality(PhysOf(s))
    <2>1. PhysOf(s) \cap bitmap = PhysOf(s) /\ PhysOf(s) \subseteq bitmap
      BY <1>5, HeldType
    <2>2. CASE o = ExecB
      BY <1>1, <2>1, <2>2 DEF FreeEach
    <2>3. CASE o # ExecB
      BY <1>1, <1>4, <2>1, <2>3, FreeReturnsPages DEF PhysOf
    <2> QED  BY <2>2, <2>3
  <1>8. Effect /\ bitmap' \in SUBSET Pool /\ g_used' \in Int
    BY <1>3, <1>5, <1>7, FreeEffect
  <1> QED  BY <1>2, <1>3, <1>m, <1>5, <1>6, <1>8, ClearingStep

\* The stack is given back page by page.
LEMMA FreeStackPreserves ==
  ASSUME IInv, NEW o \in Owners, FreeStack(o)
  PROVE  Preserved
  <1> USE OwnerFacts
  <1> DEFINE b == [acct[o] EXCEPT !.stack = NoPage]
             R == Run(acct[o].stack, StackPages)
  <1>1. /\ acct \in [Owners -> Accounts] /\ acct[o] \in Accounts
        /\ ItemsApart(acct[o]) /\ pte \in [Owners -> [Va -> Pool \cup {NoPage}]]
        /\ pc[o] = "teardown" /\ UNCHANGED <<state, pc, todo, lock>>
        /\ acct[o].stack # NoPage /\ FreeEach(R)
    BY DEF FreeStack, IInv, TypeOK
  <1>2. acct' = [acct EXCEPT ![o] = b]
    BY <1>1 DEF FreeStack
  <1>m. PICK m \in [Va -> Pool \cup {NoPage}] :
          /\ pte' = [pte EXCEPT ![o] = m]
          /\ acct[o].pt = NoPage => m = NoMap \/ m = pte[o]
    BY <1>1, UnmappedTable DEF FreeStack
  <1>3. /\ b \in Accounts /\ ItemsApart(b) /\ R \subseteq PagesOf(acct[o])
        /\ PagesOf(b) = PagesOf(acct[o]) \ R
    BY <1>1, DropsStack
  <1>4. b.pt = acct[o].pt
    BY <1>1 DEF Accounts
  <1> HIDE DEF b, R
  <1>5. bitmap' = bitmap \ R /\ g_used' = g_used - Cardinality(R)
    <2>1. R \cap bitmap = R
      BY <1>3, HeldType
    <2> QED  BY <1>1, <2>1 DEF FreeEach
  <1>6. Effect /\ bitmap' \in SUBSET Pool /\ g_used' \in Int
    BY <1>2, <1>3, <1>5, FreeEffect
  <1> QED  BY <1>1, <1>2, <1>m, <1>3, <1>4, <1>6, ClearingStep

\* The page table is given back.
LEMMA FreeTablePreserves ==
  ASSUME IInv, NEW o \in Owners, FreeTable(o)
  PROVE  Preserved
  <1> USE OwnerFacts
  <1> DEFINE b == [acct[o] EXCEPT !.pt = NoPage]
             R == Run(acct[o].pt, 1)
  <1>1. /\ acct \in [Owners -> Accounts] /\ acct[o] \in Accounts
        /\ ItemsApart(acct[o]) /\ pc[o] = "teardown"
        /\ UNCHANGED <<state, pc, todo, lock>> /\ pte' = [pte EXCEPT ![o] = NoMap]
        /\ acct[o].pt # NoPage /\ FreePages(acct[o].pt, 1)
    BY DEF FreeTable, IInv, TypeOK
  <1>2. acct' = [acct EXCEPT ![o] = b]
    BY <1>1 DEF FreeTable
  <1>3. /\ b \in Accounts /\ ItemsApart(b) /\ R \subseteq PagesOf(acct[o])
        /\ PagesOf(b) = PagesOf(acct[o]) \ R
    BY <1>1, DropsTable
  <1>4. bitmap' = bitmap \ R /\ g_used' = g_used - Cardinality(R)
    <2>1. R \subseteq bitmap
      BY <1>3, HeldType
    <2>2. acct[o].pt \in Int
      BY <1>1, PmmAssumption DEF Accounts, Pool
    <2> QED  BY <1>1, <2>1, <2>2, 1 \in Nat \ {0}, FreeReturnsPages
  <1> HIDE DEF b, R
  <1>5. Effect /\ bitmap' \in SUBSET Pool /\ g_used' \in Int
    BY <1>2, <1>3, <1>4, FreeEffect
  <1>6. NoMap \in [Va -> Pool \cup {NoPage}]
    BY DEF NoMap
  <1> QED  BY <1>1, <1>2, <1>3, <1>5, <1>6, ClearingStep

\* An account without items is the empty account.
LEMMA EmptyByFields ==
  ASSUME NEW a \in Accounts, a.pd = NoPage, a.pt = NoPage, a.stack = NoPage,
         a.segs = {}
  PROVE  a = EmptyAcct
  <1>1. a = [pd |-> a.pd, pt |-> a.pt, stack |-> a.stack, segs |-> a.segs]
    BY DEF Accounts
  <1> QED  BY <1>1 DEF EmptyAcct

\* The page directory is given back and the code is done.
LEMMA FreeDirectoryPreserves ==
  ASSUME IInv, NEW o \in Owners, FreeDirectory(o)
  PROVE  Preserved
  <1> USE OwnerFacts
  <1> DEFINE b == [acct[o] EXCEPT !.pd = NoPage]
             R == Run(acct[o].pd, 1)
  <1>1. /\ acct \in [Owners -> Accounts] /\ acct[o] \in Accounts
        /\ ItemsApart(acct[o]) /\ pc[o] = "teardown" /\ lock \in {NoLock, o}
        /\ UNCHANGED <<state, pte>> /\ lock' = NoLock
        /\ pc' = [pc EXCEPT ![o] = "idle"] /\ todo' = [todo EXCEPT ![o] = {}]
        /\ acct[o].segs = {} /\ acct[o].stack = NoPage /\ acct[o].pt = NoPage
    BY DEF FreeDirectory, Goto, Runs, IInv, TypeOK
  <1>2. acct' = [acct EXCEPT ![o] = b]
    BY <1>1 DEF FreeDirectory
  <1>3. b = EmptyAcct
    <2>1. b \in Accounts
      BY <1>1 DEF Accounts
    <2>2. b.pd = NoPage /\ b.pt = NoPage /\ b.stack = NoPage /\ b.segs = {}
      BY <1>1 DEF Accounts
    <2> HIDE DEF b
    <2> QED  BY <2>1, <2>2, EmptyByFields
  <1>4. b \in Accounts /\ ItemsApart(b)
    BY <1>3, PieceFacts DEF EmptyAcct, Accounts, ItemsApart
  <1>5. Effect /\ bitmap' \in SUBSET Pool /\ g_used' \in Int
    <2>1. CASE acct[o].pd = NoPage
      <3>1. b = acct[o] /\ bitmap' = bitmap /\ g_used' = g_used
        BY <1>1, <2>1 DEF FreeDirectory, Accounts
      <3>2. acct' = acct
        BY <1>1, <1>2, <3>1
      <3> QED  BY <3>1, <3>2, KeepEffect
    <2>2. CASE acct[o].pd # NoPage
      <3>1. /\ R \subseteq PagesOf(acct[o]) /\ PagesOf(b) = PagesOf(acct[o]) \ R
        BY <1>1, <2>2, DropsDirectory
      <3>2. bitmap' = bitmap \ R /\ g_used' = g_used - Cardinality(R)
        <4>1. R \subseteq bitmap
          BY <3>1, HeldType
        <4>2. acct[o].pd \in Int /\ FreePages(acct[o].pd, 1)
          BY <1>1, <2>2, PmmAssumption DEF FreeDirectory, Accounts, Pool
        <4> QED  BY <4>1, <4>2, 1 \in Nat \ {0}, FreeReturnsPages
      <3> HIDE DEF b, R
      <3> QED  BY <1>2, <3>1, <3>2, FreeEffect
    <2> QED  BY <2>1, <2>2
  <1> HIDE DEF b
  <1>6. TypeOK'
    BY <1>1, <1>2, <1>4, <1>5 DEF IInv, TypeOK
  <1>7. /\ acct'[o] = b /\ pc'[o] = "idle" /\ todo'[o] = {}
        /\ \A u \in Owners \ {o} : /\ acct'[u] = acct[u] /\ pc'[u] = pc[u]
                                   /\ todo'[u] = todo[u]
    BY <1>1, <1>2 DEF IInv, TypeOK
  <1>8. \A u \in Owners : ItemsApart(acct'[u])
    BY <1>4, <1>7 DEF IInv
  <1>9. /\ o \in Procs => state[o] = "ZOMBIE"
        /\ o \in {ExecB, ForkB} => pte[o] = NoMap
        /\ \A u \in Procs \ {o} : pc[u] = "idle"
        /\ o # ForkB => pc[ForkB] = "idle"
    BY <1>1 DEF IInv, ControlInv
  <1>10. ControlInv'
    BY <1>1, <1>3, <1>7, <1>9 DEF IInv, ControlInv
  <1>11. LoadInv' /\ MapInv'
    BY <1>1, <1>7, <1>9 DEF IInv, LoadInv, MapInv
  <1> QED  BY <1>5, <1>6, <1>8, <1>10, <1>11 DEF Preserved

\* process_exit begins.
LEMMA ExitPreserves ==
  ASSUME IInv, NEW t \in Procs, Exit(t)
  PROVE  Preserved
  <1> USE OwnerFacts
  <1>1. /\ UNCHANGED <<bitmap, g_used, acct, pte, todo>> /\ lock = NoLock /\ lock' = t
        /\ state[t] = "LIVE" /\ state' = [state EXCEPT ![t] = "ZOMBIE"]
        /\ pc' = [pc EXCEPT ![t] = "teardown"]
    BY DEF Exit, Goto
  <1>2. Effect
    BY <1>1, KeepEffect
  <1>3. TypeOK' /\ \A u \in Owners : ItemsApart(acct'[u])
    BY <1>1 DEF IInv, TypeOK
  <1>4. pc[ForkB] = "idle" /\ \A u \in Procs : pc[u] = "idle"
    BY <1>1 DEF IInv, ControlInv
  <1>5. /\ pc'[t] = "teardown" /\ state'[t] = "ZOMBIE"
        /\ \A u \in Owners \ {t} : pc'[u] = pc[u]
        /\ \A u \in Procs \ {t} : state'[u] = state[u]
    BY <1>1 DEF IInv, TypeOK
  <1>6. ControlInv'
    BY <1>1, <1>4, <1>5 DEF IInv, ControlInv
  <1>7. LoadInv' /\ MapInv'
    BY <1>1, <1>5 DEF IInv, LoadInv, MapInv
  <1> QED  BY <1>2, <1>3, <1>6, <1>7 DEF Preserved

\* task_wait_pid frees a slot.
LEMMA ReapPreserves ==
  ASSUME IInv, NEW t \in Procs, Reap(t)
  PROVE  Preserved
  <1> USE OwnerFacts
  <1>1. /\ UNCHANGED <<bitmap, g_used, acct, pte, pc, todo, lock>> /\ lock = NoLock
        /\ state[t] = "ZOMBIE" /\ state' = [state EXCEPT ![t] = "UNUSED"]
    BY DEF Reap
  <1>2. Effect
    BY <1>1, KeepEffect
  <1>3. TypeOK' /\ \A u \in Owners : ItemsApart(acct'[u])
    BY <1>1 DEF IInv, TypeOK
  <1>4. pc[t] = "idle"
    BY <1>1 DEF IInv, ControlInv
  <1>5. ControlInv'
    BY <1>1, <1>4 DEF IInv, TypeOK, ControlInv
  <1>6. LoadInv' /\ MapInv'
    BY <1>1 DEF IInv, TypeOK, LoadInv, MapInv
  <1> QED  BY <1>2, <1>3, <1>5, <1>6 DEF Preserved

-----------------------------------------------------------------------------
(* The theorems *)

\* The invariant holds at boot.
LEMMA InitSatisfies ==
  ASSUME Init
  PROVE  IInv
  <1> USE OwnerFacts
  <1>1. PagesOf(EmptyAcct) = {} /\ EmptyAcct \in Accounts /\ ItemsApart(EmptyAcct)
    BY PieceFacts DEF EmptyAcct, Accounts, PagesOf, ItemsApart
  <1>2. EmptyAcct.pt = NoPage /\ EmptyAcct.stack = NoPage /\ EmptyAcct.segs = {}
    BY DEF EmptyAcct
  <1>3. Held = [o \in Owners |-> {}]
    BY <1>1 DEF Init, Held
  <1>4. Cardinality(Reserved) \in Nat
    BY ReservedInPool, PoolFinite
  <1>5. TypeOK
    BY <1>1, <1>4, ReservedInPool DEF Init, PmmInit, TypeOK, NoMap
  <1>6. Ledger(bitmap, g_used, Held)
    <2>1. UNION {Held[o] : o \in Owners} = {}
      BY <1>3
    <2> QED  BY <1>3, <2>1 DEF Init, PmmInit, Ledger
  <1>7. \A o \in Owners : ItemsApart(acct[o])
    BY <1>1 DEF Init
  <1>8. ControlInv
    BY <1>2 DEF Init, ControlInv
  <1>9. LoadInv /\ MapInv
    BY DEF Init, LoadInv, MapInv
  <1> QED  BY <1>5, <1>6, <1>7, <1>8, <1>9 DEF IInv

\* Every step preserves what it has to.
LEMMA StepPreserves ==
  ASSUME PageAligned, IInv, Next
  PROVE  Preserved
  <1>1. ASSUME NEW o \in Owners, Build(o) PROVE Preserved
    BY <1>1, AllocTablePreserves, LoadSegmentPreserves, AllocStackPreserves,
       RegisterPreserves DEF Build
  <1>2. ASSUME NEW o \in Owners, Teardown(o) PROVE Preserved
    BY <1>2, FreeSegmentPreserves, FreeStackPreserves, FreeTablePreserves,
       FreeDirectoryPreserves DEF Teardown
  <1>3. ASSUME NEW t \in Procs, Exit(t) \/ Reap(t) PROVE Preserved
    BY <1>3, ExitPreserves, ReapPreserves
  <1>4. CASE ExecBegin \/ ForkBegin \/ ExecFails \/ Unwind \/ UnwindDone
    BY <1>4, ExecBeginPreserves, ForkBeginPreserves, ExecFailsPreserves,
       UnwindPreserves, UnwindDonePreserves
  <1> QED  BY <1>1, <1>2, <1>3, <1>4 DEF Next

\* The invariant is inductive.
LEMMA Inductive ==
  ASSUME PageAligned, IInv, [Next]_vars
  PROVE  IInv'
  <1>1. CASE Next
    <2>1. Preserved
      BY <1>1, StepPreserves
    <2>2. Ledger(bitmap', g_used', Held')
      BY <2>1, EffectLedger DEF Preserved
    <2> QED  BY <2>1, <2>2 DEF Preserved, IInv
  <1>2. CASE UNCHANGED vars
    BY <1>2 DEF vars, IInv, TypeOK, Ledger, Held, ControlInv, LoadInv, MapInv
  <1> QED  BY <1>1, <1>2

\* The invariant holds in every reachable state, whatever the pool, the slots
\* and the programs, as long as no two segments of a program share a page.
THEOREM MemoryInvariant ==
  ASSUME PageAligned
  PROVE  Spec => []IInv
  <1>1. Init => IInv
    BY InitSatisfies
  <1>2. IInv /\ [Next]_vars => IInv'
    BY Inductive
  <1> QED  BY <1>1, <1>2, PTL DEF Spec

\* No page leaks and none is freed while somebody accounts for it, on every
\* path through exec_spawn, elf_load, task_fork and process_exit.
THEOREM NoPageLeaks ==
  ASSUME PageAligned
  PROVE  Spec => []PagesAccounted
  <1>1. IInv => PagesAccounted
    <2> SUFFICES ASSUME IInv PROVE PagesAccounted
      OBVIOUS
    <2>1. {Held[o] : o \in Owners} = {PagesOf(acct[o]) : o \in Owners}
      BY HeldType
    <2> QED  BY <2>1 DEF IInv, Ledger, PagesAccounted
  <1> QED  BY <1>1, MemoryInvariant, PTL

\* No physical page ever belongs to two processes, or to a process and to one
\* that is being built.
THEOREM PagesExclusive ==
  ASSUME PageAligned
  PROVE  Spec => []NoSharing
  <1>1. IInv => NoSharing
    <2> SUFFICES ASSUME IInv PROVE NoSharing
      OBVIOUS
    <2> QED  BY HeldType DEF IInv, Ledger, NoSharing
  <1> QED  BY <1>1, MemoryInvariant, PTL

\* The counter behind pmm_used_pages agrees with the bitmap.
THEOREM CounterAgrees ==
  ASSUME PageAligned
  PROVE  Spec => []UsedMatches
  <1>1. IInv => UsedMatches
    BY DEF IInv, Ledger, UsedMatches
  <1> QED  BY <1>1, MemoryInvariant, PTL

\* The page table of a live process leads to pages of its own account only.
THEOREM AddressSpacesIsolated ==
  ASSUME PageAligned
  PROVE  Spec => []MapsOwnPages
  <1>1. IInv => MapsOwnPages
    BY OwnerFacts DEF IInv, MapInv, MapsOwnPages
  <1> QED  BY <1>1, MemoryInvariant, PTL

\* exec, fork and exit with all their failure paths implement the exclusive
\* ownership of pages stated in PageOwnership.
THEOREM Refinement ==
  ASSUME PageAligned
  PROVE  Spec => ImplementsOwnership
  <1>1. Init => Ownership!Init
    <2> SUFFICES ASSUME Init PROVE Ownership!Init
      OBVIOUS
    <2>1. Held = [o \in Owners |-> {}]
      BY PieceFacts DEF Init, Held, PagesOf, EmptyAcct
    <2> QED  BY <2>1 DEF Ownership!Init
  <1>2. IInv /\ [Next]_vars => [Ownership!Next]_(Ownership!vars)
    <2> SUFFICES ASSUME IInv, [Next]_vars
                 PROVE  [Ownership!Next]_(Ownership!vars)
      OBVIOUS
    <2>1. CASE Next
      <3>1. Effect
        BY <2>1, StepPreserves DEF Preserved
      <3> QED  BY <3>1, EffectRefines
    <2>2. CASE UNCHANGED vars
      BY <2>2 DEF vars, Held, Ownership!vars
    <2> QED  BY <2>1, <2>2
  <1> QED
    BY <1>1, <1>2, MemoryInvariant, PTL DEF Spec, ImplementsOwnership, Ownership!Spec
=============================================================================
