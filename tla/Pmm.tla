-------------------------------- MODULE Pmm --------------------------------
(***************************************************************************)
(* The physical page allocator of kernel/pmm.c: one bit per page of the    *)
(* pool and a counter of allocated pages.  Every function works with       *)
(* interrupts off (irq_save_disable), so each call is indivisible.  Pages  *)
(* are numbered from the start of the pool.                                *)
(***************************************************************************)
EXTENDS Integers, FiniteSets

CONSTANTS
  PoolPages,   \* PMM_POOL_PAGES
  Firmware     \* the UEFI memory map: descriptors [type, start, pages], with
               \* start relative to the pool

ASSUME PmmAssumption ==
  /\ PoolPages \in Nat \ {0}
  /\ Firmware \in SUBSET [type : Nat, start : Int, pages : Nat]

VARIABLES
  bitmap,      \* the pages whose bit is set
  g_used       \* number of allocated pages

Pool == 0 .. PoolPages - 1
NoPage == -1                    \* the null physical address

Run(first, n) == first .. first + n - 1

\* Descriptor types the kernel may use: loader and boot services memory.
Reusable(type) == type \in 1 .. 4

\* The pages pmm_apply_uefi_map marks as allocated at boot.
Reserved ==
  {p \in Pool : \E d \in Firmware :
                  ~Reusable(d.type) /\ p \in Run(d.start, d.pages)}

\* pmm_init, then pmm_apply_uefi_map.
PmmInit ==
  /\ bitmap = Reserved
  /\ g_used = Cardinality(Reserved)

\* n free pages start at page f.
FitsAt(f, n) == Run(f, n) \subseteq Pool \ bitmap

CanAlloc(n) == n > 0 /\ \E f \in Pool : FitsAt(f, n)

\* First fit: the scan for n consecutive clear bits stops at the lowest one.
FirstFit(n) ==
  CHOOSE f \in Pool : FitsAt(f, n) /\ \A g \in Pool : FitsAt(g, n) => f <= g

\* pmm_alloc_pages(n) returns r.
AllocPages(n, r) ==
  \/ /\ CanAlloc(n)
     /\ r = FirstFit(n)
     /\ bitmap' = bitmap \cup Run(r, n)
     /\ g_used' = g_used + n
  \/ /\ ~CanAlloc(n)
     /\ r = NoPage
     /\ UNCHANGED <<bitmap, g_used>>

\* pmm_free_pages(f, n): refused as a whole when a page of the run is outside
\* the pool or free already.
FreePages(f, n) ==
  LET ok == n > 0 /\ Run(f, n) \subseteq bitmap
  IN /\ bitmap' = IF ok THEN bitmap \ Run(f, n) ELSE bitmap
     /\ g_used' = IF ok THEN g_used - n ELSE g_used

\* pmm_free_page for every page of S: a page that is free already is refused.
FreeEach(S) ==
  /\ bitmap' = bitmap \ S
  /\ g_used' = g_used - Cardinality(S \cap bitmap)
=============================================================================
