------------------------------ MODULE ProcMem ------------------------------
(***************************************************************************)
(* The physical memory of user processes: exec_spawn (kernel/exec.c) with  *)
(* elf_load and its unwind (kernel/elf.c), task_fork and process_exit      *)
(* (kernel/task.c), each recorded as the sequence of calls it makes to the *)
(* page allocator, every one of which may fail.                            *)
(*                                                                         *)
(* exec runs in the shell with interrupts on until it borrows the kernel's *)
(* page directory under task_lock; fork and exit run with interrupts off.  *)
(* lock names the code inside such a section.  Code that builds a process  *)
(* keeps its account in local variables: the owners ExecB and ForkB.       *)
(***************************************************************************)
EXTENDS Pmm

CONSTANTS
  MaxProcs,    \* task slots for processes
  VaPages,     \* pages of the user area; the stack is at its top
  StackPages,  \* USER_STACK_PAGES
  Images       \* the files: each a set of program headers [va, pages], va
               \* counted in pages from the start of the user area

Va == 0 .. VaPages - 1
Segment == {s \in [va : Va, pages : 1 .. VaPages] : s.va + s.pages <= VaPages}

ASSUME ProcMemAssumption ==
  /\ MaxProcs \in Nat \ {0}
  /\ VaPages \in Nat \ {0}
  /\ StackPages \in 1 .. VaPages
  /\ Images \in SUBSET SUBSET [va : Int, pages : Nat]

Procs == 1 .. MaxProcs
ExecB == -1
ForkB == -2
Owners == Procs \cup {ExecB, ForkB}
NoLock == 0

VARIABLES
  state,       \* of each slot: UNUSED, LIVE or ZOMBIE
  acct,        \* what an owner has on its account (pd_phys, pt_phys,
               \* user_stack_phys and img of task_t, or local variables)
  pte,         \* the private page table of an owner
  pc,          \* where the owner's code is
  todo,        \* segments still to be loaded or copied
  lock         \* whose code runs with interrupts off

vars == <<bitmap, g_used, state, acct, pte, pc, todo, lock>>

EmptyAcct == [pd |-> NoPage, pt |-> NoPage, stack |-> NoPage, segs |-> {}]
NoMap == [v \in Va |-> NoPage]

\* The pages of a segment in the address space and in memory.
VaOf(s) == Run(s.va, s.pages)
PhysOf(s) == Run(s.phys, s.pages)

\* The stack is at the top of the user area.
StackBase == VaPages - StackPages

-----------------------------------------------------------------------------
(* Page tables and program images *)

\* Faulty variant: the loop over the pages runs once too often.
paging_mapBeyond(m, va, n, phys) ==
  [v \in Va |-> IF v \in Run(va, n + 1) THEN phys + (v - va) ELSE m[v]]

\* n consecutive pages are mapped, over whatever the table holds.  The page
\* table exists: exec has put it into the directory.
paging_map(m, va, n, phys) ==
  [v \in Va |-> IF v \in Run(va, n) THEN phys + (v - va) ELSE m[v]]

paging_unmap(m, va, n) == [v \in Va |-> IF v \in Run(va, n) THEN NoPage ELSE m[v]]

\* The pages mapped in a range.
paging_query(m, va, n) == {m[v] : v \in Run(va, n)} \ {NoPage}

\* [start, start + len) is inside [lo, hi).
range_in(start, len, lo, hi) ==
  /\ lo <= start /\ start < hi
  /\ len > 0 => len <= hi - start

\* What of elf_validate matters here: there are headers, and those that are
\* not empty stay inside the user area.
elf_validate(img) ==
  /\ img # {}
  /\ \A s \in img : s.pages > 0 => range_in(s.va, s.pages, 0, VaPages)

\* elf_load skips empty headers.
Loaded(img) == {s \in img : s.pages > 0}

Init ==
  /\ PmmInit
  /\ state = [t \in Procs |-> "UNUSED"]
  /\ acct = [o \in Owners |-> EmptyAcct]
  /\ pte = [o \in Owners |-> NoMap]
  /\ pc = [o \in Owners |-> "idle"]
  /\ todo = [o \in Owners |-> {}]
  /\ lock = NoLock

\* The code of owner o can take a step.
Runs(o) == lock \in {NoLock, o}

Goto(o, label) == pc' = [pc EXCEPT ![o] = label]

FreeSlots == {t \in Procs : state[t] = "UNUSED"}

-----------------------------------------------------------------------------
(* Building a process: exec_spawn and task_fork *)

\* exec_spawn has read an image and found it valid; it asks for a page
\* directory.
ExecBegin ==
  /\ Runs(ExecB) /\ pc[ExecB] = "idle"
  /\ \E img \in Images : elf_validate(img) /\ todo' = [todo EXCEPT ![ExecB] = Loaded(img)]
  /\ \E r \in Pool \cup {NoPage} :
       /\ AllocPages(1, r)
       /\ acct' = [acct EXCEPT ![ExecB].pd = r]
  /\ Goto(ExecB, "pt")
  /\ UNCHANGED <<state, pte, lock>>

\* task_fork takes the lock, looks for a slot and asks for a page directory.
ForkBegin ==
  /\ lock = NoLock /\ FreeSlots # {}
  /\ \E t \in Procs :
       /\ state[t] = "LIVE"
       /\ todo' = [todo EXCEPT ![ForkB] =
                     {[va |-> s.va, pages |-> s.pages] : s \in acct[t].segs}]
  /\ \E r \in Pool \cup {NoPage} :
       /\ AllocPages(1, r)
       /\ acct' = [acct EXCEPT ![ForkB].pd = r]
  /\ Goto(ForkB, "pt")
  /\ lock' = ForkB
  /\ UNCHANGED <<state, pte>>

\* The page table.  With both pages at hand exec borrows PD[1] under
\* task_lock; otherwise the one page it got is given back.
AllocTable(o) ==
  /\ Runs(o) /\ pc[o] = "pt"
  /\ \E r \in Pool \cup {NoPage} :
       /\ AllocPages(1, r)
       /\ acct' = [acct EXCEPT ![o].pt = r]
       /\ IF r = NoPage \/ acct[o].pd = NoPage
          THEN Goto(o, "teardown") /\ UNCHANGED lock
          ELSE Goto(o, "segs") /\ lock' = o
  /\ UNCHANGED <<state, pte, todo>>

\* One segment: consecutive pages, mapped one by one over whatever the page
\* table holds, then entered in the account.
LoadSegment(o) ==
  /\ Runs(o) /\ pc[o] = "segs"
  /\ \E s \in todo[o] : \E r \in Pool \cup {NoPage} :
       /\ AllocPages(s.pages, r)
       /\ IF r = NoPage
          THEN /\ Goto(o, IF o = ExecB THEN "unwind" ELSE "teardown")
               /\ UNCHANGED <<acct, pte, todo>>
          ELSE /\ acct' = [acct EXCEPT ![o].segs = @ \cup
                             {[va |-> s.va, pages |-> s.pages, phys |-> r]}]
               /\ pte' = [pte EXCEPT ![o] = paging_map(@, s.va, s.pages, r)]
               /\ todo' = [todo EXCEPT ![o] = @ \ {s}]
               /\ UNCHANGED pc
  /\ UNCHANGED <<state, lock>>

\* The user stack.
AllocStack(o) ==
  /\ Runs(o) /\ pc[o] = "segs" /\ todo[o] = {}
  /\ \E r \in Pool \cup {NoPage} :
       /\ AllocPages(StackPages, r)
       /\ acct' = [acct EXCEPT ![o].stack = r]
       /\ IF r = NoPage
          THEN Goto(o, "teardown") /\ UNCHANGED pte
          ELSE /\ Goto(o, "register")
               /\ pte' = [pte EXCEPT ![o] = paging_map(@, StackBase, StackPages, r)]
  /\ UNCHANGED <<state, todo, lock>>

\* The account goes to the task table and interrupts are enabled again.
Register(o) ==
  /\ Runs(o) /\ pc[o] = "register"
  /\ \E t \in FreeSlots :
       /\ \A u \in FreeSlots : t <= u
       /\ state' = [state EXCEPT ![t] = "LIVE"]
       /\ acct' = [acct EXCEPT ![t] = acct[o], ![o] = EmptyAcct]
       /\ pte' = [pte EXCEPT ![t] = pte[o], ![o] = NoMap]
  /\ Goto(o, "idle")
  /\ lock' = NoLock
  /\ UNCHANGED <<bitmap, g_used, todo>>

\* exec_spawn finds that the arguments do not fit on the stack, or that there
\* is no free slot.
ExecFails ==
  /\ Runs(ExecB) /\ pc[ExecB] = "register"
  /\ Goto(ExecB, "teardown")
  /\ UNCHANGED <<bitmap, g_used, state, acct, pte, todo, lock>>

-----------------------------------------------------------------------------
(* Giving pages back *)

\* Faulty variant: the pages of the segment are not freed.
UnwindKeep ==
  /\ Runs(ExecB) /\ pc[ExecB] = "unwind"
  /\ \E s \in acct[ExecB].segs :
       /\ acct' = [acct EXCEPT ![ExecB].segs = @ \ {s}]
       /\ pte' = [pte EXCEPT ![ExecB] = paging_unmap(@, s.va, s.pages)]
  /\ UNCHANGED <<bitmap, g_used, state, pc, todo, lock>>

\* unwind, after a segment got no memory: frees what the page table says is
\* mapped where the loaded segments are.
Unwind ==
  /\ Runs(ExecB) /\ pc[ExecB] = "unwind"
  /\ \E s \in acct[ExecB].segs :
       /\ FreeEach(paging_query(pte[ExecB], s.va, s.pages))
       /\ acct' = [acct EXCEPT ![ExecB].segs = @ \ {s}]
       /\ pte' = [pte EXCEPT ![ExecB] = paging_unmap(@, s.va, s.pages)]
  /\ UNCHANGED <<state, pc, todo, lock>>

UnwindDone ==
  /\ Runs(ExecB) /\ pc[ExecB] = "unwind" /\ acct[ExecB].segs = {}
  /\ Goto(ExecB, "teardown")
  /\ UNCHANGED <<bitmap, g_used, state, acct, pte, todo, lock>>

\* exec gives back pages that are still mapped, and unmaps them.  fork and
\* exit drop the whole page table instead.
Unmapped(o, va, n) ==
  pte' = IF o = ExecB THEN [pte EXCEPT ![o] = paging_unmap(@, va, n)] ELSE pte

\* A segment by its account: elf_unload page by page, the others as a block.
FreeSegment(o) ==
  /\ Runs(o) /\ pc[o] = "teardown"
  /\ \E s \in acct[o].segs :
       /\ IF o = ExecB THEN FreeEach(PhysOf(s)) ELSE FreePages(s.phys, s.pages)
       /\ acct' = [acct EXCEPT ![o].segs = @ \ {s}]
       /\ Unmapped(o, s.va, s.pages)
  /\ UNCHANGED <<state, pc, todo, lock>>

FreeStack(o) ==
  /\ Runs(o) /\ pc[o] = "teardown" /\ acct[o].segs = {}
  /\ acct[o].stack # NoPage
  /\ FreeEach(Run(acct[o].stack, StackPages))
  /\ acct' = [acct EXCEPT ![o].stack = NoPage]
  /\ Unmapped(o, StackBase, StackPages)
  /\ UNCHANGED <<state, pc, todo, lock>>

FreeTable(o) ==
  /\ Runs(o) /\ pc[o] = "teardown" /\ acct[o].segs = {}
  /\ acct[o].stack = NoPage /\ acct[o].pt # NoPage
  /\ FreePages(acct[o].pt, 1)
  /\ acct' = [acct EXCEPT ![o].pt = NoPage]
  /\ pte' = [pte EXCEPT ![o] = NoMap]
  /\ UNCHANGED <<state, pc, todo, lock>>

\* Faulty variant: the page directory is forgotten, not freed.
FreeDirectoryForgets(o) ==
  /\ Runs(o) /\ pc[o] = "teardown" /\ acct[o].segs = {}
  /\ acct[o].stack = NoPage /\ acct[o].pt = NoPage
  /\ UNCHANGED <<bitmap, g_used>>
  /\ acct' = [acct EXCEPT ![o].pd = NoPage]
  /\ todo' = [todo EXCEPT ![o] = {}]
  /\ Goto(o, "idle")
  /\ lock' = NoLock
  /\ UNCHANGED <<state, pte>>

\* The page directory, the last item of every account; then interrupts may
\* come again.
FreeDirectory(o) ==
  /\ Runs(o) /\ pc[o] = "teardown" /\ acct[o].segs = {}
  /\ acct[o].stack = NoPage /\ acct[o].pt = NoPage
  /\ IF acct[o].pd = NoPage THEN UNCHANGED <<bitmap, g_used>>
                            ELSE FreePages(acct[o].pd, 1)
  /\ acct' = [acct EXCEPT ![o].pd = NoPage]
  /\ todo' = [todo EXCEPT ![o] = {}]
  /\ Goto(o, "idle")
  /\ lock' = NoLock
  /\ UNCHANGED <<state, pte>>

\* process_exit: ZOMBIE, then everything on the account.
Exit(t) ==
  /\ lock = NoLock /\ state[t] = "LIVE"
  /\ state' = [state EXCEPT ![t] = "ZOMBIE"]
  /\ Goto(t, "teardown")
  /\ lock' = t
  /\ UNCHANGED <<bitmap, g_used, acct, pte, todo>>

\* task_wait_pid frees the slot of a process that has left the CPU.
Reap(t) ==
  /\ lock = NoLock /\ state[t] = "ZOMBIE"
  /\ state' = [state EXCEPT ![t] = "UNUSED"]
  /\ UNCHANGED <<bitmap, g_used, acct, pte, pc, todo, lock>>

Build(o) == AllocTable(o) \/ LoadSegment(o) \/ AllocStack(o) \/ Register(o)

Teardown(o) == FreeSegment(o) \/ FreeStack(o) \/ FreeTable(o) \/ FreeDirectory(o)

Next ==
  \/ ExecBegin \/ ForkBegin \/ ExecFails \/ Unwind \/ UnwindDone
  \/ \E o \in Owners : Build(o) \/ Teardown(o)
  \/ \E t \in Procs : Exit(t) \/ Reap(t)

Spec == Init /\ [][Next]_vars

-----------------------------------------------------------------------------
(* Properties *)

Piece(p, n) == IF p = NoPage THEN {} ELSE Run(p, n)

\* The pages on an account.
PagesOf(a) ==
  Piece(a.pd, 1) \cup Piece(a.pt, 1) \cup Piece(a.stack, StackPages)
  \cup UNION {PhysOf(s) : s \in a.segs}

LoadedSegment == {s \in [va : Va, pages : 1 .. VaPages, phys : Pool] :
                    s.va + s.pages <= VaPages}

Accounts ==
  [pd : Pool \cup {NoPage}, pt : Pool \cup {NoPage}, stack : Pool \cup {NoPage},
   segs : SUBSET LoadedSegment]

\* The types of the allocator, the accounts and the page tables.
TypeOK ==
  /\ bitmap \in SUBSET Pool
  /\ g_used \in Int
  /\ state \in [Procs -> {"UNUSED", "LIVE", "ZOMBIE"}]
  /\ acct \in [Owners -> Accounts]
  /\ pte \in [Owners -> [Va -> Pool \cup {NoPage}]]
  /\ pc \in [Owners -> {"idle", "pt", "segs", "register", "unwind", "teardown"}]
  /\ todo \in [Owners -> SUBSET Segment]
  /\ lock \in Owners \cup {NoLock}

\* Every allocated page is firmware's or on somebody's account, and no page on
\* an account is free: nothing leaks on any path through exec_spawn, task_fork
\* and process_exit, whichever allocation fails, and nothing is freed early.
PagesAccounted ==
  bitmap = Reserved \cup UNION {PagesOf(acct[o]) : o \in Owners}

\* When exec is not under way no page is allocated that nobody accounts for: an
\* image that fails to load leaves nothing behind.
NothingLeftBehind ==
  pc[ExecB] = "idle" =>
    bitmap \subseteq Reserved \cup UNION {PagesOf(acct[o]) : o \in Owners}

\* No page has two owners.
NoSharing ==
  \A o, u \in Owners : o # u => PagesOf(acct[o]) \cap PagesOf(acct[u]) = {}

\* pmm_used_pages agrees with the bitmap.
UsedMatches == g_used = Cardinality(bitmap)

\* A live process sees only its own memory: every entry of its page table is a
\* page on its own account.
MapsOwnPages ==
  \A t \in Procs : state[t] = "LIVE" =>
    \A v \in Va : pte[t][v] # NoPage => pte[t][v] \in PagesOf(acct[t])

-----------------------------------------------------------------------------
(* Refinement: the accounts implement exclusive ownership of pages. *)

Held == [o \in Owners |-> PagesOf(acct[o])]

Ownership == INSTANCE PageOwnership
               WITH Pages <- Pool, Users <- Owners,
                    free <- Pool \ bitmap, held <- Held

\* Every call exec_spawn, elf_load, task_fork and process_exit make to the
\* allocator grants free pages to their caller, releases pages the caller
\* holds, or hands a complete account to an empty slot.
ImplementsOwnership == Ownership!Spec

-----------------------------------------------------------------------------
(* The inductive invariant, for images whose segments share no page. *)

PageAligned ==
  \A img \in Images : \A s, u \in Loaded(img) : s # u => VaOf(s) \cap VaOf(u) = {}

\* B is what is allocated, f what each owner holds, U the counter.
Ledger(B, U, f) ==
  /\ B = Reserved \cup UNION {f[o] : o \in Owners}
  /\ \A o \in Owners : f[o] \cap Reserved = {}
  /\ \A o, u \in Owners : o # u => f[o] \cap f[u] = {}
  /\ U = Cardinality(B)

\* The items of one account do not overlap.
ItemsApart(a) ==
  /\ Piece(a.pd, 1) \cap Piece(a.pt, 1) = {}
  /\ Piece(a.stack, StackPages) \cap (Piece(a.pd, 1) \cup Piece(a.pt, 1)) = {}
  /\ \A s \in a.segs :
       /\ PhysOf(s) \cap Piece(a.pd, 1) = {}
       /\ PhysOf(s) \cap Piece(a.pt, 1) = {}
       /\ PhysOf(s) \cap Piece(a.stack, StackPages) = {}
       /\ \A u \in a.segs : s # u => PhysOf(s) \cap PhysOf(u) = {}

\* What an account holds at each label of the code that builds or clears it.
ControlInv ==
  /\ \A o \in Owners :
       /\ pc[o] = "pt" => /\ acct[o].pt = NoPage /\ acct[o].stack = NoPage
                          /\ acct[o].segs = {}
       /\ pc[o] \in {"segs", "unwind"} => acct[o].stack = NoPage
  /\ \A o \in {ExecB, ForkB} :
       /\ pc[o] = "idle" => acct[o] = EmptyAcct
       /\ pc[o] \in {"idle", "pt"} => pte[o] = NoMap
       /\ pc[o] \in {"segs", "unwind", "register"} => acct[o].pt # NoPage
       /\ pc[o] = "teardown" /\ acct[o].pt = NoPage => pte[o] = NoMap
  /\ pc[ForkB] # "idle" => lock = ForkB
  /\ pc[ForkB] # "unwind"
  /\ \A t \in Procs :
       /\ pc[t] \in {"idle", "teardown"}
       /\ pc[t] = "teardown" => lock = t /\ state[t] = "ZOMBIE"
       /\ state[t] # "LIVE" /\ pc[t] = "idle" => acct[t] = EmptyAcct

\* While exec loads, its page table says exactly where its segments are.
LoadInv ==
  /\ pc[ExecB] \in {"pt", "segs", "unwind"} =>
       /\ \A s, u \in acct[ExecB].segs : s # u => VaOf(s) \cap VaOf(u) = {}
       /\ \A s \in acct[ExecB].segs, u \in todo[ExecB] : VaOf(s) \cap VaOf(u) = {}
       /\ \A s, u \in todo[ExecB] : s # u => VaOf(s) \cap VaOf(u) = {}
  /\ pc[ExecB] \in {"segs", "unwind"} =>
       \A s \in acct[ExecB].segs : \A v \in VaOf(s) :
         pte[ExecB][v] = s.phys + (v - s.va)

\* A page table under construction or in use refers to its own account only.
MapInv ==
  \A o \in Owners :
    \/ o \in Procs /\ state[o] = "LIVE"
    \/ o \in {ExecB, ForkB} /\ pc[o] \in {"segs", "register"}
    => \A v \in Va : pte[o][v] # NoPage => pte[o][v] \in PagesOf(acct[o])

IInv ==
  /\ TypeOK
  /\ Ledger(bitmap, g_used, Held)
  /\ \A o \in Owners : ItemsApart(acct[o])
  /\ ControlInv
  /\ LoadInv
  /\ MapInv
=============================================================================
