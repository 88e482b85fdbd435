-------------------------------- MODULE Fat --------------------------------
(***************************************************************************)
(* The FAT12/16/32 driver, kernel/fat.c, one operator per function.  A     *)
(* cluster is the unit of data; the allocation table is one sector, which  *)
(* the driver keeps in fat_cache and writes through.  A directory is a     *)
(* sequence of blocks (the fixed root area of FAT12/16, or a chain of      *)
(* clusters) of SlotsPerBlock entries.  Reads do not fail here.            *)
(*                                                                         *)
(* mem: type (fat_type), fat (fat_cache), hint (alloc_hint), stack         *)
(* (dir_stack[1 .. dir_depth]; its top is current_dir_cluster).            *)
(* A path is [abs, comps]; names are compared up to case by the caller.    *)
(***************************************************************************)
EXTENDS DiskCall, FiniteSets, FiniteSetsExt

CONSTANTS
    FatClusters,      \* fi.cluster_count
    SlotsPerBlock,    \* directory entries in a block
    RootBlocks,       \* blocks of the fixed root area (FAT12/16)
    LfnSlots          \* [name -> long-name entries it needs]

FatClu == 2..(FatClusters + 1)
Eoc    == FatClusters + 2           \* fat_eoc_val; also 0xFFFFFFFF of fat_entry_get
FatSec == <<"fat", 1>>

End              == [k |-> "end"]                        \* first byte 0x00
Del              == [k |-> "del"]                        \* DELETED_ENTRY
Lfn(name, n)     == [k |-> "lfn", name |-> name, ord |-> n]
Short(name, first, size, isDir) ==
    [k |-> "short", name |-> name, first |-> first, size |-> size, dir |-> isDir]
DirBlock(slots)  == [k |-> "dir", slots |-> slots]
DataBlock(v)     == [k |-> "data", v |-> v]
EmptyBlock       == DirBlock([i \in 1..SlotsPerBlock |-> End])

(***************************************************************************)
(* Chains and directories.                                                 *)
(***************************************************************************)
After(fat, c) == IF c \in FatClu THEN fat[c] ELSE Eoc
Chain(fat, first) ==
    LET at[i \in 1..(FatClusters + 2)] == IF i = 1 THEN first ELSE After(fat, at[i - 1])
    IN  SelectSeq(at, LAMBDA c : c \in FatClu)

FatRoot(m) == IF m.type = 32 THEN 2 ELSE 0
FatCwd(m)  == IF m.stack = <<>> THEN FatRoot(m) ELSE Last(m.stack)

Blocks(chain) == [i \in DOMAIN chain |-> <<"c", chain[i]>>]

\* fat_dir_block / fat_dir_walk: the blocks of a directory in order.
DirBlocks(m, dir) ==
    IF dir = 0 /\ m.type # 32
    THEN [i \in 1..RootBlocks |-> <<"root", i>>]
    ELSE Blocks(Chain(m.fat, dir))

SlotsOf(b) == IF b.k = "dir" THEN b.slots ELSE EmptyBlock.slots

\* The name dirent_from_short shows: the long name when its entries stand,
\* in order, just before the short one in the same block, else the alias.
ShownName(slots, i) ==
    LET e == slots[i]
        n == IF e.name \in DOMAIN LfnSlots THEN LfnSlots[e.name] ELSE 0
    IN  IF \A j \in 1..n : i > j /\ slots[i - j] = Lfn(e.name, j)
        THEN e.name ELSE "alias"

\* fat_dir_foreach: the short entries before the first end mark.
UpToEnd(all) ==
    LET ends == {k \in DOMAIN all : all[k].e = End}
    IN  SubSeq(all, 1, IF ends = {} THEN Len(all) ELSE Min(ends) - 1)
ShortOnes(all) == SelectSeq(UpToEnd(all), LAMBDA x : x.e.k = "short")
InBlock(b, slots) ==
    [i \in 1..SlotsPerBlock |->
        [at |-> b, i |-> i, e |-> slots[i],
         name |-> IF slots[i].k = "short" THEN ShownName(slots, i) ELSE ""]]
InBlocks(d, bs) == FlattenSeq([j \in DOMAIN bs |-> InBlock(bs[j], SlotsOf(d[bs[j]]))])
Entries(d, m, dir) == ShortOnes(InBlocks(d, DirBlocks(m, dir)))

\* fat_find_entry: the first entry of that name, or nothing.
FirstOf(hits) == IF hits = <<>> THEN <<>> ELSE <<hits[1]>>
FindEntry(d, m, dir, name) ==
    FirstOf(SelectSeq(Entries(d, m, dir), LAMBDA x : x.name = name))

IsDot(name) == name \in {".", ".."}

\* fat_resolve_dir: `..' goes up only as far as the path itself came down.
Walk(w, name, hit) ==
    CASE ~w.ok        -> w
      [] name = "."   -> w
      [] name = ".."  -> IF w.stack = <<>> THEN [w EXCEPT !.ok = FALSE]
                         ELSE [w EXCEPT !.cur = Last(w.stack), !.stack = Front(w.stack)]
      [] OTHER        -> IF hit = <<>> \/ ~hit[1].e.dir THEN [w EXCEPT !.ok = FALSE]
                         ELSE [w EXCEPT !.stack = Append(@, w.cur), !.cur = hit[1].e.first]
FatResolveDir(d, m, abs, comps) ==
    FoldLeft(LAMBDA w, name : Walk(w, name, FindEntry(d, m, w.cur, name)),
             [ok |-> TRUE, stack |-> <<>>, cur |-> IF abs THEN FatRoot(m) ELSE FatCwd(m)], comps)

\* fat_resolve_leaf: the parent directory; a path that ends in `/' fails.
FatResolveLeaf(d, m, path) ==
    IF path.comps = <<>> THEN [ok |-> FALSE]
    ELSE FatResolveDir(d, m, path.abs, Front(path.comps))

FatLookupIn(d, m, w, name) == IF w.ok THEN FindEntry(d, m, w.cur, name) ELSE <<>>
FatLookup(d, m, path) == FatLookupIn(d, m, FatResolveLeaf(d, m, path), Last(path.comps))

(***************************************************************************)
(* The allocation table: written through a cache that keeps the new value  *)
(* even when the write fails.                                              *)
(***************************************************************************)
WriteFat(s) == Write(s, FatSec, s.mem.fat)
SetFat(s, n, v) == WriteFat([s EXCEPT !.mem.fat[n] = v])

\* The clusters in the order of the search; the one it comes to first.
FromHint(m, i) == 2 + ((m.hint - 2 + i) % FatClusters)
Allotted(c) == [c |-> c, hint |-> IF c = FatClusters + 1 THEN 2 ELSE c + 1]

\* Faulty variant: only the end mark counts as used.
AllocClusterTaken(m) ==
    LET free == {i \in 0..(FatClusters - 1) : m.fat[FromHint(m, i)] # Eoc}
    IN  IF free = {} THEN [c |-> 0, hint |-> m.hint] ELSE Allotted(FromHint(m, Min(free)))

\* fat_alloc_cluster: next fit from the hint; 0 when the volume is full.
AllocCluster(m) ==
    LET free == {i \in 0..(FatClusters - 1) : m.fat[FromHint(m, i)] = 0}
    IN  IF free = {} THEN [c |-> 0, hint |-> m.hint] ELSE Allotted(FromHint(m, Min(free)))

\* fat_free_chain: stops at the first write that fails; no caller looks at it.
Lowered(s, first) == IF s.err THEN s ELSE [s EXCEPT !.mem.hint = IF first < @ THEN first ELSE @]
FreeChain(s, first) ==
    Ok(FoldLeft(LAMBDA t, c : IF t.err THEN t ELSE Lowered(SetFat(t, c, 0), first),
                Ok(s), Chain(s.mem.fat, first)))

\* Faulty variant: the new chain is forgotten.
GiveBackNothing(s) == s

\* The clean-up of the error paths: the new chain goes back.
GiveBack(s) == FreeChain(s, s.r.first)

(***************************************************************************)
(* Directory entries.                                                      *)
(***************************************************************************)
WriteSlot(s, at, i, e) == Write(s, at, DirBlock([SlotsOf(s.disk[at]) EXCEPT ![i] = e]))

\* fat_find_free_slots: the first run of `need' free slots inside one block;
\* a directory that is a chain grows by a cluster, the root area does not.
Fits(slots, i, need) ==
    /\ i + need - 1 <= SlotsPerBlock
    /\ \A j \in i..(i + need - 1) : slots[j].k \in {"end", "del"}
BlockOf(k) == ((k - 1) \div SlotsPerBlock) + 1
SlotOf(k)  == ((k - 1) % SlotsPerBlock) + 1
FirstFit(d, bs, need) ==
    LET fit == {k \in 1..(Len(bs) * SlotsPerBlock) : Fits(SlotsOf(d[bs[BlockOf(k)]]), SlotOf(k), need)}
    IN  IF fit = {} THEN <<>> ELSE <<bs[BlockOf(Min(fit))], SlotOf(Min(fit))>>

GrowDirBy(s, dir, a) ==
    LET s1 == SetFat([s EXCEPT !.mem.hint = a.hint], Last(Chain(s.mem.fat, dir)), a.c)
        s2 == Then(Or(s1, GiveBack), LAMBDA t : SetFat(t, a.c, Eoc))
        s3 == Then(Or(s2, GiveBack), LAMBDA t : Write(t, <<"c", a.c>>, EmptyBlock))
    IN  IF dir < 2 \/ a.c = 0 THEN Fail(GiveBack(s))
        ELSE [Or(s3, GiveBack) EXCEPT !.r.at = <<"c", a.c>>, !.r.i = 1]

UseSlots(s, dir, at) ==
    IF at = <<>> THEN GrowDirBy(s, dir, AllocCluster(s.mem)) ELSE [s EXCEPT !.r.at = at[1], !.r.i = at[2]]
FindFreeSlots(s, dir, need) == UseSlots(s, dir, FirstFit(s.disk, DirBlocks(s.mem, dir), need))

\* write_dir_entries: the long-name entries, last part first, then the short one.
WriteDirEntries(s, e) ==
    LET n == LfnSlots[e.name]
        t == Loop(s, n, LAMBDA u, j :
                Or(WriteSlot(u, s.r.at, s.r.i + j - 1, Lfn(e.name, n - j + 1)), GiveBack))
    IN  Then(t, LAMBDA u : Or(WriteSlot(u, s.r.at, s.r.i + n, e), GiveBack))

(***************************************************************************)
(* Calls.                                                                  *)
(***************************************************************************)
FatLocals == [first |-> 0, prev |-> 0, at |-> FatSec, i |-> 0]
FatBegin(d, m, f) == Begin(d, m, FatLocals, f)

\* One turn of the allocation loop of fat_create_file: mark, then link.
TakeOne(s, a) ==
    LET s1 == Or(SetFat([s EXCEPT !.mem.hint = a.hint], a.c, Eoc), GiveBack)
        s2 == Then(s1, LAMBDA t : Or(SetFat(t, s.r.prev, a.c),
                                     LAMBDA u : FreeChain(FreeChain(u, s.r.first), a.c)))
    IN  CASE a.c = 0       -> Fail(GiveBack(s))
          [] s.r.first = 0 -> [s1 EXCEPT !.r.first = a.c, !.r.prev = a.c]
          [] OTHER         -> [s2 EXCEPT !.r.prev = a.c]
AllocOne(s, i) == TakeOne(s, AllocCluster(s.mem))

WriteData(s, data) ==
    LET ch == Chain(s.mem.fat, s.r.first)
    IN  Loop(s, Len(data), LAMBDA t, i : Or(Write(t, <<"c", ch[i]>>, DataBlock(data[i])), GiveBack))

\* Faulty variant: the entry is written before the data.
FatCreateEntryFirst(s, path, data) ==
    LET w  == FatResolveLeaf(s.disk, s.mem, path)
        s1 == Loop([s EXCEPT !.ret = 0, !.r = FatLocals], Len(data), AllocOne)
        s2 == Then(s1, LAMBDA t : FindFreeSlots(t, w.cur, 1 + LfnSlots[Last(path.comps)]))
        s3 == Then(s2, LAMBDA t : WriteDirEntries(t, Short(Last(path.comps), t.r.first, Len(data), FALSE)))
    IN  IF ~w.ok \/ FatLookup(s.disk, s.mem, path) # <<>> THEN Fail(s)
        ELSE Then(s3, LAMBDA t : WriteData(t, data))

\* fat_create_file: data chain, data, directory slot, directory entry.
FatCreate(s, path, data) ==
    LET w  == FatResolveLeaf(s.disk, s.mem, path)
        s1 == Loop([s EXCEPT !.ret = 0, !.r = FatLocals], Len(data), AllocOne)
        s2 == Then(s1, LAMBDA t : WriteData(t, data))
        s3 == Then(s2, LAMBDA t : FindFreeSlots(t, w.cur, 1 + LfnSlots[Last(path.comps)]))
    IN  IF ~w.ok \/ FatLookup(s.disk, s.mem, path) # <<>> THEN Fail(s)
        ELSE Then(s3, LAMBDA t :
               WriteDirEntries(t, Short(Last(path.comps), t.r.first, Len(data), FALSE)))

\* fat_delete_file: the chain is freed first, that this fails is ignored; then
\* the short entry and the long-name entries before it are marked in one block.
Inner(d, m, dir) == SelectSeq(Entries(d, m, dir), LAMBDA y : ~IsDot(y.name))
Unnamed(slots, at) ==
    LET gone == {i \in 1..at : \A j \in i..(at - 1) : slots[j].k = "lfn"}
    IN  [i \in DOMAIN slots |-> IF i \in gone THEN Del ELSE slots[i]]
FatDeleteHit(s, hit) ==
    LET x == hit[1]
    IN  IF hit = <<>> \/ (x.e.dir /\ Inner(s.disk, s.mem, x.e.first) # <<>>) THEN Fail(s)
        ELSE OrFail(Write(FreeChain(s, x.e.first), x.at, DirBlock(Unnamed(SlotsOf(s.disk[x.at]), x.i))))
FatDelete(s, path) == FatDeleteHit(s, FatLookup(s.disk, s.mem, path))

\* fat_mkdir: mark the cluster, write `.' and `..', then the entry.
FatMkdirIn(s, path, w, a) ==
    LET s1 == Or(SetFat([s EXCEPT !.mem.hint = a.hint, !.r.first = a.c], a.c, Eoc), GiveBack)
        s2 == Then(s1, LAMBDA t : Or(Write(t, <<"c", a.c>>,
                    DirBlock([i \in 1..SlotsPerBlock |->
                                CASE i = 1 -> Short(".", a.c, 0, TRUE)
                                  [] i = 2 -> Short("..", w.cur, 0, TRUE)
                                  [] OTHER -> End])), GiveBack))
        s3 == Then(s2, LAMBDA t : FindFreeSlots(t, w.cur, 1 + LfnSlots[Last(path.comps)]))
    IN  IF ~w.ok \/ FatLookup(s.disk, s.mem, path) # <<>> \/ a.c = 0 THEN Fail(s)
        ELSE Then(s3, LAMBDA t : WriteDirEntries(t, Short(Last(path.comps), a.c, 0, TRUE)))
FatMkdir(s, path) == FatMkdirIn(s, path, FatResolveLeaf(s.disk, s.mem, path), AllocCluster(s.mem))

\* fat_rmdir: only a directory, never `.' or `..'; the rest is fat_delete_file.
FatRmdirHit(s, path, hit) ==
    IF \/ path.comps # <<>> /\ IsDot(Last(path.comps))
       \/ hit = <<>>
       \/ ~hit[1].e.dir \/ hit[1].e.first = 0
    THEN Fail(s) ELSE FatDelete(s, path)
FatRmdir(s, path) == FatRmdirHit(s, path, FatLookup(s.disk, s.mem, path))

\* fat_change_dir: `..' of the root is the root; a missing or plain name fails.
Step(w, name, hit) ==
    CASE ~w.ok       -> w
      [] name = "."  -> w
      [] name = ".." -> [w EXCEPT !.stack = IF @ = <<>> THEN @ ELSE Front(@)]
      [] OTHER       -> IF hit = <<>> \/ ~hit[1].e.dir THEN [w EXCEPT !.ok = FALSE]
                        ELSE [w EXCEPT !.stack = Append(@, hit[1].e.first)]
Top(stack, root) == IF stack = <<>> THEN root ELSE Last(stack)
Moved(s, w) == IF w.ok THEN [s EXCEPT !.mem.stack = w.stack] ELSE Fail(s)
FatChangeDir(s, path) ==
    Moved(s, FoldLeft(LAMBDA w, name : Step(w, name, FindEntry(s.disk, s.mem, Top(w.stack, FatRoot(s.mem)), name)),
                      [ok |-> TRUE, stack |-> IF path.abs THEN <<>> ELSE s.mem.stack], path.comps))

\* fat_read_file and fat_get_file_size: what a reader gets, <<>> when there is
\* no such file; a chain that ends early gives a short read.
Content(d, size, chain) ==
    [i \in 1..(IF size < Len(chain) THEN size ELSE Len(chain)) |-> d[<<"c", chain[i]>>]]
FatReadHit(d, m, hit) ==
    IF hit = <<>> \/ hit[1].e.dir THEN <<>>
    ELSE <<Content(d, hit[1].e.size, Chain(m.fat, hit[1].e.first))>>
FatRead(d, m, path) == FatReadHit(d, m, FatLookup(d, m, path))

(***************************************************************************)
(* Format, mount and fsck.                                                 *)
(***************************************************************************)
\* What fat_format leaves on the disk.
FatFresh(type) ==
    [a \in {FatSec} \cup ({"c"} \X FatClu) \cup ({"root"} \X (1..RootBlocks)) |->
        CASE a = FatSec -> [c \in FatClu |-> IF type = 32 /\ c = 2 THEN Eoc ELSE 0]
          [] a[1] = "c" -> IF type = 32 /\ a[2] = 2 THEN EmptyBlock ELSE DataBlock("zero")
          [] OTHER      -> EmptyBlock]

\* fat_mount: every variable of the driver starts afresh.
FatMount(d, type) == [type |-> type, fat |-> d[FatSec], hint |-> 2, stack |-> <<>>]

\* fat_fsck: breadth first from the root over all directories, `.' and `..'
\* left out; a chain is a sequence of clusters with the number it must have.
Level(top) == [level |-> top, all |-> top]
Deeper(w, next) == [level |-> next, all |-> w.all \o next]
FatBelow(d, m, l) ==
    FlattenSeq([j \in 1..Len(l) |-> IF l[j].e.dir /\ l[j].e.first >= 2
                                    THEN Inner(d, m, l[j].e.first) ELSE <<>>])
FsckEntries(d, m) ==
    FoldLeft(LAMBDA w, i : Deeper(w, FatBelow(d, m, w.level)),
             Level(Inner(d, m, FatRoot(m))), [i \in 1..FatClusters |-> i]).all

FatChains(m, ents) ==
    (IF FatRoot(m) = 0 THEN <<>> ELSE <<Chain(m.fat, FatRoot(m))>>)
    \o [i \in 1..Len(ents) |-> Chain(m.fat, ents[i].e.first)]

\* How often a cluster is in the chains.
Times(chains, c) ==
    Cardinality({<<i, j>> \in (1..Len(chains)) \X (1..(FatClusters + 2)) :
                    j <= Len(chains[i]) /\ chains[i][j] = c})
FatFsckOf(m, ents, chains) ==
    LET times(c) == Times(chains, c)
        full(i) == /\ chains[i] # <<>> /\ Len(chains[i]) <= FatClusters
                   /\ m.fat[Last(chains[i])] = Eoc
    IN  [bad_chain     |-> {i \in DOMAIN chains : chains[i] # <<>> /\ ~full(i)},
         crosslink     |-> {c \in FatClu : times(c) > 1},
         truncated     |-> {i \in DOMAIN ents : /\ ~ents[i].e.dir
                                                /\ ents[i].e.first >= 2
                                                /\ Len(Chain(m.fat, ents[i].e.first)) < ents[i].e.size},
         orphan        |-> {c \in FatClu : m.fat[c] # 0 /\ times(c) = 0},
         free_but_used |-> {c \in FatClu : m.fat[c] = 0 /\ times(c) > 0}]
FatFsckFrom(m, ents) == FatFsckOf(m, ents, FatChains(m, ents))
FatFsck(d, m) == FatFsckFrom(m, FsckEntries(d, m))
=============================================================================
