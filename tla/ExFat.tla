------------------------------- MODULE ExFat -------------------------------
(***************************************************************************)
(* The exFAT driver, kernel/exfat.c.  It shares the shape of Fat: cluster  *)
(* chains, directories as chains of blocks, first fit inside a block.  It  *)
(* differs in its allocation table being doubled (FAT and bitmap, written  *)
(* one after the other), in entry sets that are written back with the      *)
(* whole directory chain, in the FAT being read from the disk (its cache   *)
(* is dropped by every write), and in the results it does not look at.     *)
(*                                                                         *)
(* mem: stack, as in Fat.  The bitmap and the up-case table are kept out   *)
(* of the data clusters; the root directory starts at cluster 2.           *)
(***************************************************************************)
EXTENDS Fat

Bmp   == <<"bmp", 1>>
Sec   == [k |-> "sec"]                                   \* 0xC0 and 0xC1 entries
XCwd(m) == IF m.stack = <<>> THEN 2 ELSE Last(m.stack)

XChain(d, first) == Chain(d[FatSec], first)

\* exfat_read_dir_chain: the directory as one sequence of slots.
SlotsIn(d, bs) == FlattenSeq([i \in DOMAIN bs |-> SlotsOf(d[bs[i]])])
XSlots(d, dir) == SlotsIn(d, Blocks(XChain(d, dir)))

\* exfat_parse_entry_set over the chain, up to the first end mark.
Numbered(slots) == [i \in DOMAIN slots |-> [i |-> i, e |-> slots[i]]]
XEntries(d, dir) == ShortOnes(Numbered(XSlots(d, dir)))

XFind(d, dir, name) == FirstOf(SelectSeq(XEntries(d, dir), LAMBDA x : x.e.name = name))

\* exfat_resolve_dir and exfat_resolve_leaf.
XResolveDir(d, m, abs, comps) ==
    FoldLeft(LAMBDA w, name : Walk(w, name, XFind(d, w.cur, name)),
             [ok |-> TRUE, stack |-> <<>>, cur |-> IF abs THEN 2 ELSE XCwd(m)], comps)

XResolveLeaf(d, m, path) ==
    IF path.comps = <<>> THEN [ok |-> FALSE, cur |-> 0]
    ELSE XResolveDir(d, m, path.abs, Front(path.comps))

XLookupIn(d, w, name) == IF w.ok THEN XFind(d, w.cur, name) ELSE <<>>
XLookup(d, m, path) == XLookupIn(d, XResolveLeaf(d, m, path), Last(path.comps))

(***************************************************************************)
(* FAT and bitmap.                                                         *)
(***************************************************************************)
SetX(s, c, v)    == Write(s, FatSec, [s.disk[FatSec] EXCEPT ![c] = v])
SetBit(s, c, b)  == Write(s, Bmp, [s.disk[Bmp] EXCEPT ![c] = b])

\* exfat_find_free_cluster: the lowest cluster whose FAT entry is 0.
XFreeCluster(d) ==
    LET free == {c \in FatClu : d[FatSec][c] = 0} IN IF free = {} THEN 0 ELSE Min(free)

\* exfat_free_cluster_chain: no result is looked at.
XFreeChain(s, first) ==
    FoldLeft(LAMBDA t, c : Ok(SetBit(SetX(t, c, 0), c, 0)), Ok(s), XChain(s.disk, first))

XGiveBack(s) == XFreeChain(s, s.r.first)

(***************************************************************************)
(* Directories.                                                            *)
(***************************************************************************)
\* exfat_extend_dir: mark, link, clear, and only then the bitmap.
XGrowDirBy(s, dir, c) ==
    LET s1 == OrFail(SetX(s, c, Eoc))
        s2 == Then(s1, LAMBDA t : OrFail(SetX(t, Last(XChain(t.disk, dir)), c)))
        s3 == Then(s2, LAMBDA t : Or(Write(t, <<"c", c>>, EmptyBlock), LAMBDA u : SetX(u, c, 0)))
    IN  IF c = 0 THEN Fail(s) ELSE Then(s3, LAMBDA t : Ok(SetBit(t, c, 1)))
XGrowDir(s, dir) == XGrowDirBy(s, dir, XFreeCluster(s.disk))

\* exfat_fix_dir_layout: no end mark before the last live slot, one after it.
FixLayout(slots) ==
    LET live == {i \in DOMAIN slots : slots[i].k \in {"short", "sec"}}
        last == IF live = {} THEN 0 ELSE Max(live)
    IN  [i \in DOMAIN slots |->
            CASE i < last /\ slots[i] = End                 -> Del
              [] last > 0 /\ i = last + 1                   -> End
              [] OTHER                                      -> slots[i]]

\* The chain is written back, first cluster first.
WriteDirChain(s, dir, slots, CleanUp(_)) ==
    LET ch == XChain(s.disk, dir)
    IN  Loop(s, Len(ch), LAMBDA t, i :
          Or(Write(t, <<"c", ch[i]>>,
                   DirBlock(SubSeq(slots, (i - 1) * SlotsPerBlock + 1, i * SlotsPerBlock))), CleanUp))

\* exfat_find_free_set, growing the directory once when nothing fits.
XFit(d, dir, need) == FirstFit(d, Blocks(XChain(d, dir)), need)
SlotNumber(bs, at) == ((CHOOSE j \in DOMAIN bs : bs[j] = at[1]) - 1) * SlotsPerBlock + at[2]
XUseSlots(s, dir, at) ==
    IF at = <<>> THEN Fail(s) ELSE [s EXCEPT !.r.i = SlotNumber(Blocks(XChain(s.disk, dir)), at)]
XFindFreeSet(s, dir, need) ==
    Then(IF XFit(s.disk, dir, need) = <<>> THEN XGrowDir(s, dir) ELSE s,
         LAMBDA t : XUseSlots(t, dir, XFit(t.disk, dir, need)))

\* exfat_write_entry_set: the set of e from slot i on, in the buffer.
EntrySetAt(slots, i, e) ==
    [j \in DOMAIN slots |-> CASE j = i                                  -> e
                             [] j > i /\ j <= i + LfnSlots[e.name]      -> Sec
                             [] OTHER                                   -> slots[j]]

\* The set, then the layout, then the disk.
XWriteEntrySet(s, dir, e, CleanUp(_)) ==
    WriteDirChain(s, dir, FixLayout(EntrySetAt(XSlots(s.disk, dir), s.r.i, e)), CleanUp)

(***************************************************************************)
(* Calls.                                                                  *)
(***************************************************************************)
XNeed(path) == 1 + LfnSlots[Last(path.comps)]

\* One turn of the allocation loop of exfat_create_file: the FAT writes are
\* not looked at, the bitmap write is.
XTakeOne(s, c) ==
    LET s1 == SetBit(Ok(SetX(s, c, Eoc)), c, 1)
        s2 == Or(s1, LAMBDA t : XGiveBack(Ok(SetX(t, c, 0))))
    IN  IF c = 0 THEN Fail(XGiveBack(s))
        ELSE Then(s2, LAMBDA t : IF s.r.first = 0
                                 THEN [t EXCEPT !.r.first = c, !.r.prev = c]
                                 ELSE [Ok(SetX(t, s.r.prev, c)) EXCEPT !.r.prev = c])
XAllocOne(s, i) == XTakeOne(s, XFreeCluster(s.disk))

\* The data follows the chain as the FAT has it; past its end the write of an
\* invalid cluster fails.
XWriteData(s, data) ==
    LET ch == XChain(s.disk, s.r.first)
    IN  Loop(s, Len(data), LAMBDA t, i :
          IF i > Len(ch) THEN Fail(XGiveBack(t))
          ELSE Or(Write(t, <<"c", ch[i]>>, DataBlock(data[i])), XGiveBack))

\* exfat_create_file: slot first, then clusters, data and the entry set; an
\* empty file still gets a cluster.
XCreate(s, path, data) ==
    LET w  == XResolveLeaf(s.disk, s.mem, path)
        s0 == [s EXCEPT !.ret = 0, !.r = FatLocals]
        s1 == XFindFreeSet(s0, w.cur, XNeed(path))
        s2 == Then(s1, LAMBDA t : Loop(t, IF data = <<>> THEN 1 ELSE Len(data), XAllocOne))
        s3 == Then(s2, LAMBDA t : XWriteData(t, data))
    IN  IF ~w.ok \/ XLookup(s.disk, s.mem, path) # <<>> THEN Fail(s)
        ELSE Then(s3, LAMBDA t : XWriteEntrySet(t, w.cur,
                    Short(Last(path.comps), t.r.first, Len(data), FALSE), XGiveBack))

\* exfat_delete_file: clusters first, then the entry set.
Without(slots, x) ==
    [i \in DOMAIN slots |-> IF i \in x.i..(x.i + LfnSlots[x.e.name]) THEN Del ELSE slots[i]]
XDeleteHit(s, dir, hit) ==
    LET x == hit[1]
    IN  IF hit = <<>> \/ (x.e.dir /\ XEntries(s.disk, x.e.first) # <<>>) THEN Fail(s)
        ELSE WriteDirChain(XFreeChain(s, x.e.first), dir, Without(XSlots(s.disk, dir), x), Ok)
XDelete(s, path) ==
    XDeleteHit(s, XResolveLeaf(s.disk, s.mem, path).cur, XLookup(s.disk, s.mem, path))

\* exfat_mkdir: what it has taken goes back on every error path.
XMkdirIn(s, path, w, c) ==
    LET s1 == Ok(SetBit(Ok(SetX([s EXCEPT !.r.first = c], c, Eoc)), c, 1))
        undo(t) == Ok(SetBit(Ok(SetX(t, c, 0)), c, 0))
        s2 == Or(Write(s1, <<"c", c>>, EmptyBlock), undo)
        kept(t) == IF t.ret = 0 THEN t ELSE undo(t)
        s3 == Then(s2, LAMBDA t : kept(XFindFreeSet(t, w.cur, XNeed(path))))
    IN  IF ~w.ok \/ XLookup(s.disk, s.mem, path) # <<>> \/ c = 0 THEN Fail(s)
        ELSE Then(s3, LAMBDA t : XWriteEntrySet(t, w.cur, Short(Last(path.comps), c, 0, TRUE), undo))
XMkdir(s, path) == XMkdirIn(s, path, XResolveLeaf(s.disk, s.mem, path), XFreeCluster(s.disk))

\* exfat_rmdir: a directory only; the rest is exfat_delete_file.
XRmdirHit(s, path, hit) ==
    IF path.comps \in {<<".">>, <<"..">>} \/ hit = <<>> \/ ~hit[1].e.dir
    THEN Fail(s) ELSE XDelete(s, path)
XRmdir(s, path) == XRmdirHit(s, path, XLookup(s.disk, s.mem, path))

\* exfat_change_dir
XChangeDir(s, path) ==
    Moved(s, FoldLeft(LAMBDA w, name : Step(w, name, XFind(s.disk, Top(w.stack, 2), name)),
                      [ok |-> TRUE, stack |-> IF path.abs THEN <<>> ELSE s.mem.stack], path.comps))

\* exfat_read_file
XReadHit(d, hit) ==
    IF hit = <<>> \/ hit[1].e.dir THEN <<>>
    ELSE <<Content(d, hit[1].e.size, XChain(d, hit[1].e.first))>>
XRead(d, m, path) == XReadHit(d, XLookup(d, m, path))

\* What exfat_format leaves, and exfat_init.
XFresh ==
    [a \in {FatSec, Bmp} \cup ({"c"} \X FatClu) |->
        CASE a = FatSec      -> [c \in FatClu |-> IF c = 2 THEN Eoc ELSE 0]
          [] a = Bmp         -> [c \in FatClu |-> IF c = 2 THEN 1 ELSE 0]
          [] a = <<"c", 2>>  -> EmptyBlock
          [] OTHER           -> DataBlock("zero")]
XMount == [stack |-> <<>>]

\* exfat_fsck: a set of at most one cluster is NoFatChain and counts its first
\* cluster only; the bitmap is the allocation table.
XBelow(d, l) ==
    FlattenSeq([j \in 1..Len(l) |-> IF l[j].e.dir THEN XEntries(d, l[j].e.first) ELSE <<>>])
XFsckEntries(d) ==
    FoldLeft(LAMBDA w, i : Deeper(w, XBelow(d, w.level)),
             Level(XEntries(d, 2)), [i \in 1..FatClusters |-> i]).all

XChains(d, ents) ==
    <<XChain(d, 2)>> \o [i \in 1..Len(ents) |-> IF ents[i].e.size <= 1 THEN <<ents[i].e.first>>
                                                ELSE XChain(d, ents[i].e.first)]
XFsckOf(d, ents, chains) ==
    LET times(c) == Times(chains, c)
        byFat(i) == i = 1 \/ ents[i - 1].e.size > 1
    IN  [bad_chain     |-> {i \in DOMAIN chains : byFat(i) /\ Len(chains[i]) > FatClusters},
         crosslink     |-> {c \in FatClu : times(c) > 1},
         truncated     |-> {i \in DOMAIN ents : Len(chains[i + 1]) < ents[i].e.size},
         orphan        |-> {c \in FatClu : d[Bmp][c] = 1 /\ times(c) = 0},
         free_but_used |-> {c \in FatClu : d[Bmp][c] = 0 /\ times(c) > 0}
                           \cup {Last(chains[i]) : i \in {j \in DOMAIN chains :
                                     byFat(j) /\ chains[j] # <<>> /\ d[FatSec][Last(chains[j])] = 0}}]
XFsckFrom(d, ents) == XFsckOf(d, ents, XChains(d, ents))
XFsck(d) == XFsckFrom(d, XFsckEntries(d))

\* The clusters a sub-directory has grown by.  Its entry says length 0 and
\* NoFatChain for ever, so exfat_fsck counts them as orphans.
XGrownOf(d, ents) ==
    UNION {ToSet(Tail(XChain(d, ents[i].e.first))) : i \in {k \in DOMAIN ents : ents[k].e.dir}}
XGrown(d) == XGrownOf(d, XFsckEntries(d))
=============================================================================
