-------------------------------- MODULE Ext4 --------------------------------
(***************************************************************************)
(* The ext2/3/4 driver, kernel/ext4.c, one operator per function.  The     *)
(* write helpers return nothing: no caller learns that a write failed.     *)
(*                                                                         *)
(* disk: <<"sb", 1>> and <<"gd", g>> hold the free counts, <<"bb", g>> and *)
(* <<"ib", g>> the bitmaps, <<"ino", n>> the inodes, <<"b", n>> blocks; a  *)
(* block write is one step.  The metadata region of a group is left out:   *)
(* the blocks and inodes here are those the allocators may hand out, and   *)
(* the root.  Nothing but the mount is kept in memory.                     *)
(***************************************************************************)
EXTENDS DiskCall, FiniteSets, FiniteSetsExt

CONSTANTS
    E4Groups, E4Bpg, E4Ipg,    \* groups; blocks and inodes of one
    E4BlockUnits,              \* room of a directory block, in units
    E4Direct,                  \* 12: i_block entries of the old mapping
    E4RootExt, E4LeafCap,      \* 4 and 84: extents of the root and of a leaf
    LfnSlots                   \* [name -> units beyond the first its entry takes]

E4G    == 1..E4Groups
E4Blk  == 1..(E4Groups * E4Bpg)
E4Root == 2
E4Ino  == 3..(2 + E4Groups * E4Ipg)
GroupOfBlock(b) == ((b - 1) \div E4Bpg) + 1
GroupOfInode(n) == IF n = E4Root THEN 1 ELSE ((n - 3) \div E4Ipg) + 1

NoInode == [mode |-> "none", size |-> 0, fl |-> "direct", depth |-> 0, ents |-> <<>>]
Inode(mode, size, fl, depth, ents) ==
    [mode |-> mode, size |-> size, fl |-> fl, depth |-> depth, ents |-> ents]
Ext(l, p, n)     == [l |-> l, p |-> p, n |-> n]
Dirent(ino, name, rec) == [ino |-> ino, name |-> name, rec |-> rec]
E4Dir(ents)      == [k |-> "dir", ents |-> ents]
E4Data(v)        == [k |-> "data", v |-> v]
E4Leaf(ents)     == [k |-> "leaf", ents |-> ents]
EntsOf(b, kind)  == IF b.k = kind THEN b.ents ELSE <<>>
E4Units(name)    == 1 + (IF name \in DOMAIN LfnSlots THEN LfnSlots[name] ELSE 0)

(***************************************************************************)
(* Reading: mappings, directories, paths.                                  *)
(***************************************************************************)
\* e4_map_extent at the leaf level: 0 is a hole.
InExtents(ents, l) ==
    LET hit == {i \in DOMAIN ents : l >= ents[i].l /\ l < ents[i].l + ents[i].n}
    IN  IF hit = {} THEN 0 ELSE ents[Min(hit)].p + (l - ents[Min(hit)].l)

\* e4_map_extent, e4_map_legacy, e4_map_block: the block of logical block l.
MapBlock(d, ino, l) ==
    LET below == {i \in DOMAIN ino.ents : ino.ents[i].l <= l} IN
    CASE ino.fl = "direct" -> IF l + 1 \in DOMAIN ino.ents THEN ino.ents[l + 1] ELSE 0
      [] ino.depth = 0     -> InExtents(ino.ents, l)
      [] OTHER             -> IF below = {} THEN 0
                              ELSE InExtents(EntsOf(d[<<"b", ino.ents[Max(below)].p>>], "leaf"), l)

InodeAt(d, n) == d[<<"ino", n>>]
BlocksOf(d, ino) ==
    SelectSeq([i \in 1..ino.size |-> MapBlock(d, ino, i - 1)], LAMBDA b : b # 0)

\* e4_dir_walk: all live entries but `.' and `..', in order.
EntsIn(d, bs) == FlattenSeq([i \in 1..Len(bs) |-> EntsOf(d[<<"b", bs[i]>>], "dir")])
E4Entries(d, n) ==
    IF InodeAt(d, n).mode # "dir" THEN <<>>
    ELSE SelectSeq(EntsIn(d, BlocksOf(d, InodeAt(d, n))), LAMBDA e : e.ino # 0 /\ e.name \notin {".", ".."})

\* e4_dir_find: the inode number of the name, 0 when there is none.
InodeOf(hits) == IF hits = <<>> THEN 0 ELSE hits[1].ino
E4Find(d, n, name) == InodeOf(SelectSeq(E4Entries(d, n), LAMBDA e : e.name = name))

\* e4_resolve and e4_split_path: 0 when a component is missing.
E4Resolve(d, comps) ==
    FoldLeft(LAMBDA n, name : IF n = 0 THEN 0 ELSE E4Find(d, n, name), E4Root, comps)
E4DirOr0(d, n) == IF n # 0 /\ InodeAt(d, n).mode = "dir" THEN n ELSE 0
E4Parent(d, comps) == IF comps = <<>> THEN 0 ELSE E4DirOr0(d, E4Resolve(d, Front(comps)))
E4LookupIn(d, dir, name) == IF dir = 0 THEN 0 ELSE E4Find(d, dir, name)
E4Lookup(d, comps) == E4LookupIn(d, E4Parent(d, comps), Last(comps))

\* ext4_is_dir, and ext4_read_file: a hole reads as zeros.
E4IsDir(d, comps) == E4DirOr0(d, E4Resolve(d, comps)) # 0
E4BytesAt(d, b) ==
    IF b = 0 THEN "zero" ELSE IF d[<<"b", b>>].k = "data" THEN d[<<"b", b>>].v ELSE "other"
E4Shown(d, ino) ==
    CASE ino.mode = "dir"    -> [k |-> "dir"]
      [] ino.mode = "file"   -> [k |-> "file", v |-> [i \in 1..ino.size |-> E4BytesAt(d, MapBlock(d, ino, i - 1))]]
      [] OTHER               -> [k |-> "bad"]
E4SeenAt(d, n) == IF n = 0 THEN <<>> ELSE <<E4Shown(d, InodeAt(d, n))>>
E4Seen(d, comps) == E4SeenAt(d, E4Resolve(d, comps))

(***************************************************************************)
(* Allocation.                                                             *)
(***************************************************************************)
Put(s, at, v) == Ok(Write(s, at, v))

\* e4_update_counts: superblock, then the group's descriptor.
AddTo(s, at, db, di) == Put(s, at, [fb |-> s.disk[at].fb + db, fi |-> s.disk[at].fi + di])
UpdateCounts(s, g, db, di) == AddTo(AddTo(s, <<"sb", 1>>, db, di), <<"gd", g>>, db, di)

MarkBlocks(s, g, used) ==
    Put(s, <<"bb", g>>, [used |-> used])

\* e4_alloc_block: first fit over the groups; r.b = 0 when there is none.
TakeBlock(s, b, g) ==
    [UpdateCounts(MarkBlocks(s, g, s.disk[<<"bb", g>>].used \cup {b}), g, -1, 0) EXCEPT !.r.b = b]
FirstFree(s, free) ==
    IF free = {} THEN [s EXCEPT !.r.b = 0] ELSE TakeBlock(s, Min(free), GroupOfBlock(Min(free)))
AllocBlock(s) == FirstFree(s, {b \in E4Blk : b \notin s.disk[<<"bb", GroupOfBlock(b)>>].used})

\* e4_free_block
FreeBlock(s, b) ==
    LET g == GroupOfBlock(b)
    IN  UpdateCounts(MarkBlocks(s, g, s.disk[<<"bb", g>>].used \ {b}), g, 1, 0)
FreeBlocks(s, bs) == FoldLeft(FreeBlock, s, bs)

\* e4_alloc_run: in the first group with room, the first hole of `want'
\* blocks, else the largest hole; r.b, r.got.
FreeIn(s, g) == {b \in E4Blk : GroupOfBlock(b) = g} \ s.disk[<<"bb", g>>].used
HoleAt(free, b, want) == Max({n \in 1..want : \A i \in 0..(n - 1) : b + i \in free})
TakeRun(s, g, b, n) ==
    [UpdateCounts(MarkBlocks(s, g, s.disk[<<"bb", g>>].used \cup b..(b + n - 1)), g, -n, 0)
        EXCEPT !.r.b = b, !.r.got = n]
TakeHole(s, g, free, want, best) == TakeRun(s, g, Min({b \in free : HoleAt(free, b, want) = best}), best)
RunInGroup(s, g, free, want) ==
    TakeHole(s, g, free, want, Max({HoleAt(free, b, want) : b \in free}))
AllocRun(s, want) ==
    LET room == {g \in E4G : FreeIn(s, g) # {}}
    IN  IF room = {} THEN [s EXCEPT !.r.b = 0, !.r.got = 0]
        ELSE RunInGroup(s, Min(room), FreeIn(s, Min(room)), want)

\* e4_alloc_inode, e4_free_inode, e4_write_inode.
TakeInode(s, n, g) ==
    [UpdateCounts(Put(s, <<"ib", g>>, [used |-> s.disk[<<"ib", g>>].used \cup {n}]), g, 0, -1) EXCEPT !.r.n = n]
AllocInode(s) ==
    LET free == {n \in E4Ino : n \notin s.disk[<<"ib", GroupOfInode(n)>>].used}
    IN  IF free = {} THEN Fail(s) ELSE TakeInode(s, Min(free), GroupOfInode(Min(free)))
FreeInode(s, n) ==
    LET g == GroupOfInode(n)
    IN  UpdateCounts(Put(s, <<"ib", g>>, [used |-> s.disk[<<"ib", g>>].used \ {n}]), g, 0, 1)
WriteInode(s, n, ino) == Put(s, <<"ino", n>>, ino)

(***************************************************************************)
(* Extent trees.                                                           *)
(***************************************************************************)
\* e4_free_extent_node and e4_free_inode_blocks: a leaf goes after its blocks.
ExtBlocks(ents) == FlattenSeq([i \in 1..Len(ents) |-> [j \in 1..ents[i].n |-> ents[i].p + j - 1]])
FreeInodeBlocks(s, ino) ==
    CASE ino.mode = "none"  -> s
      [] ino.fl = "direct"  -> FreeBlocks(s, SubSeq(ino.ents, 1, IF ino.size < Len(ino.ents) THEN ino.size ELSE Len(ino.ents)))
      [] ino.depth = 0      -> FreeBlocks(s, ExtBlocks(ino.ents))
      [] OTHER              -> FoldLeft(LAMBDA t, x :
              FreeBlock(FreeBlocks(t, ExtBlocks(EntsOf(t.disk[<<"b", x.p>>], "leaf"))), x.p), s, ino.ents)

\* The last extent grows when the new block follows it in both senses.
Extends(ents, l, b) ==
    ents # <<>> /\ Last(ents).p + Last(ents).n = b /\ Last(ents).l + Last(ents).n = l
Grown(ents) == [ents EXCEPT ![Len(ents)].n = @ + 1]

\* e4_extent_append: the mapping of the inode in r.ino gains block b; the leaf
\* blocks are written here, the inode by the caller.
IntoLeaf(a, ents, ino, l, leaves) ==
    IF a.r.b = 0 THEN Fail(a)
    ELSE [Put(a, <<"b", a.r.b>>, E4Leaf(ents)) EXCEPT
            !.r.ino = [ino EXCEPT !.depth = 1, !.ents = Append(leaves, Ext(l, a.r.b, 0))]]
ExtentAppend(s, l, b) ==
    LET ino  == s.r.ino
        set(t, x) == [t EXCEPT !.r.ino = x]
        leaf == <<"b", Last(ino.ents).p>>
        old  == EntsOf(s.disk[leaf], "leaf")
    IN
    CASE ino.fl = "direct" ->
           IF l < E4Direct THEN set(s, [ino EXCEPT !.ents = Append(@, b)]) ELSE Fail(s)
      [] ino.depth = 0 /\ Extends(ino.ents, l, b) -> set(s, [ino EXCEPT !.ents = Grown(@)])
      [] ino.depth = 0 /\ Len(ino.ents) < E4RootExt /\ ~Extends(ino.ents, l, b) ->
           set(s, [ino EXCEPT !.ents = Append(@, Ext(l, b, 1))])
      [] ino.depth = 0 /\ Len(ino.ents) >= E4RootExt /\ ~Extends(ino.ents, l, b) ->
           IntoLeaf(AllocBlock(s), Append(ino.ents, Ext(l, b, 1)), ino, 0, <<>>)
      [] ino.depth = 1 /\ Extends(old, l, b) -> Put(s, leaf, E4Leaf(Grown(old)))
      [] ino.depth = 1 /\ ~Extends(old, l, b) /\ Len(old) < E4LeafCap ->
           Put(s, leaf, E4Leaf(Append(old, Ext(l, b, 1))))
      [] OTHER ->
           IF Len(ino.ents) >= E4RootExt THEN Fail(s)
           ELSE IntoLeaf(AllocBlock(s), <<Ext(l, b, 1)>>, ino, l, ino.ents)

(***************************************************************************)
(* Directory entries.                                                      *)
(***************************************************************************)
\* e4_dir_add_entry: a dead entry that is large enough, or the tail of a live
\* one; otherwise the directory gets a new block.
Dead(e, need)  == e.ino = 0 /\ e.rec >= need
Fits(e, need)  == Dead(e, need) \/ e.rec - E4Units(e.name) >= need
Placed(old, i, name, n) ==
    IF Dead(old[i], E4Units(name)) THEN [old EXCEPT ![i] = Dirent(n, name, old[i].rec)]
    ELSE InsertAt([old EXCEPT ![i].rec = E4Units(old[i].name)], i + 1,
                  Dirent(n, name, old[i].rec - E4Units(old[i].name)))
Removed(old, i) ==
    IF i = 1 THEN [old EXCEPT ![1].ino = 0]
    ELSE RemoveAt([old EXCEPT ![i - 1].rec = @ + old[i].rec], i)

\* A position is <<block, index>>; the first of some in directory order.
Positions(d, bs) ==
    {p \in ToSet(bs) \X (1..E4BlockUnits) : p[2] <= Len(EntsOf(d[<<"b", p[1]>>], "dir"))}
At(d, p) == EntsOf(d[<<"b", p[1]>>], "dir")[p[2]]
Earliest(bs, spots) ==
    LET rank(b) == Min({i \in DOMAIN bs : bs[i] = b})
    IN  CHOOSE q \in spots : \A o \in spots : rank(q[1]) < rank(o[1]) \/ (q[1] = o[1] /\ q[2] <= o[2])
PutAt(s, p, name, n) == Put(s, <<"b", p[1]>>, E4Dir(Placed(EntsOf(s.disk[<<"b", p[1]>>], "dir"), p[2], name, n)))
CutAt(s, p) == Put(s, <<"b", p[1]>>, E4Dir(Removed(EntsOf(s.disk[<<"b", p[1]>>], "dir"), p[2])))

Grow(a, b, dir) ==
    IF a.ret # 0 THEN FreeBlock(a, b) ELSE WriteInode(a, dir, [a.r.ino EXCEPT !.size = @ + 1])
AddBlock(a, dir, ino, name, n) ==
    IF a.r.b = 0 THEN Fail(a)
    ELSE Grow(ExtentAppend([Put(a, <<"b", a.r.b>>, E4Dir(<<Dirent(n, name, E4BlockUnits)>>)) EXCEPT !.r.ino = ino],
                           ino.size, a.r.b), a.r.b, dir)
AddEntryAt(s, dir, name, n, bs, spots) ==
    IF spots # {} THEN PutAt(s, Earliest(bs, spots), name, n)
    ELSE AddBlock(AllocBlock(s), dir, InodeAt(s.disk, dir), name, n)
AddEntryIn(s, dir, name, n, bs) ==
    AddEntryAt(s, dir, name, n, bs, {p \in Positions(s.disk, bs) : Fits(At(s.disk, p), E4Units(name))})
AddEntry(s, dir, name, n) == AddEntryIn(s, dir, name, n, BlocksOf(s.disk, InodeAt(s.disk, dir)))

\* e4_dir_del_entry: the entry before it takes its room, the first of a block
\* is only marked dead.
DelEntryAt(s, bs, spots) == IF spots = {} THEN Fail(s) ELSE CutAt(s, Earliest(bs, spots))
DelEntryIn(s, bs, n) == DelEntryAt(s, bs, {p \in Positions(s.disk, bs) : At(s.disk, p).ino = n})
DelEntry(s, dir, n) == DelEntryIn(s, BlocksOf(s.disk, InodeAt(s.disk, dir)), n)

(***************************************************************************)
(* Calls.                                                                  *)
(***************************************************************************)
E4Locals == [b |-> 0, got |-> 0, n |-> 0, ino |-> NoInode, ext |-> <<>>, done |-> 0]
E4Begin(d, m, f) == Begin(d, m, E4Locals, f)
E4GiveUp(s) == Fail(FreeInode(s, s.r.n))

\* The extents of a large file: run by run, data written as each is taken;
\* r.ext, and r.done blocks so far.
FillRun(a, data) ==
    FoldLeft(LAMBDA u, k : Put(u, <<"b", a.r.b + k - 1>>, E4Data(data[a.r.done + k])),
             a, [k \in 1..a.r.got |-> k])
UseRun(a, data) ==
    IF a.r.b = 0 THEN E4GiveUp(FreeBlocks(a, ExtBlocks(a.r.ext)))
    ELSE [FillRun(a, data) EXCEPT !.r.ext = Append(@, Ext(a.r.done, a.r.b, a.r.got)),
                                  !.r.done = @ + a.r.got]
AllocData(s, data) ==
    Loop(s, Len(data), LAMBDA t, i : IF t.r.done >= Len(data) THEN t
                                     ELSE UseRun(AllocRun(t, Len(data) - t.r.done), data))

\* Up to E4RootExt extents stay in the inode; more go to leaves of E4LeafCap,
\* at most E4RootExt of them.
Part(x, i) == SubSeq(x, (i - 1) * E4LeafCap + 1, IF i * E4LeafCap < Len(x) THEN i * E4LeafCap ELSE Len(x))
WriteLeaf(a, part) ==
    IF a.r.b = 0 THEN a
    ELSE [Put(a, <<"b", a.r.b>>, E4Leaf(part)) EXCEPT !.r.ino.ents = Append(@, Ext(part[1].l, a.r.b, 0))]
LeavesOrRoll(s, leaves) ==
    IF s.r.b = 0 \/ leaves > E4RootExt
    THEN E4GiveUp(FreeBlocks(FreeBlocks(s, ExtBlocks(s.r.ext)),
                             [i \in 1..Len(s.r.ino.ents) |-> s.r.ino.ents[i].p]))
    ELSE s
PlaceExtents(s, data) ==
    LET x      == s.r.ext
        leaves == (Len(x) + E4LeafCap - 1) \div E4LeafCap
    IN  IF Len(x) <= E4RootExt THEN [s EXCEPT !.r.ino = Inode("file", Len(data), "extent", 0, x)]
        ELSE LeavesOrRoll(Loop([s EXCEPT !.r.ino = Inode("file", Len(data), "extent", 1, <<>>)], leaves,
                               LAMBDA t, i : IF t.r.b = 0 THEN t ELSE WriteLeaf(AllocBlock(t), Part(x, i))),
                          leaves)

\* ext4_create_file: the old file goes first; then inode, data, inode table,
\* directory entry.
E4DropOld(s, dir, old) ==
    [DelEntry(FreeInode(FreeInodeBlocks(s, InodeAt(s.disk, old)), old), dir, old) EXCEPT !.ret = 0]
OneBlock(a, v) ==
    IF a.r.b = 0 THEN E4GiveUp(a)
    ELSE [Put(a, <<"b", a.r.b>>, E4Data(v)) EXCEPT !.r.ino = Inode("file", 1, "direct", 0, <<a.r.b>>)]
E4WriteData(s, data) ==
    CASE Len(data) = 0 -> [s EXCEPT !.r.ino = Inode("file", 0, "direct", 0, <<>>)]
      [] Len(data) = 1 -> OneBlock(AllocBlock(s), data[1])
      [] OTHER         -> Then(AllocData(s, data), LAMBDA t : PlaceExtents(t, data))
Entered(s, ino) == IF s.ret # 0 THEN E4GiveUp(FreeInodeBlocks(s, ino)) ELSE s
E4Enter(s, dir, name) ==
    Entered(AddEntry(WriteInode(s, s.r.n, s.r.ino), dir, name, s.r.n), s.r.ino)
E4CreateIn(s, dir, old, name, data) ==
    LET s1 == AllocInode(IF old = 0 THEN s ELSE E4DropOld(s, dir, old))
        s2 == Then(s1, LAMBDA t : E4WriteData(t, data))
    IN  IF dir = 0 \/ (old # 0 /\ InodeAt(s.disk, old).mode = "dir") THEN Fail(s)
        ELSE Then(s2, LAMBDA t : E4Enter(t, dir, name))
E4Create(s, comps, data) ==
    E4CreateIn(s, E4Parent(s.disk, comps), E4Lookup(s.disk, comps), Last(comps), data)

\* ext4_delete_file: blocks and inode first, the entry last.
E4DeleteIn(s, dir, n) ==
    IF n = 0 \/ InodeAt(s.disk, n).mode = "dir" THEN Fail(s)
    ELSE DelEntry(FreeInode(FreeInodeBlocks(s, InodeAt(s.disk, n)), n), dir, n)
E4Delete(s, comps) == E4DeleteIn(s, E4Parent(s.disk, comps), E4Lookup(s.disk, comps))

\* ext4_mkdir: inode, block, `.' and `..', inode table, entry.
EnteredDir(s, b) == IF s.ret # 0 THEN E4GiveUp(FreeBlock(s, b)) ELSE s
E4MkdirAt(a, dir, name) ==
    LET s2  == Put(a, <<"b", a.r.b>>, E4Dir(<<Dirent(a.r.n, ".", 1), Dirent(dir, "..", E4BlockUnits - 1)>>))
        s3  == WriteInode(s2, a.r.n, Inode("dir", 1, "direct", 0, <<a.r.b>>))
    IN  IF a.r.b = 0 THEN E4GiveUp(a) ELSE EnteredDir(AddEntry(s3, dir, name, a.r.n), a.r.b)
E4MkdirIn(s, dir, name) ==
    IF E4LookupIn(s.disk, dir, name) # 0 \/ dir = 0 THEN Fail(s)
    ELSE Then(AllocInode(s), LAMBDA t : E4MkdirAt(AllocBlock(t), dir, name))
E4Mkdir(s, comps) == E4MkdirIn(s, E4Parent(s.disk, comps), Last(comps))

\* ext4_rmdir: the entry first, then the blocks and the inode.
E4RmdirIn(s, dir, n, ino) ==
    IF n = 0 \/ ino.mode # "dir" \/ E4Entries(s.disk, n) # <<>> THEN Fail(s)
    ELSE Then(DelEntry(s, dir, n), LAMBDA t : FreeInode(WriteInode(FreeInodeBlocks(t, ino), n, ino), n))
E4RmdirAt(s, dir, n) == E4RmdirIn(s, dir, n, InodeAt(s.disk, n))
E4Rmdir(s, comps) == E4RmdirAt(s, E4Parent(s.disk, comps), E4Lookup(s.disk, comps))

(***************************************************************************)
(* ext4_format, and what a check of the volume would say.                  *)
(***************************************************************************)
E4Fresh ==
    LET at == ({"sb"} \X {1}) \cup ({"gd", "bb", "ib"} \X E4G) \cup ({"ino"} \X ({E4Root} \cup E4Ino)) \cup ({"b"} \X E4Blk)
        fb(g) == IF g = 1 THEN E4Bpg - 1 ELSE E4Bpg
    IN  [a \in at |->
          CASE a[1] = "sb"          -> [fb |-> E4Groups * E4Bpg - 1, fi |-> E4Groups * E4Ipg]
            [] a[1] = "gd"          -> [fb |-> fb(a[2]), fi |-> E4Ipg]
            [] a[1] = "bb"          -> [used |-> IF a[2] = 1 THEN {1} ELSE {}]
            [] a[1] = "ib"          -> [used |-> {}]
            [] a = <<"ino", E4Root>> -> Inode("dir", 1, "extent", 0, <<Ext(0, 1, 1)>>)
            [] a[1] = "ino"         -> NoInode
            [] a = <<"b", 1>>       -> E4Dir(<<Dirent(2, ".", 1), Dirent(2, "..", E4BlockUnits - 1)>>)
            [] OTHER                -> E4Data("zero")]
E4Mount == [mounted |-> TRUE]

\* The entries of all directories, breadth first.
E4Below(d, l) == FlattenSeq([j \in 1..Len(l) |-> E4Entries(d, l[j].ino)])
Deeper(w, next) == [level |-> next, all |-> w.all \o next]
Level(top) == [level |-> top, all |-> top]
E4All(d) ==
    FoldLeft(LAMBDA w, i : Deeper(w, E4Below(d, w.level)), Level(E4Entries(d, E4Root)), [i \in E4G |-> i]).all

Held(d, ino) ==
    BlocksOf(d, ino) \o (IF ino.depth = 1 THEN [i \in 1..Len(ino.ents) |-> ino.ents[i].p] ELSE <<>>)
HeldBy(d, ents) ==
    Held(d, InodeAt(d, E4Root)) \o FlattenSeq([i \in 1..Len(ents) |-> Held(d, InodeAt(d, ents[i].ino))])
E4CheckOf(d, ents, blks) ==
    LET times(b) == Cardinality({i \in DOMAIN blks : blks[i] = b})
        used  == UNION {d[<<"bb", g>>].used : g \in E4G}
        inUse == UNION {d[<<"ib", g>>].used : g \in E4G}
        freeB(g) == E4Bpg - Cardinality(d[<<"bb", g>>].used)
        freeI(g) == E4Ipg - Cardinality(d[<<"ib", g>>].used)
        sum(f(_)) == FoldLeft(LAMBDA n, g : n + f(g), 0, [g \in E4G |-> g])
    IN  [dangling      |-> {ents[i].ino : i \in DOMAIN ents} \ inUse,
         crosslink     |-> {b \in E4Blk : times(b) > 1},
         orphan        |-> {b \in used : times(b) = 0},
         free_but_used |-> {b \in E4Blk \ used : times(b) > 0},
         lost_inode    |-> inUse \ {ents[i].ino : i \in DOMAIN ents},
         counts        |-> {g \in E4G : d[<<"gd", g>>] # [fb |-> freeB(g), fi |-> freeI(g)]}
                           \cup (IF d[<<"sb", 1>>] = [fb |-> sum(freeB), fi |-> sum(freeI)] THEN {} ELSE {0})]
E4CheckFrom(d, ents) == E4CheckOf(d, ents, HeldBy(d, ents))
E4Check(d) == E4CheckFrom(d, E4All(d))
=============================================================================
