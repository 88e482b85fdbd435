-------------------------------- MODULE F2fs --------------------------------
(***************************************************************************)
(* The F2FS driver, kernel/f2fs.c.  No caller learns that a write failed.  *)
(*                                                                         *)
(* disk: <<"cp", p>> and <<"cpt", p>> are the head and the tail of         *)
(* checkpoint pack p (the parity of its version), <<"j", p>> the NAT       *)
(* journal kept with it, <<"nat", c>> the two copies of the node address   *)
(* table, <<"sit", 1>> the valid blocks, <<"b", n>> the main area.  mem is *)
(* the checkpoint in memory: the version, the write position of the node   *)
(* and of the data log, and the journal, which a lookup prefers to the     *)
(* table.  Nodes, entries and tables are rewritten in place: only the      *)
(* positions and the journal wait for the checkpoint.  Segment summaries,  *)
(* segment types and the valid counts are written for other drivers and    *)
(* never read back here: left out.                                         *)
(***************************************************************************)
EXTENDS DiskCall, FiniteSets, FiniteSetsExt

CONSTANTS
    F2Segs, F2Bps,      \* segments of the main area, blocks of one
    F2DataSeg,          \* segment the data log starts in (the node log: 0)
    F2Nids,             \* node numbers 4 .. F2Nids
    F2Inline,           \* slots of an inline directory
    F2BlkSlots,         \* slots of an entry block
    F2Levels,           \* 64: hash levels of a directory (two blocks each up to level 2)
    F2Direct,           \* 923: addresses in an inode
    F2Journal,          \* 38: entries of the journal
    F2Word,             \* [content -> the block number its bytes spell, 0: none]
    LfnSlots

F2Root  == 3
F2Blk   == 1..(F2Segs * F2Bps)
F2NidSet == 4..F2Nids
SegOf(b)     == (b - 1) \div F2Bps
F2Addr(seg, off) == seg * F2Bps + off + 1
F2Slots(name) == 1 + (IF name \in DOMAIN LfnSlots THEN LfnSlots[name] ELSE 0)

\* A node: size in blocks; `inl' says whether the inode itself holds the data
\* or the entries; addr maps block to address; dn is i_nid[0].
F2Node(mode, inl, size, data, ents, addr, dn, depth) ==
    [k |-> "node", mode |-> mode, inl |-> inl, size |-> size, data |-> data, ents |-> ents,
     addr |-> addr, dn |-> dn, depth |-> depth]
F2NoAddr == [i \in 1..F2Direct |-> 0]
F2Dent(ents) == [k |-> "dent", ents |-> ents]
F2Data(v)    == [k |-> "data", v |-> v]
F2Blank      == [k |-> "blank"]

(***************************************************************************)
(* Reading.                                                                *)
(***************************************************************************)
\* f2_journal_lookup, f2_nat_lookup: a zero in the journal falls through.
NatLookup(d, m, nid) ==
    LET hits == SelectSeq(m.j, LAMBDA e : e.nid = nid)
    IN  IF hits # <<>> /\ hits[1].b # 0 THEN hits[1].b ELSE d[<<"nat", 0>>][nid]

\* f2_read_node
NodeIn(d, b) == IF b # 0 /\ d[<<"b", b>>].k = "node" THEN <<d[<<"b", b>>]>> ELSE <<>>
NodeAt(d, m, nid) == NodeIn(d, NatLookup(d, m, nid))

\* f2_node_path, f2_get_block: direct, then one direct node.  A node that is
\* not one is read all the same: -1 stands for what its bytes spell.
F2GetBlock(d, m, node, l) ==
    LET dn == IF node.dn = 0 THEN <<>> ELSE NodeAt(d, m, node.dn)
    IN  IF l <= F2Direct THEN node.addr[l]
        ELSE IF dn = <<>> \/ l > 2 * F2Direct THEN 0
        ELSE IF dn[1].mode # "dnode" THEN -1 ELSE dn[1].addr[l - F2Direct]

\* f2_check_dentries over f2_dir_walk: the entries below i_size.
EntBlocks(node) == SelectSeq(node.addr, LAMBDA b : b # 0)
DentsIn(blk) == IF blk.k = "dent" THEN blk.ents ELSE {}
F2Entries(d, node) ==
    IF node.inl THEN node.ents
    ELSE UNION {DentsIn(d[<<"b", node.addr[i]>>]) :
                  i \in {x \in 1..F2Direct : x <= (IF node.size = 0 THEN 1 ELSE node.size) /\ node.addr[x] # 0}}
F2Real(ents) == {e \in ents : e.name \notin {".", ".."}}

\* f2_lookup_cb, f2_resolve: 0 when a component is missing.
Named(d, node, name) == IF node = <<>> THEN {} ELSE {e \in F2Entries(d, node[1]) : e.name = name}
NumberIn(hit) == (CHOOSE e \in hit : TRUE).n
Readable(d, m, n) == IF NodeAt(d, m, n) = <<>> THEN 0 ELSE n
F2StepTo(d, m, hit) == IF hit = {} THEN 0 ELSE Readable(d, m, NumberIn(hit))
F2Step(d, m, nid, name) == F2StepTo(d, m, Named(d, IF nid = 0 THEN <<>> ELSE NodeAt(d, m, nid), name))
F2Resolve(d, m, comps) == FoldLeft(LAMBDA n, name : F2Step(d, m, n, name), F2Root, comps)
IsDirNode(node) == node # <<>> /\ node[1].mode = "dir"
DirOr0(d, m, n) == IF n # 0 /\ IsDirNode(NodeAt(d, m, n)) THEN n ELSE 0
F2IsDir(d, m, comps) == DirOr0(d, m, F2Resolve(d, m, comps)) # 0

\* f2_split_path
F2Parent(d, m, comps) == IF comps = <<>> THEN 0 ELSE DirOr0(d, m, F2Resolve(d, m, Front(comps)))

\* f2fs_read_file: a hole reads as zeros.
BytesAt(d, b) ==
    CASE b = 0  -> "zero"
      [] b = -1 -> "other"
      [] OTHER  -> IF d[<<"b", b>>].k = "data" THEN d[<<"b", b>>].v ELSE "other"
F2Shown(d, m, node) ==
    IF node.mode = "dir" THEN [k |-> "dir"]
    ELSE [k |-> "file",
          v |-> IF node.inl THEN node.data
                ELSE [l \in 1..node.size |-> BytesAt(d, F2GetBlock(d, m, node, l))]]
F2SeenNode(d, m, node) == IF node = <<>> THEN <<>> ELSE <<F2Shown(d, m, node[1])>>
F2SeenAt(d, m, n) == IF n = 0 THEN <<>> ELSE F2SeenNode(d, m, NodeAt(d, m, n))
F2Seen(d, m, comps) == F2SeenAt(d, m, F2Resolve(d, m, comps))

(***************************************************************************)
(* Allocation.                                                             *)
(***************************************************************************)
F2Put(s, at, v) == Ok(Write(s, at, v))

\* f2_sit_update
SitSet(s, b)   == F2Put(s, <<"sit", 1>>, s.disk[<<"sit", 1>>] \cup {b})
SitClear(s, b) == F2Put(s, <<"sit", 1>>, s.disk[<<"sit", 1>>] \ {b})
F2FreeBlocks(s, bs) == FoldLeft(LAMBDA t, b : IF b = 0 THEN t ELSE SitClear(t, b), s, bs)

\* f2_curseg_get: the next block of the log; a used up segment is followed by
\* the first one behind it without a valid block.
CursegGet(s, log) ==
    LET at    == s.mem[log]
        empty == {g \in (at.seg + 1)..(F2Segs - 1) : \A b \in s.disk[<<"sit", 1>>] : SegOf(b) # g}
        here  == IF at.off < F2Bps THEN at ELSE [seg |-> Min(empty), off |-> 0]
    IN  IF at.off >= F2Bps /\ empty = {} THEN [s EXCEPT !.r.b = 0]
        ELSE [s EXCEPT !.mem[log] = [here EXCEPT !.off = @ + 1], !.r.b = F2Addr(here.seg, here.off)]

\* f2_alloc_data_block, f2_alloc_node_block.
Counted(s) == IF s.r.b = 0 THEN s ELSE SitSet(s, s.r.b)
F2Alloc(s, log) == Counted(CursegGet(s, log))

\* f2_alloc_nid
F2FreeNids(s) == {n \in F2NidSet : NatLookup(s.disk, s.mem, n) = 0}

\* f2_journal_add: in place, or appended while there is room.
JournalAdd(j, nid, b) ==
    LET at == {i \in DOMAIN j : j[i].nid = nid}
    IN  IF at # {} THEN [j EXCEPT ![Min(at)].b = b]
        ELSE IF Len(j) < F2Journal THEN Append(j, [nid |-> nid, b |-> b]) ELSE j

\* f2_nat_set: both copies, then the journal in memory.
NatCopy(s, c, nid, b) == F2Put(s, <<"nat", c>>, [s.disk[<<"nat", c>>] EXCEPT ![nid] = b])
NatSet(s, nid, b) == [NatCopy(NatCopy(s, 0, nid, b), 1, nid, b) EXCEPT !.mem.j = JournalAdd(@, nid, b)]

\* f2_cp_commit: head, tail, journal of the other pack.
F2Cp(m) == [ver |-> m.ver, node |-> m.node, data |-> m.data]
CpCommit(s) ==
    LET m  == [s.mem EXCEPT !.ver = @ + 1]
        p  == m.ver % 2
        s1 == F2Put([s EXCEPT !.mem = m], <<"cp", p>>, F2Cp(m))
        s2 == F2Put(s1, <<"cpt", p>>, F2Cp(m))
    IN  F2Put(s2, <<"j", p>>, m.j)

(***************************************************************************)
(* Directory entries; r.dir is the parent's node in memory.                *)
(***************************************************************************)
\* f2_dent_insert, f2_inline_insert: the first run of free slots; {} when the
\* name does not fit.
F2Taken(ents) == UNION {e.at..(e.at + F2Slots(e.name) - 1) : e \in ents}
F2Places(ents, cap, name) ==
    {i \in 1..(cap - F2Slots(name) + 1) : F2Taken(ents) \cap (i..(i + F2Slots(name) - 1)) = {}}
F2With(ents, places, name, n, isdir) ==
    ents \cup {[name |-> name, n |-> n, dir |-> isdir, at |-> Min(places)]}

\* f2_dir_get_or_alloc_block, for the addresses in the inode.
NewDirBlock(a, l) ==
    IF a.r.b = 0 THEN a
    ELSE [F2Put(a, <<"b", a.r.b>>, F2Dent({})) EXCEPT !.r.dir.addr[l] = a.r.b]
DirBlock(s, l) ==
    IF l > F2Direct THEN [s EXCEPT !.r.b = 0]
    ELSE IF s.r.dir.addr[l] # 0 THEN [s EXCEPT !.r.b = s.r.dir.addr[l]]
    ELSE NewDirBlock(F2Alloc(s, "data"), l)

\* f2_dir_add_dentry: the two blocks of each level down to the current depth,
\* then one level more.
PlaceIn(u, l, name, n, isdir) ==
    LET old    == DentsIn(u.disk[<<"b", u.r.b>>])
        places == F2Places(old, F2BlkSlots, name)
    IN  IF u.r.b = 0 \/ places = {} THEN u
        ELSE [F2Put(u, <<"b", u.r.b>>, F2Dent(F2With(old, places, name, n, isdir)))
                EXCEPT !.r.placed = TRUE, !.r.dir.size = IF l > @ THEN l ELSE @]
OneDeeper(s) ==
    IF s.r.placed \/ s.r.dir.depth + 1 >= F2Levels THEN s ELSE [s EXCEPT !.r.dir.depth = @ + 1]
PlacedOrFail(s) == IF s.r.placed THEN s ELSE Fail(s)
AddDentry(s, name, n, isdir) ==
    LET try(t, l)   == IF t.r.placed \/ l > 2 * (t.r.dir.depth + 1) THEN t
                       ELSE PlaceIn(DirBlock(t, l), l, name, n, isdir)
        round(t, i) == OneDeeper(Loop(t, 2 * F2Levels, try))
    IN  PlacedOrFail(Loop([s EXCEPT !.r.placed = FALSE], F2Levels, round))

\* f2_dir_convert_inline: the entries move to blocks one by one.
AddAll(s, es) == Loop(s, Len(es), LAMBDA t, i : AddDentry(t, es[i].name, es[i].n, es[i].dir))
ConvertInline(s) ==
    AddAll([s EXCEPT !.r.dir = [@ EXCEPT !.inl = FALSE, !.ents = {}, !.addr = F2NoAddr, !.dn = 0, !.size = 0, !.depth = 0]],
           SetToSortSeq(s.r.dir.ents, LAMBDA a, b : a.at < b.at))

\* The entry goes into the parent: inline, after conversion, or into a block.
F2Link(s, name, n, isdir) ==
    LET places == F2Places(s.r.dir.ents, F2Inline, name) IN
    IF ~s.r.dir.inl THEN AddDentry(s, name, n, isdir)
    ELSE IF places # {} THEN [s EXCEPT !.r.dir.ents = F2With(@, places, name, n, isdir)]
    ELSE Then(ConvertInline(s), LAMBDA t : AddDentry(t, name, n, isdir))

\* Faulty variant: the directory block is not written.
F2UnlinkInlineOnly(s, name) == [s EXCEPT !.r.dir.ents = {e \in @ : e.name # name}]

\* The entry leaves its block (f2fs_delete_file, f2_rmdir_detach_regular), or
\* the inode in memory.
F2Unlink(s, name) ==
    LET held == {i \in 1..F2Direct : s.r.dir.addr[i] # 0 /\
                    \E e \in DentsIn(s.disk[<<"b", s.r.dir.addr[i]>>]) : e.name = name}
        b    == s.r.dir.addr[Min(held)]
    IN  IF s.r.dir.inl THEN [s EXCEPT !.r.dir.ents = {e \in @ : e.name # name}]
        ELSE F2Put(s, <<"b", b>>, F2Dent({e \in DentsIn(s.disk[<<"b", b>>]) : e.name # name}))

\* f2_dir_find
F2Find(s, name) == {e \in F2Entries(s.disk, s.r.dir) : e.name = name}

(***************************************************************************)
(* Calls.                                                                  *)
(***************************************************************************)
F2Begin(d, m, f) == Begin(d, m, [b |-> 0, nid |-> 0, dir |-> F2Blank, w |-> F2Blank, placed |-> FALSE], f)
F2Load(s, parent) == [s EXCEPT !.r.dir = NodeAt(s.disk, s.mem, parent)[1]]

\* The blocks of a node: data, direct node and its data.
DnBlocks(d, m, node) ==
    LET b == NatLookup(d, m, node.dn)
    IN  IF node.dn = 0 \/ b = 0 THEN <<>> ELSE Append(EntBlocks(d[<<"b", b>>]), b)
NodeBlocks(d, m, node) == IF node.inl THEN <<>> ELSE EntBlocks(node) \o DnBlocks(d, m, node)

\* f2_rollback_new_inode: the blocks, not the node number.  It reads the
\* addresses of an inline file too, where its content is.
F2Rollback(s, b) ==
    LET w      == s.r.w
        spelled == IF w.inl THEN [i \in DOMAIN w.data |-> F2Word[w.data[i]]] ELSE NodeBlocks(s.disk, s.mem, w)
    IN  Fail(F2FreeBlocks(s, Append(spelled, b)))

\* f2_file_write_blocks: direct addresses, then one direct node, whose number
\* is looked for before the file's own is entered; a failure returns without
\* giving anything back.  r.dir serves as the buffer of the direct node.
FileBlock(a, l, v) ==
    LET w == F2Put(a, <<"b", a.r.b>>, F2Data(v))
    IN  IF a.r.b = 0 THEN Fail(a)
        ELSE IF l <= F2Direct THEN [w EXCEPT !.r.w.addr[l] = a.r.b]
        ELSE [w EXCEPT !.r.dir = [@ EXCEPT !.addr[l - F2Direct] = a.r.b]]
Least(a, b) == IF a < b THEN a ELSE b
DirectPart(s, data) ==
    Loop(s, Least(Len(data), F2Direct), LAMBDA t, l : FileBlock(F2Alloc(t, "data"), l, data[l]))
DnodePart(s, data) ==
    Loop([s EXCEPT !.r.dir = F2Node("dnode", FALSE, 0, <<>>, {}, F2NoAddr, 0, 0)],
         Least(Len(data) - F2Direct, F2Direct),
         LAMBDA t, i : FileBlock(F2Alloc(t, "data"), F2Direct + i, data[F2Direct + i]))
DnodeWritten(a, nid, dir) ==
    IF a.r.b = 0 THEN Fail(a)
    ELSE [NatSet(F2Put(a, <<"b", a.r.b>>, a.r.dir), nid, a.r.b) EXCEPT !.r.w.dn = nid, !.r.dir = dir]
TooLong(s, data) == IF Len(data) > 2 * F2Direct THEN Fail(s) ELSE s
ThroughDnode(s, data, nids) ==
    IF nids = {} THEN Fail(s)
    ELSE Then(Then(DnodePart(s, data), LAMBDA t : DnodeWritten(F2Alloc(t, "node"), Min(nids), s.r.dir)),
              LAMBDA t : TooLong(t, data))
FileBlocks(s, data) ==
    Then(DirectPart(s, data),
         LAMBDA t : IF Len(data) <= F2Direct THEN t ELSE ThroughDnode(t, data, F2FreeNids(t)))

\* Node, address table, entry, parent, checkpoint: what create and mkdir share.
WriteParent(s, parent) == F2Put(s, <<"b", NatLookup(s.disk, s.mem, parent)>>, s.r.dir)
Linked(s, parent, b) ==
    IF s.ret # 0 THEN F2Rollback([s EXCEPT !.ret = 0], b) ELSE CpCommit(WriteParent(s, parent))
PublishAt(a, parent, name, isdir) ==
    IF a.r.b = 0 THEN F2Rollback(a, 0)
    ELSE Linked(F2Link(NatSet(F2Put(a, <<"b", a.r.b>>, a.r.w), a.r.nid, a.r.b), name, a.r.nid, isdir),
                parent, a.r.b)
F2Publish(s, parent, name, isdir) == PublishAt(F2Alloc(s, "node"), parent, name, isdir)

\* f2_remove_child, f2fs_delete_file: entry, parent, then the blocks, the
\* address, the checkpoint.
FreeNode(s, n) == F2FreeBlocks(s, <<NatLookup(s.disk, s.mem, n)>>)
DropDnode(s, dn) == IF dn = 0 \/ NatLookup(s.disk, s.mem, dn) = 0 THEN s ELSE NatSet(s, dn, 0)
FreeFile(s, n, node) ==
    IF node = <<>> THEN s
    ELSE FreeNode(DropDnode(F2FreeBlocks(s, NodeBlocks(s.disk, s.mem, node[1])), node[1].dn), n)
DropFile(s, n) == CpCommit(NatSet(FreeFile(s, n, NodeAt(s.disk, s.mem, n)), n, 0))
F2DeleteIn(s, parent, name) ==
    LET hit == F2Find(s, name)
    IN  IF \A e \in hit : e.dir THEN Fail(s)
        ELSE DropFile(WriteParent(F2Unlink(s, name), parent), NumberIn(hit))
F2DeleteFrom(s, parent, comps) ==
    IF parent = 0 THEN Fail(s) ELSE F2DeleteIn(F2Load(s, parent), parent, Last(comps))
F2Delete(s, comps) == F2DeleteFrom(s, F2Parent(s.disk, s.mem, comps), comps)

\* f2fs_create_file: an old file is deleted first; two blocks and more do not
\* fit into the inode.
FileNode(data) ==
    LET inl == Len(data) <= 1
    IN  F2Node("file", inl, Len(data), IF inl THEN data ELSE <<>>, {}, F2NoAddr, 0, 0)
CreateNew(s, parent, name, data) ==
    LET s1 == [s EXCEPT !.r.nid = Min(F2FreeNids(s)), !.r.w = FileNode(data)]
    IN  IF F2FreeNids(s) = {} THEN Fail(s)
        ELSE Then(IF Len(data) <= 1 THEN s1 ELSE FileBlocks(s1, data),
                  LAMBDA t : F2Publish(t, parent, name, FALSE))
CreateOver(s, parent, comps, data, hit) ==
    IF \E e \in hit : e.dir THEN Fail(s)
    ELSE CreateNew(F2Load(IF hit = {} THEN s ELSE F2Delete(s, comps), parent), parent, Last(comps), data)
F2CreateIn(s, parent, comps, data) ==
    IF parent = 0 THEN Fail(s)
    ELSE CreateOver(s, parent, comps, data, F2Find(F2Load(s, parent), Last(comps)))
F2Create(s, comps, data) == F2CreateIn(s, F2Parent(s.disk, s.mem, comps), comps, data)

\* f2fs_mkdir: the new directory keeps its entries inline.
MkdirNew(s, parent, name) ==
    IF F2Find(s, name) # {} \/ F2FreeNids(s) = {} THEN Fail(s)
    ELSE F2Publish([s EXCEPT !.r.nid = Min(F2FreeNids(s)),
                             !.r.w = F2Node("dir", TRUE, 1, <<>>, {}, F2NoAddr, 0, 0)], parent, name, TRUE)
F2MkdirIn(s, parent, comps) ==
    IF parent = 0 THEN Fail(s) ELSE MkdirNew(F2Load(s, parent), parent, Last(comps))
F2Mkdir(s, comps) == F2MkdirIn(s, F2Parent(s.disk, s.mem, comps), comps)

\* f2fs_rmdir: only an inline parent's node is written.
Detached(s, parent, inline) == IF inline THEN WriteParent(s, parent) ELSE s
DropDir(s, n, blocks) == CpCommit(NatSet(FreeNode(F2FreeBlocks(s, blocks), n), n, 0))
RmdirNode(s, parent, name, n, node) ==
    IF ~IsDirNode(node) \/ F2Real(F2Entries(s.disk, node[1])) # {} THEN Fail(s)
    ELSE DropDir(Detached(F2Unlink(s, name), parent, s.r.dir.inl), n, NodeBlocks(s.disk, s.mem, node[1]))
RmdirHit(s, parent, name, hit) ==
    IF \A e \in hit : ~e.dir THEN Fail(s)
    ELSE RmdirNode(s, parent, name, NumberIn(hit), NodeAt(s.disk, s.mem, NumberIn(hit)))
F2RmdirIn(s, parent, name) ==
    IF parent = 0 THEN Fail(s) ELSE RmdirHit(F2Load(s, parent), parent, name, F2Find(F2Load(s, parent), name))
F2Rmdir(s, comps) == F2RmdirIn(s, F2Parent(s.disk, s.mem, comps), Last(comps))

(***************************************************************************)
(* f2fs_format, f2fs_mount, and what a check of the volume would say.      *)
(***************************************************************************)
F2Fresh ==
    LET at  == ({"cp", "cpt", "j", "nat"} \X {0, 1}) \cup {<<"sit", 1>>} \cup ({"b"} \X F2Blk)
        ino == F2Addr(0, 1)
        ent == F2Addr(F2DataSeg, 0)
        nat == [n \in {F2Root} \cup F2NidSet |-> IF n = F2Root THEN ino ELSE 0]
        cp  == [ver |-> 1, node |-> [seg |-> 0, off |-> 2], data |-> [seg |-> F2DataSeg, off |-> 1]]
    IN  [a \in at |->
          CASE a[1] \in {"cp", "cpt"} -> IF a[2] = 1 THEN cp ELSE [cp EXCEPT !.ver = 0]
            [] a[1] = "j"             -> <<>>
            [] a[1] = "nat"           -> nat
            [] a[1] = "sit"           -> {ino, ent}
            [] a = <<"b", ino>>       -> F2Node("dir", FALSE, 1, <<>>, {}, [F2NoAddr EXCEPT ![1] = ent], 0, 0)
            [] a = <<"b", ent>>       -> F2Dent({[name |-> ".", n |-> F2Root, dir |-> TRUE, at |-> 1],
                                                 [name |-> "..", n |-> F2Root, dir |-> TRUE, at |-> 2]})
            [] OTHER                  -> F2Blank]

\* f2_validate_cp: head and tail agree; the higher version wins.
F2Mount(d) ==
    LET ok == {p \in {0, 1} : d[<<"cp", p>>].ver # 0 /\ d[<<"cp", p>>] = d[<<"cpt", p>>]}
        p  == CHOOSE x \in ok : \A y \in ok : d[<<"cp", y>>].ver <= d[<<"cp", x>>].ver
        cp == d[<<"cp", p>>]
    IN  [ver |-> cp.ver, node |-> cp.node, data |-> cp.data, j |-> d[<<"j", p>>]]

F2Check(d, m) ==
    LET under(n) == LET x == NodeAt(d, m, n)
                    IN  IF x = <<>> THEN {} ELSE IF x[1].mode # "dir" THEN {}
                        ELSE {e.n : e \in F2Real(F2Entries(d, x[1]))}
        named == FoldLeft(LAMBDA w, i : w \cup UNION {under(n) : n \in w}, {F2Root}, [i \in 1..F2Nids |-> i])
        live  == {n \in named : NodeAt(d, m, n) # <<>>}
        held(n) == ToSet(NodeBlocks(d, m, NodeAt(d, m, n)[1])) \cup {NatLookup(d, m, n)}
        valid == d[<<"sit", 1>>]
        all   == UNION {held(n) : n \in live}
    IN  [dangling      |-> named \ live,
         crosslink     |-> {b \in F2Blk : Cardinality({n \in live : b \in held(n)}) > 1},
         free_but_used |-> all \ valid,
         orphan        |-> valid \ all]
=============================================================================
