-------------------------------- MODULE Refs --------------------------------
(***************************************************************************)
(* The ReFS driver, kernel/refs.c.  Nothing that is in use is written in   *)
(* place: a call writes the new directory node and the new objects tree    *)
(* (object id -> directory block) to blocks never handed out before, then  *)
(* the other one of two checkpoints, which names the tree.  A checkpoint's *)
(* fields lie in its first sector, so it is there or not.                  *)
(*                                                                         *)
(* disk: <<"cp", 0>> and <<"cp", 1>>, <<"b", n>> the blocks (1 and 2 are   *)
(* the tree and the root directory of refs_format).  mem: the checkpoint   *)
(* in use, its tree, the root directory's block, the next block and the    *)
(* next object id.  (The copy of the volume header shares the last block,  *)
(* which is handed out like the others: it is not kept here.)              *)
(***************************************************************************)
EXTENDS DiskCall, FiniteSets, FiniteSetsExt

CONSTANTS
    RsBlocks,    \* blocks of 16 KB on the volume
    RsPerBlock,  \* 4: rs_pool_max counts 4 KB units
    RsDirCap,    \* entries of a directory node
    RsObjs       \* OBJ_SUB_MAX - OBJ_SUB_BASE + 1

RsRoot    == 0
RsBlk     == 1..RsBlocks
RsPoolMax == RsBlocks * RsPerBlock - 1     \* refs_mount, refs_format
RsTree(objs) == [k |-> "tree", objs |-> objs]
RsDir(ents)  == [k |-> "dir", ents |-> ents]
RsData(v)    == [k |-> "data", v |-> v]
\* rs_build_file_value, rs_build_dir_value: id = 0 for a file of n blocks at p.
RsEntry(name, id, p, n) == [name |-> name, id |-> id, p |-> p, n |-> n]

(***************************************************************************)
(* Reading: rs_load_node, rs_obj_blk, rs_walk.                             *)
(***************************************************************************)
RsNode(d, b, kind) == b \in RsBlk /\ d[<<"b", b>>].k = kind
Objs(d, m) == IF RsNode(d, m.tree, "tree") THEN d[<<"b", m.tree>>].objs ELSE <<>>
RsBlkOf(d, m, id) == CASE id = RsRoot               -> m.root
                       [] id \in DOMAIN Objs(d, m)   -> Objs(d, m)[id]
                       [] OTHER                      -> 0
RsEnts(d, m, id) == LET b == RsBlkOf(d, m, id) IN IF RsNode(d, b, "dir") THEN d[<<"b", b>>].ents ELSE {}

\* The entry of comps, {} when a step fails; a walk starts with the tree.
RsStep(d, m, hit, name) ==
    IF \E e \in hit : e.id # -1 THEN {f \in RsEnts(d, m, (CHOOSE e \in hit : TRUE).id) : f.name = name} ELSE {}
RsWalk(d, m, comps) ==
    IF ~RsNode(d, m.tree, "tree") THEN {}
    ELSE FoldLeft(LAMBDA hit, name : RsStep(d, m, hit, name), {RsEntry("/", RsRoot, 0, 0)}, comps)
RsIsDir(d, m, comps) == comps = <<>> \/ \E e \in RsWalk(d, m, comps) : e.id # -1 /\ RsBlkOf(d, m, e.id) # 0

\* refs_read_file
RsSeen(d, m, comps) ==
    LET hit == RsWalk(d, m, comps)
        e   == CHOOSE x \in hit : TRUE
    IN  IF hit = {} THEN <<>>
        ELSE IF e.id # -1 THEN <<[k |-> "dir"]>>
        ELSE <<[k |-> "file", v |-> [i \in 1..e.n |->
                 LET b == d[<<"b", e.p + i - 1>>] IN IF b.k = "data" THEN b.v ELSE "other"]]>>

(***************************************************************************)
(* Writing.                                                                *)
(***************************************************************************)
\* rs_write_block: the pool is larger than the volume.
RsWrite(s, b, v) == IF b > RsBlocks THEN [s EXCEPT !.err = TRUE] ELSE Write(s, <<"b", b>>, v)

\* rs_alloc, rs_rollback_alloc.
RsAlloc(s) == IF s.mem.hint >= RsPoolMax THEN Fail(s) ELSE [s EXCEPT !.r.b = s.mem.hint, !.mem.hint = @ + 1]
RsBack(s, n) == [s EXCEPT !.mem.hint = @ - n]

\* Faulty variant: the checkpoint goes out before the tree.
RsCommitFlipFirst(s, id, blk) ==
    LET a    == RsAlloc(s)
        cp   == [seq |-> s.mem.seq + 1, tree |-> a.r.b]
        flip == Or(Write(a, <<"cp", 1 - s.mem.cp>>, cp), LAMBDA t : RsBack(t, 1))
        w    == Or(RsWrite(flip, a.r.b, RsTree([s.r.tree EXCEPT ![id] = blk])), LAMBDA t : RsBack(t, 1))
    IN  IF a.ret # 0 \/ id \notin DOMAIN s.r.tree THEN Fail(s)
        ELSE IF flip.ret # 0 THEN flip
        ELSE IF w.ret # 0 THEN w
        ELSE [w EXCEPT !.mem = [@ EXCEPT !.cp = 1 - @, !.seq = cp.seq, !.tree = cp.tree,
                                         !.root = IF id = RsRoot THEN blk ELSE @]]

\* rs_commit: the tree in memory is r.tree; `blk' is the directory's new node.
RsCommit(s, id, blk) ==
    LET a    == RsAlloc(s)
        w    == Or(RsWrite(a, a.r.b, RsTree([s.r.tree EXCEPT ![id] = blk])), LAMBDA t : RsBack(t, 1))
        cp   == [seq |-> s.mem.seq + 1, tree |-> a.r.b]
        flip == Or(Write(w, <<"cp", 1 - s.mem.cp>>, cp), LAMBDA t : RsBack(t, 1))
    IN  IF a.ret # 0 \/ id \notin DOMAIN s.r.tree THEN Fail(s)
        ELSE IF w.ret # 0 THEN w
        ELSE IF flip.ret # 0 THEN flip
        ELSE [flip EXCEPT !.mem = [@ EXCEPT !.cp = 1 - @, !.seq = cp.seq, !.tree = cp.tree,
                                            !.root = IF id = RsRoot THEN blk ELSE @]]

\* A failure after n blocks were taken: `rs_rollback_alloc(n, ..); return -1'.
Undo(n, ok) == IF ok.ret = 0 THEN ok ELSE [RsBack(ok, n) EXCEPT !.ret = -1]

\* The new node of directory id, then the tree as Change makes it from the one
\* on the disk, then the checkpoint; n blocks were taken before.
RsPublish(s, id, ents, n, Change(_)) ==
    LET a == RsAlloc(s)
        w == OrFail(RsWrite(a, a.r.b, RsDir(ents)))
        c == RsCommit([w EXCEPT !.r.tree = Change(Objs(w.disk, w.mem))], id, a.r.b)
    IN  IF Cardinality(ents) > RsDirCap THEN Fail(RsBack(s, n))
        ELSE IF a.ret # 0 THEN Undo(n, a)
        ELSE IF w.ret # 0 THEN Undo(n + 1, w)
        ELSE IF ~RsNode(w.disk, w.mem.tree, "tree") THEN Fail(RsBack(w, n + 1))
        ELSE Undo(n + 1, c)

RsBegin(d, m, f) == Begin(d, m, [b |-> 0, tree |-> <<>>], f)
\* rs_split_parent: the parent's object id, -1 when there is none.
RsParent(s, comps) ==
    IF comps # <<>> /\ RsIsDir(s.disk, s.mem, Front(comps)) /\ RsNode(s.disk, s.mem.tree, "tree")
    THEN (CHOOSE e \in RsWalk(s.disk, s.mem, Front(comps)) : TRUE).id ELSE -1
RsFind(s, id, name) == {e \in RsEnts(s.disk, s.mem, id) : e.name = name}

\* refs_create_file: the data first; an old entry is left out of the new node.
RsCreate(s, comps, data) ==
    LET id  == RsParent(s, comps)
        old == RsFind(s, id, Last(comps))
        p   == s.mem.hint
        n   == Len(data)
        s1  == Loop(s, n, LAMBDA t, i : OrFail(RsWrite(t, p + i - 1, RsData(data[i]))))
    IN  IF id = -1 THEN Fail(s)
        ELSE IF (\E e \in old : e.id # -1) \/ p + n > RsPoolMax THEN Fail(s)
        ELSE Then(s1, LAMBDA t : RsPublish([t EXCEPT !.mem.hint = @ + n], id,
                 (RsEnts(s.disk, s.mem, id) \ old) \cup {RsEntry(Last(comps), -1, p, n)}, n, LAMBDA o : o))

\* refs_mkdir: the empty node, the parent's node, one object more.
RsMkdir(s, comps) ==
    LET id  == RsParent(s, comps)
        sub == s.mem.next
        a   == RsAlloc([s EXCEPT !.mem.next = @ + 1])
        w   == OrFail(RsWrite(a, a.r.b, RsDir({})))
        ok  == RsPublish(w, id, RsEnts(s.disk, s.mem, id) \cup {RsEntry(Last(comps), sub, 0, 0)}, 1,
                         LAMBDA o : [x \in DOMAIN o \cup {sub} |-> IF x = sub THEN a.r.b ELSE o[x]])
        end == IF a.ret # 0 THEN a ELSE IF w.ret # 0 THEN RsBack(w, 1) ELSE ok
    IN  IF id = -1 THEN Fail(s)
        ELSE IF RsFind(s, id, Last(comps)) # {} \/ sub > RsObjs THEN Fail(s)
        ELSE IF end.ret = 0 THEN end ELSE [end EXCEPT !.mem.next = sub]

\* refs_delete_file, which takes an empty directory too, and refs_rmdir.
RsDelete(s, comps) ==
    LET hit == IF comps = <<>> THEN {} ELSE RsWalk(s.disk, s.mem, comps)
        e   == CHOOSE x \in hit : TRUE
        id  == RsParent(s, comps)
    IN  IF hit = {} THEN Fail(s)
        ELSE IF e.id # -1 /\ RsEnts(s.disk, s.mem, e.id) # {} THEN Fail(s)
        ELSE RsPublish(s, id, RsEnts(s.disk, s.mem, id) \ hit, 0,
                       LAMBDA o : [x \in DOMAIN o \ {e.id} |-> o[x]])
RsRmdir(s, comps) == IF RsIsDir(s.disk, s.mem, comps) THEN RsDelete(s, comps) ELSE Fail(s)

(***************************************************************************)
(* refs_format, refs_mount with rs_scan_live, and what a check would say.  *)
(***************************************************************************)
RsFresh ==
    LET at == ({"cp"} \X {0, 1}) \cup ({"b"} \X RsBlk)
    IN  [a \in at |-> CASE a[1] = "cp"     -> [seq |-> 1 - a[2], tree |-> 1]
                        [] a = <<"b", 1>>  -> RsTree(RsRoot :> 2)
                        [] a = <<"b", 2>>  -> RsDir({})
                        [] OTHER           -> RsData("zero")]

\* The blocks of the directories and of the files below them.
RsHeld(d, m, id) == {RsBlkOf(d, m, id)} \cup
                    UNION {e.p..(e.p + e.n - 1) : e \in {x \in RsEnts(d, m, id) : x.id = -1}}
RsLive(d, m) == UNION {RsHeld(d, m, id) : id \in DOMAIN Objs(d, m)}

\* The checkpoint with the higher sequence number; rs_scan_live puts the next
\* block behind the highest one of a directory or a file.
RsMount(d) ==
    LET c    == IF d[<<"cp", 1>>].seq > d[<<"cp", 0>>].seq THEN 1 ELSE 0
        tree == d[<<"cp", c>>].tree
        objs == IF RsNode(d, tree, "tree") THEN d[<<"b", tree>>].objs ELSE (RsRoot :> 0)
        m    == [cp |-> c, seq |-> d[<<"cp", c>>].seq, tree |-> tree, root |-> objs[RsRoot],
                 hint |-> 0, next |-> Max(DOMAIN objs) + 1]
    IN  [m EXCEPT !.hint = Max(RsLive(d, m) \cup {2}) + 1]

RsCheck(d, m) ==
    LET ids == DOMAIN Objs(d, m)
    IN  [dangling  |-> {id \in ids : ~RsNode(d, RsBlkOf(d, m, id), "dir")}
                       \cup UNION {{e.id : e \in RsEnts(d, m, id)} \ (ids \cup {-1}) : id \in ids},
         crosslink |-> {b \in RsBlk : Cardinality({id \in ids : b \in RsHeld(d, m, id)}) > 1}
                       \cup (RsLive(d, m) \cap {m.tree}),
         free_but_used |-> {b \in RsLive(d, m) \cup {m.tree} : b >= m.hint}]
=============================================================================
