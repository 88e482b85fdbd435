-------------------------------- MODULE Ntfs --------------------------------
(***************************************************************************)
(* The NTFS driver, kernel/ntfs.c.  disk: <<"rec", n>> are the MFT records *)
(* (n = 5 the root directory, 12 and up the driver's own), <<"map", 6>>    *)
(* and <<"map", 0>> the two bitmaps inside records 6 and 0, <<"c", n>> the *)
(* clusters.  A record and an INDX block are several sectors with an       *)
(* update sequence over them: half written, nt_fixup refuses it, so such a *)
(* write passes through Torn.  Both bitmaps are loaded when a call starts, *)
(* changed in memory, and saved last.                                      *)
(*                                                                         *)
(* Names are found by walking all entries, so an index is a set.  The MFT  *)
(* ntfs_format makes has NtRecs free records, fewer than one INDX leaf     *)
(* holds: nt_indx_split is never reached and a large directory has one     *)
(* leaf in use.  Runs of so small a volume are decoded to what was encoded.*)
(***************************************************************************)
EXTENDS DiskCall, FiniteSets, FiniteSetsExt

CONSTANTS
    NtRecs,          \* 4: records 12 .. 15
    NtClusters,      \* clusters behind the MFT
    NtRootUnits,     \* room for entries in a directory's record
    NtIndxBlocks,    \* 4: clusters of an index allocation
    NtRunMax, NtRuns,\* 256 and 16: clusters of a run, runs of a file
    LfnSlots

NtRoot  == 5
NtOwn   == 12..(11 + NtRecs)
NtTop   == 12..63                          \* NT_MFT_REC_MAX
NtClu   == 1..NtClusters
NtUnits(name) == 1 + (IF name \in DOMAIN LfnSlots THEN LfnSlots[name] ELSE 0)

Torn  == [k |-> "torn"]
Blank == [k |-> "blank"]
\* nt_build_record: a file of one cluster's content or less is resident.
NtFileRec(data, runs) == [k |-> "file", use |-> TRUE, data |-> data, runs |-> runs]
NtDirRec(ents, used, base) == [k |-> "dir", use |-> TRUE, ents |-> ents, used |-> used, base |-> base]
NtEntry(name, n) == [name |-> name, n |-> n]
NtRange(p, n)    == p..(p + n - 1)
RunsOf(rec) == IF rec.k = "dir" THEN <<>> ELSE rec.runs
RunClusters(runs) == UNION {NtRange(runs[i].p, runs[i].n) : i \in DOMAIN runs}

(***************************************************************************)
(* Reading.                                                                *)
(***************************************************************************)
\* nt_read_record: mapped by the MFT's runs and whole.
NtReadable(d, n) == <<"rec", n>> \in DOMAIN d /\ d[<<"rec", n>>].k \notin {"torn", "blank"}
NtIsDir(rec)     == rec.k = "dir" /\ rec.use

\* nt_dir_walk: the entries of the root node and of the leaf, <<>> when the
\* leaf cannot be read.
NtWalk(d, rec) ==
    CASE rec.base = 0                        -> <<rec.ents>>
      [] d[<<"c", rec.base>>].k = "indx"     -> <<rec.ents \cup d[<<"c", rec.base>>].ents>>
      [] OTHER                               -> <<>>
NtHit(d, rec, name) ==
    LET w == NtWalk(d, rec) IN IF w = <<>> THEN {} ELSE {e \in w[1] : e.name = name}

\* nt_resolve, nt_resolve_dir: the record number, 0 when a step fails, -1 when
\* it fails because what it has to read is half written.
NtTorn(d, n)  == <<"rec", n>> \in DOMAIN d /\ d[<<"rec", n>>] = Torn
NtTornDir(d, rec) == rec.base # 0 /\ d[<<"c", rec.base>>] = Torn
NtStep(d, n, name) ==
    LET rec == d[<<"rec", n>>]
        hit == NtHit(d, rec, name)
        m   == (CHOOSE e \in hit : TRUE).n
    IN  IF n \in {0, -1} THEN n
        ELSE IF ~NtReadable(d, n) \/ ~NtIsDir(rec) THEN 0
        ELSE IF NtTornDir(d, rec) THEN -1
        ELSE IF hit = {} THEN 0
        ELSE IF NtTorn(d, m) THEN -1
        ELSE IF NtReadable(d, m) /\ d[<<"rec", m>>].use THEN m ELSE 0
NtResolve(d, comps) ==
    FoldLeft(LAMBDA n, name : NtStep(d, n, name), IF NtTorn(d, NtRoot) THEN -1 ELSE NtRoot, comps)
NtParent(d, comps) ==
    LET n == IF comps = <<>> THEN 0 ELSE NtResolve(d, Front(comps))
    IN  IF n > 0 /\ NtReadable(d, n) /\ NtIsDir(d[<<"rec", n>>]) THEN n ELSE 0

\* ntfs_is_dir, ntfs_read_file.
NtDirAt(d, comps) ==
    LET n == NtResolve(d, comps) IN n > 0 /\ NtReadable(d, n) /\ NtIsDir(d[<<"rec", n>>])
NtBody(d, rec) ==
    LET cl == FlattenSeq([i \in DOMAIN rec.runs |-> [j \in 1..rec.runs[i].n |-> rec.runs[i].p + j - 1]])
    IN  IF rec.runs = <<>> THEN rec.data
        ELSE [i \in DOMAIN cl |-> IF d[<<"c", cl[i]>>].k = "data" THEN d[<<"c", cl[i]>>].v ELSE "other"]
NtSeen(d, comps) ==
    LET n == NtResolve(d, comps) IN
    IF n = -1 THEN <<[k |-> "torn"]>>
    ELSE IF n = 0 \/ ~NtReadable(d, n) THEN <<>>
    ELSE IF NtIsDir(d[<<"rec", n>>]) THEN <<[k |-> "dir"]>>
    ELSE <<[k |-> "file", v |-> NtBody(d, d[<<"rec", n>>])]>>

(***************************************************************************)
(* Records and bitmaps.                                                    *)
(***************************************************************************)
\* nt_write_record, nt_write_indx: sector by sector.
WriteTorn(s, at, v) ==
    LET s1 == Write(s, at, Torn)
    IN  IF at \notin DOMAIN s.disk THEN [s EXCEPT !.err = TRUE]
        ELSE IF s1.err THEN s1 ELSE Write(s1, at, v)
WriteRec(s, n, v) == WriteTorn(s, <<"rec", n>>, v)

\* nt_maps_load, nt_maps_save.
MapsLoad(s) ==
    IF s.disk[<<"map", 6>>] = Torn \/ s.disk[<<"map", 0>>] = Torn THEN Fail(s)
    ELSE [s EXCEPT !.r.v = s.disk[<<"map", 6>>].used, !.r.m = s.disk[<<"map", 0>>].used]
MapsSave(s) ==
    LET s1 == OrFail(WriteTorn(s, <<"map", 6>>, [k |-> "map", used |-> s.r.v]))
    IN  Then(s1, LAMBDA t : OrFail(WriteTorn(t, <<"map", 0>>, [k |-> "map", used |-> t.r.m \cap NtOwn])))

\* nt_alloc_mft: the bits past the bitmap read as free.
AllocMft(s) ==
    LET free == NtTop \ s.r.m
    IN  IF free = {} THEN Fail(s) ELSE [s EXCEPT !.r.n = Min(free), !.r.m = @ \cup {Min(free)}]
FreeMft(s, n) == [s EXCEPT !.r.m = @ \ {n}]

\* nt_alloc_clusters: the first n free clusters in a row; r.p = 0 when none.
AllocClusters(s, n) ==
    LET ok == {p \in NtClu : NtRange(p, n) \subseteq NtClu \ s.r.v}
    IN  IF ok = {} THEN [s EXCEPT !.r.p = 0] ELSE [s EXCEPT !.r.p = Min(ok), !.r.v = @ \cup NtRange(Min(ok), n)]

\* nt_free_data_runs
FreeRuns(s, runs) == [s EXCEPT !.r.v = @ \ RunClusters(runs)]
BaseRuns(rec) == IF rec.k = "dir" /\ rec.base # 0 THEN <<[p |-> rec.base, n |-> NtIndxBlocks]>> ELSE <<>>

(***************************************************************************)
(* Directory entries; r.dir is the parent's record in memory.              *)
(***************************************************************************)
\* nt_dir_make_large: all entries go to a leaf, which is written at once; the
\* record keeps its length and gains two attributes.
MakeLarge(s) ==
    LET a == AllocClusters(s, NtIndxBlocks)
        w == WriteTorn(a, <<"c", a.r.p>>, [k |-> "indx", ents |-> s.r.dir.ents])
    IN  IF a.r.p = 0 \/ s.r.dir.used + 1 > NtRootUnits THEN Fail(a)
        ELSE OrFail([w EXCEPT !.r.dir = NtDirRec({}, s.r.dir.used + 1, a.r.p)])

\* nt_indx_insert, nt_indx_remove: the leaf is written at once.
SetLeaf(s, ents) == OrFail(WriteTorn(s, <<"c", s.r.dir.base>>, [k |-> "indx", ents |-> ents]))
Leaf(s) == s.disk[<<"c", s.r.dir.base>>]
IndxInsert(s, e) == IF Leaf(s).k = "indx" THEN SetLeaf(s, Leaf(s).ents \cup {e}) ELSE Fail(s)

\* nt_dir_insert
DirInsert(s, name, n) ==
    LET e == NtEntry(name, n) IN
    IF s.r.dir.base # 0 THEN IndxInsert(s, e)
    ELSE IF s.r.dir.used + NtUnits(name) <= NtRootUnits
         THEN [s EXCEPT !.r.dir.ents = @ \cup {e}, !.r.dir.used = @ + NtUnits(name)]
         ELSE Then(MakeLarge(s), LAMBDA t : IndxInsert(t, e))

\* nt_remove_entry (in memory), nt_indx_remove (on the disk).
DirRemove(s, e) ==
    IF e \in s.r.dir.ents
    THEN [s EXCEPT !.r.dir.ents = @ \ {e}, !.r.dir.used = @ - NtUnits(e.name)]
    ELSE SetLeaf(s, Leaf(s).ents \ {e})

(***************************************************************************)
(* Calls.                                                                  *)
(***************************************************************************)
NtLocals == [v |-> {}, m |-> {}, n |-> 0, p |-> 0, runs |-> <<>>, dir |-> Blank]
NtBegin(d, m, f) == Begin(d, m, NtLocals, f)

\* The parent is read into nt_rec before anything changes.
WithParent(s, comps, F(_, _)) ==
    LET p  == NtParent(s.disk, comps)
        s1 == MapsLoad(s)
    IN  IF p = 0 THEN Fail(s) ELSE Then(s1, LAMBDA t : F([t EXCEPT !.r.dir = t.disk[<<"rec", p>>]], p))
Found(s, name) == NtHit(s.disk, s.r.dir, name)

\* What create does to the file it replaces: the record is given up on the
\* disk whatever the write returns, the entry only in memory (small directory).
NtDropOld(s, e) ==
    LET rec == s.disk[<<"rec", e.n>>]
        s1  == IF NtReadable(s.disk, e.n)
               THEN FreeMft(FreeRuns(Ok(WriteRec(s, e.n, [rec EXCEPT !.use = FALSE])), RunsOf(rec)), e.n)
               ELSE s
    IN  [DirRemove(s1, e) EXCEPT !.ret = 0]

\* Runs of at most NtRunMax clusters, at most NtRuns of them.
AllocFileRuns(s, n) ==
    LET left(t) == n - Cardinality(RunClusters(t.r.runs))
        turn(t, i) ==
          LET want == IF left(t) > NtRunMax THEN NtRunMax ELSE left(t)
              a    == AllocClusters(t, want)
          IN  IF left(t) = 0 THEN t
              ELSE IF a.r.p = 0 THEN Fail(a)
              ELSE [a EXCEPT !.r.runs = Append(@, [p |-> a.r.p, n |-> want])]
        s1 == Loop([s EXCEPT !.r.runs = <<>>], NtRuns, turn)
    IN  IF s1.ret = 0 /\ left(s1) > 0 THEN Fail(s1) ELSE s1

\* ntfs_create_file: record, data, entry, parent, bitmaps.
NtCreate(s0, comps, data) ==
    WithParent(s0, comps, LAMBDA s, parent :
      LET hit == Found(s, Last(comps))
          e   == CHOOSE x \in hit : TRUE
          s1  == AllocMft(IF hit = {} THEN s ELSE NtDropOld(s, e))
          s2  == Then(s1, LAMBDA t : AllocFileRuns(t, IF Len(data) > 1 THEN Len(data) ELSE 0))
          s3  == Then(s2, LAMBDA t : OrFail(WriteRec(t, t.r.n,
                                      NtFileRec(IF t.r.runs = <<>> THEN data ELSE <<>>, t.r.runs))))
          cl(t)   == FlattenSeq([i \in DOMAIN t.r.runs |-> [j \in 1..t.r.runs[i].n |-> t.r.runs[i].p + j - 1]])
          s4  == Then(s3, LAMBDA t : Loop(t, Len(cl(t)), LAMBDA u, i :
                                      OrFail(Write(u, <<"c", cl(t)[i]>>, [k |-> "data", v |-> data[i]]))))
          s5  == Then(s4, LAMBDA t : DirInsert(t, Last(comps), t.r.n))
          s6  == Then(s5, LAMBDA t : OrFail(WriteRec(t, parent, t.r.dir)))
      IN  IF hit # {} /\ NtReadable(s.disk, e.n) /\ NtIsDir(s.disk[<<"rec", e.n>>]) THEN Fail(s)
          ELSE Then(s6, MapsSave))

\* ntfs_delete_file: the record first, then the entry, the parent, the bitmaps.
NtDelete(s0, comps) ==
    WithParent(s0, comps, LAMBDA s, parent :
      LET hit == Found(s, Last(comps))
          e   == CHOOSE x \in hit : TRUE
          rec == s.disk[<<"rec", e.n>>]
          s1  == OrFail(WriteRec(FreeRuns(s, RunsOf(rec)), e.n, [rec EXCEPT !.use = FALSE]))
          s2  == Then(s1, LAMBDA t : DirRemove(FreeMft(t, e.n), e))
          s3  == Then(s2, LAMBDA t : OrFail(WriteRec(t, parent, t.r.dir)))
      IN  IF hit = {} THEN Fail(s)
          ELSE IF ~NtReadable(s.disk, e.n) \/ NtIsDir(rec) THEN Fail(s)
          ELSE Then(s3, MapsSave))

\* ntfs_mkdir
NtMkdir(s0, comps) ==
    WithParent(s0, comps, LAMBDA s, parent :
      LET s1 == AllocMft(s)
          s2 == Then(s1, LAMBDA t : OrFail(WriteRec(t, t.r.n, NtDirRec({}, 0, 0))))
          s3 == Then(s2, LAMBDA t : DirInsert(t, Last(comps), t.r.n))
          s4 == Then(s3, LAMBDA t : OrFail(WriteRec(t, parent, t.r.dir)))
      IN  IF Found(s, Last(comps)) # {} THEN Fail(s) ELSE Then(s4, MapsSave))

\* ntfs_rmdir: parent, child, bitmaps; after a failed write both records and
\* the bitmaps are written back from the copies taken before.
NtRollback(t, parent, dir, n, rec, s) ==
    LET t1 == WriteRec([Ok(t) EXCEPT !.ret = 0], parent, dir)
        t2 == Ok(WriteRec(t1, n, rec))
    IN  IF t1.err THEN Fail(t1)
        ELSE Fail([MapsSave([t2 EXCEPT !.r.v = s.r.v, !.r.m = s.r.m]) EXCEPT !.ret = 0])
NtRmdir(s0, comps) ==
    WithParent(s0, comps, LAMBDA s, parent :
      LET hit == Found(s, Last(comps))
          e   == CHOOSE x \in hit : TRUE
          rec == s.disk[<<"rec", e.n>>]
          s1  == DirRemove(s, e)
          s2  == Then(s1, LAMBDA t : OrFail(WriteRec(FreeMft(FreeRuns(t, BaseRuns(rec)), e.n), parent, t.r.dir)))
          s3  == Then(s2, LAMBDA t : OrFail(WriteRec(t, e.n, [rec EXCEPT !.use = FALSE])))
          s4  == Then(s3, MapsSave)
      IN  IF hit = {} THEN Fail(s)
          ELSE IF ~NtReadable(s.disk, e.n) \/ ~NtIsDir(rec) THEN Fail(s)
          ELSE IF NtWalk(s.disk, rec) # <<{}>> THEN Fail(s)
          ELSE IF s1.ret # 0 \/ s4.ret = 0 THEN s4
          ELSE NtRollback(s4, parent, s.r.dir, e.n, rec, s))

(***************************************************************************)
(* ntfs_format, ntfs_mount, and what a check of the volume would say.      *)
(***************************************************************************)
NtFresh ==
    LET at == ({"rec"} \X ({NtRoot} \cup NtOwn)) \cup ({"map"} \X {0, 6}) \cup ({"c"} \X NtClu)
    IN  [a \in at |-> CASE a = <<"rec", NtRoot>> -> NtDirRec({}, 0, 0)
                        [] a[1] = "rec"          -> Blank
                        [] a[1] = "map"          -> [k |-> "map", used |-> {}]
                        [] OTHER                 -> [k |-> "data", v |-> "zero"]]
NtMount == [mounted |-> TRUE]

NtCheck(d) ==
    LET under(n) == IF NtReadable(d, n) /\ NtIsDir(d[<<"rec", n>>]) /\ NtWalk(d, d[<<"rec", n>>]) # <<>>
                    THEN {e.n : e \in NtWalk(d, d[<<"rec", n>>])[1]} ELSE {}
        named == FoldLeft(LAMBDA w, i : w \cup UNION {under(n) : n \in w}, {NtRoot}, [i \in 1..(NtRecs + 1) |-> i])
        live  == {n \in named : NtReadable(d, n) /\ d[<<"rec", n>>].use}
        held(n) == IF d[<<"rec", n>>].k = "dir" THEN RunClusters(BaseRuns(d[<<"rec", n>>]))
                   ELSE RunClusters(d[<<"rec", n>>].runs)
        v == d[<<"map", 6>>].used
        m == d[<<"map", 0>>].used
        all == UNION {held(n) : n \in live}
    IN  IF d[<<"map", 6>>] = Torn \/ d[<<"map", 0>>] = Torn THEN [torn |-> {0}]
        ELSE [dangling      |-> {n \in named \ live : ~NtTorn(d, n)},
              crosslink     |-> {c \in NtClu : Cardinality({n \in live : c \in held(n)}) > 1},
              free_but_used |-> (all \ v) \cup (live \ (m \cup {NtRoot})),
              orphan        |-> (v \ all) \cup (m \ live)]
=============================================================================
