--------------------------------- MODULE Fs ---------------------------------
(***************************************************************************)
(* The file system layer, kernel/fs.c, over one mounted volume.  A call    *)
(* resolves its path, refuses the read-only system volume and hands over   *)
(* to the driver of fs_type_cur.                                           *)
(*                                                                         *)
(* Besides the program's state the module keeps a history: `want' is what  *)
(* the calls that returned 0 have promised, `fault' whether a write has    *)
(* failed or power was lost (the volume is then only looked at), `touched' *)
(* the path of that call with what it promised before and what it wrote,   *)
(* `astray' whether a mount has put the allocator of a ReFS volume on a    *)
(* block that is in use.                                                   *)
(***************************************************************************)
EXTENDS DiskCall, FiniteSets

CONSTANTS
    FsTypes,                                     \* the types a volume may have
    FilePaths, DirPaths, CdPaths, Contents,      \* arguments of the calls
    MaxCalls,                                    \* [type -> calls in a history]
    RemountTypes,                                \* the types setdrive is tried with
    SysDirs,                                     \* "bin", "system"
    FatClusters, SlotsPerBlock, RootBlocks, LfnSlots,               \* Fat, ExFat
    E4Groups, E4Bpg, E4Ipg, E4BlockUnits, E4Direct, E4RootExt, E4LeafCap,  \* Ext4
    NtRecs, NtClusters, NtRootUnits, NtIndxBlocks, NtRunMax, NtRuns,       \* Ntfs
    RsBlocks, RsPerBlock, RsDirCap, RsObjs,      \* Refs
    F2Segs, F2Bps, F2DataSeg, F2Nids, F2Inline, F2BlkSlots, F2Levels, F2Direct, F2Journal, F2Word

F == INSTANCE Fat
X == INSTANCE ExFat
E == INSTANCE Ext4
N == INSTANCE Ntfs
G == INSTANCE F2fs
R == INSTANCE Refs

VARIABLES fs_type_cur, disk, mem, cwd, sysvol_cwd, want, fault, touched, calls, astray

vars == <<fs_type_cur, disk, mem, cwd, sysvol_cwd, want, fault, touched, calls, astray>>

FatTypes == {"fat16", "fat32"}
FatNo    == [fat16 |-> 16, fat32 |-> 32]

Deaf     == {"ext4", "f2fs"}       \* those that never learn that a write failed

Fresh(t) == CASE t \in FatTypes -> F!FatFresh(FatNo[t])
              [] t = "exfat"    -> X!XFresh
              [] t = "ext4"     -> E!E4Fresh
              [] t = "ntfs"     -> N!NtFresh
              [] t = "f2fs"     -> G!F2Fresh
              [] t = "refs"     -> R!RsFresh
Mount(t, d) == CASE t \in FatTypes -> F!FatMount(d, FatNo[t])
                 [] t = "exfat"    -> X!XMount
                 [] t = "ext4"     -> E!E4Mount
                 [] t = "ntfs"     -> N!NtMount
                 [] t = "f2fs"     -> G!F2Mount(d)
                 [] t = "refs"     -> R!RsMount(d)

Init ==
    /\ fs_type_cur \in FsTypes
    /\ disk = Fresh(fs_type_cur)
    /\ mem = Mount(fs_type_cur, disk)
    /\ cwd = <<>>
    /\ sysvol_cwd = <<>>
    /\ want = <<>>
    /\ fault = "none"
    /\ touched = <<>>
    /\ calls = 0
    /\ astray = FALSE

\* fs_ro_abs, and the path the drivers keep in cwd_path: `.' and `..' are
\* taken out, `..' of the root is the root.
Normal(start, comps) ==
    FoldLeft(LAMBDA p, n : CASE n = "."  -> p
                             [] n = ".." -> IF p = <<>> THEN p ELSE Front(p)
                             [] OTHER    -> Append(p, n), start, comps)
FullPath(path) == Normal(IF path.abs THEN <<>> ELSE cwd, path.comps)

\* fs_resolve_path: inside the system volume a relative name is one of its own.
Resolve(path) ==
    IF sysvol_cwd = <<>> \/ path.abs \/ path.comps \in {<<".">>, <<"..">>} THEN path
    ELSE [abs |-> TRUE, comps |-> sysvol_cwd \o path.comps]

\* sysvol_is_path: the first component decides, absolute or not.
IsSysPath(path) == path.comps # <<>> /\ path.comps[1] \in SysDirs

\* The history after a call on p that promises `new' when it returns 0.  One
\* that fails still owes what was promised if it left the disk alone, or if it
\* writes nothing in place.
Record(o, p, new) ==
    LET crash == o.f[1] = "crash"
        done  == o.ret = 0 /\ o.f = NoFault
        keeps == o.disk = disk \/ (fs_type_cur = "refs" /\ ~crash)
    IN
    /\ disk' = o.disk
    /\ mem' = IF crash THEN Mount(fs_type_cur, o.disk) ELSE o.mem
    /\ fault' = o.f[1]
    /\ want' = CASE done /\ new # <<>> -> [q \in DOMAIN want \cup {p} |->
                                              IF q = p THEN new[1] ELSE want[q]]
                 [] ~done /\ keeps      -> want
                 [] OTHER               -> [q \in DOMAIN want \ {p} |-> want[q]]
    /\ touched' = IF o.f = NoFault THEN <<>>
                  ELSE <<[path |-> p, ret |-> o.ret, new |-> new,
                          old |-> {want[q] : q \in DOMAIN want \cap {p}}]>>

\* The driver of fs_type_cur, by call.  FAT and exFAT replace a file by
\* deleting it, whatever that returns, and creating it.
ExFat == fs_type_cur = "exfat"
S(f) == CASE fs_type_cur = "ext4" -> E!E4Begin(disk, mem, f)
          [] fs_type_cur = "ntfs" -> N!NtBegin(disk, mem, f)
          [] fs_type_cur = "f2fs" -> G!F2Begin(disk, mem, f)
          [] fs_type_cur = "refs" -> R!RsBegin(disk, mem, f)
          [] OTHER                -> F!FatBegin(disk, mem, f)
Create(s, path, data) ==
    CASE fs_type_cur \in FatTypes -> F!FatCreate(F!FatDelete(s, path), path, data)
      [] ExFat                    -> X!XCreate(X!XDelete(s, path), path, data)
      [] fs_type_cur = "ext4"     -> E!E4Create(s, FullPath(path), data)
      [] fs_type_cur = "ntfs"     -> N!NtCreate(s, FullPath(path), data)
      [] fs_type_cur = "f2fs"     -> G!F2Create(s, FullPath(path), data)
      [] fs_type_cur = "refs"     -> R!RsCreate(s, FullPath(path), data)
Delete(s, path) ==
    CASE fs_type_cur \in FatTypes -> F!FatDelete(s, path)
      [] ExFat                    -> X!XDelete(s, path)
      [] fs_type_cur = "ext4"     -> E!E4Delete(s, FullPath(path))
      [] fs_type_cur = "ntfs"     -> N!NtDelete(s, FullPath(path))
      [] fs_type_cur = "f2fs"     -> G!F2Delete(s, FullPath(path))
      [] fs_type_cur = "refs"     -> R!RsDelete(s, FullPath(path))
Mkdir(s, path) ==
    CASE fs_type_cur \in FatTypes -> F!FatMkdir(s, path)
      [] ExFat                    -> X!XMkdir(s, path)
      [] fs_type_cur = "ext4"     -> E!E4Mkdir(s, FullPath(path))
      [] fs_type_cur = "ntfs"     -> N!NtMkdir(s, FullPath(path))
      [] fs_type_cur = "f2fs"     -> G!F2Mkdir(s, FullPath(path))
      [] fs_type_cur = "refs"     -> R!RsMkdir(s, FullPath(path))
Rmdir(s, path) ==
    CASE fs_type_cur \in FatTypes -> F!FatRmdir(s, path)
      [] ExFat                    -> X!XRmdir(s, path)
      [] fs_type_cur = "ext4"     -> E!E4Rmdir(s, FullPath(path))
      [] fs_type_cur = "ntfs"     -> N!NtRmdir(s, FullPath(path))
      [] fs_type_cur = "f2fs"     -> G!F2Rmdir(s, FullPath(path))
      [] fs_type_cur = "refs"     -> R!RsRmdir(s, FullPath(path))
\* ro_is_dir
IsDir(p) == CASE fs_type_cur = "ext4" -> E!E4IsDir(disk, p)
              [] fs_type_cur = "ntfs" -> N!NtDirAt(disk, p)
              [] fs_type_cur = "f2fs" -> G!F2IsDir(disk, mem, p)
              [] fs_type_cur = "refs" -> R!RsIsDir(disk, mem, p)
\* `cd' on the disk volume: the drivers with absolute paths only answer
\* whether there is such a directory.
Cd(s, path) ==
    CASE fs_type_cur \in FatTypes -> F!FatChangeDir(s, path)
      [] ExFat                    -> X!XChangeDir(s, path)
      [] OTHER                    -> IF IsDir(FullPath(path)) THEN s ELSE Fail(s)

\* MaxCalls bounds a history; after a fault the volume is only looked at.
Ready == fault = "none" /\ calls < MaxCalls[fs_type_cur] /\ calls' = calls + 1

fs_create_file(path, data) ==
    LET full == Resolve(path) IN
    /\ Ready
    /\ ~IsSysPath(full)
    /\ \E o \in Outcomes(LAMBDA f : Create(S(f), full, data)) :
         Record(o, FullPath(full), <<[k |-> "file", v |-> data]>>)
    /\ UNCHANGED <<fs_type_cur, cwd, sysvol_cwd, astray>>

fs_delete_file(path) ==
    LET full == Resolve(path) IN
    /\ Ready
    /\ ~IsSysPath(full)
    /\ \E o \in Outcomes(LAMBDA f : Delete(S(f), full)) : Record(o, FullPath(full), <<>>)
    /\ UNCHANGED <<fs_type_cur, cwd, sysvol_cwd, astray>>

fs_mkdir(path) ==
    LET full == Resolve(path) IN
    /\ Ready
    /\ ~IsSysPath(full)
    /\ \E o \in Outcomes(LAMBDA f : Mkdir(S(f), full)) : Record(o, FullPath(full), <<[k |-> "dir"]>>)
    /\ UNCHANGED <<fs_type_cur, cwd, sysvol_cwd, astray>>

fs_rmdir(path) ==
    LET full == Resolve(path) IN
    /\ Ready
    /\ ~IsSysPath(full)
    /\ \E o \in Outcomes(LAMBDA f : Rmdir(S(f), full)) : Record(o, FullPath(full), <<>>)
    /\ UNCHANGED <<fs_type_cur, cwd, sysvol_cwd, astray>>

\* fs_change_dir: entering and leaving the system volume never moves the
\* directory of the disk volume.
fs_change_dir(path) ==
    LET s == Cd(S(NoFault), path) IN
    /\ Ready
    /\ CASE sysvol_cwd # <<>> /\ (path = [abs |-> TRUE, comps |-> <<>>]
                                  \/ path = [abs |-> FALSE, comps |-> <<"..">>]) ->
              sysvol_cwd' = <<>> /\ UNCHANGED <<mem, cwd>>
         [] sysvol_cwd # <<>> /\ path = [abs |-> FALSE, comps |-> <<".">>] ->
              UNCHANGED <<sysvol_cwd, mem, cwd>>
         [] IsSysPath(path) ->
              sysvol_cwd' = (IF Len(path.comps) = 1 THEN path.comps ELSE <<>>) /\ UNCHANGED <<mem, cwd>>
         [] OTHER ->
              /\ sysvol_cwd' = <<>>
              /\ mem' = s.mem
              /\ cwd' = IF s.ret = 0 THEN FullPath(path) ELSE cwd
    /\ UNCHANGED <<fs_type_cur, disk, want, fault, touched, astray>>

\* The block that the allocator of a ReFS volume hands out next lies behind
\* everything in use, the root of the objects tree included.
Behind(m) == \A b \in R!RsLive(disk, m) \cup {m.tree} : b < m.hint

\* fs_set_drive and the fs_init that follows: the volume is mounted again.
fs_set_drive ==
    /\ Ready
    /\ fs_type_cur \in RemountTypes
    /\ mem' = Mount(fs_type_cur, disk)
    /\ cwd' = <<>>
    /\ astray' = (astray \/ (fs_type_cur = "refs" /\ ~Behind(mem')))
    /\ UNCHANGED <<fs_type_cur, disk, sysvol_cwd, want, fault, touched>>

Next ==
    \/ fs_set_drive
    \/ \E p \in FilePaths, c \in Contents : fs_create_file(p, c)
    \/ \E p \in FilePaths \cup DirPaths : fs_delete_file(p)
    \/ \E p \in DirPaths : fs_mkdir(p) \/ fs_rmdir(p)
    \/ \E p \in CdPaths : fs_change_dir(p)

Spec == Init /\ [][Next]_vars

-----------------------------------------------------------------------------
\* What a reader finds at an absolute path: <<>> or one record.
ByChain(hit, body) ==
    CASE hit = <<>>     -> <<>>
      [] hit[1].e.dir   -> <<[k |-> "dir"]>>
      [] OTHER          -> <<[k |-> "file", v |-> [i \in DOMAIN body[1] |->
                                IF body[1][i].k = "data" THEN body[1][i].v ELSE "other"]]>>
Seen(p) ==
    LET path == [abs |-> TRUE, comps |-> p] IN
    CASE fs_type_cur \in FatTypes -> ByChain(F!FatLookup(disk, mem, path), F!FatRead(disk, mem, path))
      [] ExFat                    -> ByChain(X!XLookup(disk, mem, path), X!XRead(disk, mem, path))
      [] fs_type_cur = "ext4"     -> E!E4Seen(disk, p)
      [] fs_type_cur = "ntfs"     -> N!NtSeen(disk, p)
      [] fs_type_cur = "f2fs"     -> G!F2Seen(disk, mem, p)
      [] fs_type_cur = "refs"     -> R!RsSeen(disk, mem, p)

\* Whatever a call that returned 0 has promised is still there after every later
\* call, also one that lost power or met a failed write elsewhere: no driver may
\* give the blocks of one file to another, or lose an entry while it moves its
\* neighbours.  ext4 and f2fs do not look at the result of a write, so they are
\* not held to it after one failed; NTFS may find an index block half written
\* and then refuses to read it.  A FAT call that returns 0 although one of its
\* writes failed has kept its own promise too: the writes whose result it
\* ignores only free clusters.  A ReFS volume that went astray in a mount is
\* excepted: the next write goes over the live tree (finding 2).
Promised ==
    /\ ~astray /\ ~(fault = "fail" /\ fs_type_cur \in Deaf) =>
         \A p \in DOMAIN want :
             \/ Seen(p) = <<want[p]>>
             \/ fault # "none" /\ Seen(p) = <<[k |-> "torn"]>>
    /\ fs_type_cur \in FatTypes /\ fault = "fail" /\ touched[1].ret = 0 =>
         Seen(touched[1].path) = touched[1].new

\* What a check of the whole volume reports: fsck.c for FAT and exFAT, for the
\* others the same questions asked of their own structures.
Report == CASE fs_type_cur \in FatTypes -> F!FatFsck(disk, mem)
            [] ExFat                    -> X!XFsck(disk)
            [] fs_type_cur = "ext4"     -> E!E4Check(disk)
            [] fs_type_cur = "ntfs"     -> N!NtCheck(disk)
            [] fs_type_cur = "f2fs"     -> G!F2Check(disk, mem)
            [] fs_type_cur = "refs"     -> R!RsCheck(disk, mem)
Clean  == \A x \in DOMAIN Report : Report[x] = {}

\* What the code leaves behind without any fault: a directory of exFAT that
\* grew is counted as one cluster by the check, a directory of NTFS and f2fs
\* can be deleted as if it were a file while it has entries.
Tolerated(x) == CASE ExFat /\ x = "orphan" -> X!XGrown(disk)
                  [] fs_type_cur \in {"ntfs", "f2fs"} /\ x \in {"orphan", "dangling"} -> Report[x]
                  [] OTHER -> {}

\* As long as no write fails, any sequence of calls, the ones that run out of
\* space half way included, leaves a volume without lost, shared or unmarked
\* blocks: every error path gives back what it took.  (Except on a ReFS volume
\* that went astray in a mount.)
NoFaultClean ==
    fault = "none" /\ ~astray => \A x \in DOMAIN Report : Report[x] \subseteq Tolerated(x)

\* Power lost inside a removal never leaves a name that leads to freed blocks
\* or a block with two owners: the entry goes before what it points to.  f2fs
\* keeps to it for files and directories, ext4 and NTFS in their rmdir.
RemovedInOrder ==
    LET dir == [k |-> "dir"] \in touched[1].old IN
    /\ fault = "crash" /\ touched[1].new = <<>>
    /\ fs_type_cur = "f2fs" \/ (fs_type_cur \in {"ext4", "ntfs"} /\ dir)
    => \A x \in DOMAIN Report \cap {"dangling", "crosslink", "free_but_used"} : Report[x] = {}

\* ReFS copies before it writes and flips the checkpoint last: after power was
\* lost at any write of a call the path shows the old file or the new one, and
\* never neither.  This holds as long as the volume has not been mounted again
\* after a change: a mount puts the allocator on the root of the live objects
\* tree, which the next call overwrites in place (finding 2).
CommitIsAtomic ==
    fault = "crash" /\ fs_type_cur = "refs" /\ ~astray =>
        LET t   == touched[1]
            old == IF t.old = {} THEN {<<>>} ELSE {<<v>> : v \in t.old}
        IN  Seen(t.path) \in old \cup {t.new}

\* What rs_scan_live's comment says of its result: the block the allocator
\* hands out next lies behind everything the current generation uses, the root
\* of the objects tree included.
HintBehindLive == fs_type_cur = "refs" => Behind(mem)

\* A file system check that finds nothing after a power loss on FAT or exFAT can
\* be relied on: the file of the interrupted call is the old one, the new one or
\* gone, and not an entry whose data never arrived.
FsckHonest ==
    fault = "crash" /\ Clean /\ fs_type_cur \in FatTypes \cup {"exfat"} =>
        LET t == touched[1]
        IN  Seen(t.path) \in {<<>>, t.new} \cup {<<v>> : v \in t.old}
====
