SPECIFICATION Spec

CONSTANTS
  FsTypes = {"fat16", "fat32", "exfat", "ext4", "ntfs", "f2fs", "refs"}
  FilePaths <- MCFilePaths
  DirPaths <- MCDirPaths
  CdPaths <- MCCdPaths
  Contents <- MCContents
  SysDirs = {"bin"}
  RemountTypes = {"fat16", "fat32", "exfat", "ext4", "ntfs", "f2fs", "refs"}
  MaxCalls <- MCCalls
  FatClusters = 5
  SlotsPerBlock = 4
  RootBlocks = 1
  LfnSlots <- MCLfn
  E4Groups = 2
  E4Bpg = 4
  E4Ipg = 2
  E4BlockUnits = 4
  E4Direct = 2
  E4RootExt = 1
  E4LeafCap = 2
  NtRecs = 4
  NtClusters = 6
  NtRootUnits = 4
  NtIndxBlocks = 4
  NtRunMax = 2
  NtRuns = 2
  RsBlocks = 12
  RsPerBlock = 4
  RsDirCap = 2
  RsObjs = 2
  F2Segs = 3
  F2Bps = 8
  F2DataSeg = 1
  F2Nids = 7
  F2Inline = 2
  F2BlkSlots = 3
  F2Levels = 2
  F2Direct = 4
  F2Journal = 2
  F2Word <- MCWord

INVARIANT Promised
INVARIANT NoFaultClean
INVARIANT RemovedInOrder
INVARIANT CommitIsAtomic
INVARIANT FsckHonest

\* A history has MaxCalls calls.
CHECK_DEADLOCK FALSE
