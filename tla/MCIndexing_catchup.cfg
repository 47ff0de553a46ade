CONSTANTS
  Path = {"d/b.md", "d.md"}
  Dir <- MCDir
  Root = "/"
  Parent <- MCParent
  WalkRank <- MCWalkRank
  ByteRank <- MCByteRank
  DirRank <- MCDirRank
  Hidden = {".h/"}
  RootNamed = {"/"}
  ChannelSize = 1
  None = None
  Time <- MCTime
  MaxVersion = 3
  MaxFaults = 1
  MaxSchema = 1
  Excludable = {}
  Lockable = {".h/", "d/"}
  Malformed <- MCMalformed
  StoreMayFail = TRUE
  EditsDuringIndexing = TRUE
SPECIFICATION FairSpec
PROPERTIES EveryRunEnds EventuallyInSync
