CONSTANTS
  Path = {"d/b.md", "d.md", "z.md"}
  Dir <- MCDir
  Root = "/"
  Parent <- MCParent
  WalkRank <- MCWalkRank
  ByteRank <- MCByteRank
  DirRank <- MCDirRank
  Hidden = {".h/"}
  RootNamed = {"/"}
  ChannelSize = 1
  None = None
  Time <- MCTime
  MaxVersion = 3
  MaxFaults = 1
  MaxSchema = 2
  Excludable = {"z.md"}
  Lockable = {"z.md"}
  Malformed <- MCMalformed
  StoreMayFail = TRUE
  EditsDuringIndexing = TRUE
SPECIFICATION Spec
INVARIANTS IndexMatchesDisk StaleIsDetected
