CONSTANTS
  Unset = Unset
  Invalid = Invalid
  NoRoot = NoRoot
  Dir <- MCDir
  Link <- MCLink
  File <- MCFile
  Asked <- MCAsked
  Dotted = {"..c"}
  Layout <- MCLayout
  GlobalToml <- MCGlobalToml
  MaxOpens = 3
  MaxInits = 1
SPECIFICATION Spec
INVARIANTS OwnConfig OneInstance LookupsSucceed EnclosingNotebook NearestGroup
PROPERTIES ExcludesKept
CHECK_DEADLOCK FALSE
