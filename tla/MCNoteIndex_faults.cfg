CONSTANTS
  Path <- MCPath
  ByteLen <- MCLen
  CharLen <- MCLen
  Href <- MCHref
  External = {"https:"}
  WikiLink = {"foo", "#h"}
  Anchor = {"#h"}
  RelMatch <- MCRelMatch
  NameMatch <- MCNameMatch
  PartMatch <- MCPartMatch
  PathMatch <- MCRelMatch
  Tag = {"t"}
  Content <- MCOneLink
  MaxId = 3
  ForeignKeys = {"on", "off"}
  SwallowErrors = TRUE
  None = None
SPECIFICATION Spec
INVARIANTS TargetsMatch
