CONSTANTS
  Path <- MCPath
  ByteLen <- MCLen
  CharLen <- MCLen
  Href <- MCHref
  External = {"https:"}
  WikiLink = {"foo", "#h"}
  Anchor = {"#h"}
  RelMatch <- MCRelMatch
  NameMatch <- MCNameMatch
  PartMatch <- MCPartMatch
  PathMatch <- MCRelMatch
  Tag = {"t"}
  Content <- MCContent
  MaxId = 4
  ForeignKeys = {"on"}
  SwallowErrors = FALSE
  None = None
SPECIFICATION Spec
INVARIANTS ReferentialIntegrity UnresolvedMeansNoMatch
PROPERTIES ImplementsContract
