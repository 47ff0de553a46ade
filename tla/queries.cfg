CONSTANTS
    n1 = n1
    n2 = n2
    n3 = n3
    n4 = n4
    NoNote = NoNote
    Note <- MCNote
    Db <- MCDb
    LinkSets <- MCLinkSets
    Requests <- MCRequests
    FilterMaps <- MCFilterMaps
    Day = 4
    RowLimit = 6
SPECIFICATION Spec
INVARIANTS LinksFollowed RelatedShareALink PathsHonoured FiltersExpanded OneDayEach LastSortDecides LinksResolveAlike
CHECK_DEADLOCK FALSE
