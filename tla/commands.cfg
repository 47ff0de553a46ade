CONSTANTS
    None = None
    Commands <- MCCommands
    Flags <- MCFlags
    Notebooks <- MCNotebooks
    Broken <- MCBroken
    AliasMaps <- MCAliasMaps
    Starts <- MCStarts
    Jobs <- MCJobs
    MaxDepth = 6
    PipeSize = 1
    Many = 2
SPECIFICATION Spec
INVARIANTS AliasOnce AliasKeepsNotebook RightNotebook SelectionKept OrderlyEnd
PROPERTIES RunEnds
CHECK_DEADLOCK FALSE
