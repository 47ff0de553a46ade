CONSTANTS
  Path = {"a"}
  Process = {"cli", "lsp"}
  Server = {"lsp"}
  Extra = {"x"}
  MaxAttempts = 2
  MaxClock = 5
  MaxCalls = 2
  None = None
SPECIFICATION Spec
INVARIANTS NextIndexingRepairs
PROPERTIES KeepsExistingNotes ReturnedNoteIsIndexed
CHECK_DEADLOCK FALSE
