CONSTANTS
  Path = {"a"}
  Process = {"lsp"}
  Server = {"lsp"}
  Extra = {"x"}
  MaxAttempts = 2
  MaxClock = 5
  MaxCalls = 2
  None = None
SPECIFICATION Spec
INVARIANTS ExtraIsOwn
CHECK_DEADLOCK FALSE
