CONSTANTS
  Path = {"a", "b"}
  InNotebook = {"a"}
  Text <- MCText
  Goroutine = {g1, g2}
  Scanner <- MCScanner
  MaxEdits = 3
  Idle = Idle
  None = None
SPECIFICATION Spec
INVARIANTS DiagnosticsCurrent SingleRefresh ScanExact
CHECK_DEADLOCK FALSE
SYMMETRY MCSymmetry
