CONSTANTS
  Byte = {45, 97}
  MaxLen = 4
  MaxFiles = 3
SPECIFICATION Spec
INVARIANTS IndexedInWalkOrder DiffOrderUnlessShadowed
