SPECIFICATION Spec
CONSTANTS
  Blocks = {1, 2, 3}
  Sectors = {0, 1}
  Assoc = 2
  MaxTime = 2
INVARIANT OneLinePerBlock
PROPERTIES EvictsOldest Implements
