CONSTANTS
  SMs = {c1, c2}
  Reqs = {r1, r2, r3, r4}
  Sectors = {a1, a2}
  L1Lines = 1
  L2Lines = 1
  L1Entries = 1
  L1Merge = 2
  L2Entries = 1
  L2Merge = 2
  InBufferLimit = 1
SYMMETRY Symmetry
SPECIFICATION Spec
INVARIANTS TypeOK LoadNeverLost NoReplyFault NoUseAfterDelete
