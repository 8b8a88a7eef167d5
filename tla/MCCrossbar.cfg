SPECIFICATION FairSpec
CONSTANTS
  NShader = 2
  NMem = 2
  InLimit = 1
  OutLimit = 2
  MaxPackets <- MCPackets
  MaxAsking = 1
  MaxAnswers <- MCAnswers
INVARIANTS RepliesFlow RequestsFlow
PROPERTIES AllArrive LoopAgrees Implements
