SPECIFICATION FairSpec
CONSTANTS
  QUEUE_MAX_SIZE = 8
  Num = 8
  IdxMod = 8
  Heads = {0, 4}
  Types <- ThreeTypes
  Segments = 1
  MaxResets = 1
INVARIANTS TypeOK EachOnce AnswersFresh NoLostInterrupt
PROPERTIES EventuallyAnswered
