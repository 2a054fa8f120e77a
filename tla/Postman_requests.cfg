SPECIFICATION FairSpec
CONSTANTS
  MaxKey = 7
  RangeCount = 3
  NotKey <- MCNotKey
  Requests <- AllRequests
  Answers <- AllAnswers
INVARIANTS
  SlicesInRange
  SlicesInOrder
  OnlyTailDropped
  EveryServerAnswered
  ReplyAligned
PROPERTIES
  RepliesUnlessScalar
