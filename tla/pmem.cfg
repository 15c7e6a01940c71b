SPECIFICATION Spec
CONSTANTS
  Word = 4
  PageSize = 8
  MaxAddr = 9
  MaxLen = 12
INVARIANTS
  TypeOK
  CopiedInOrder
  ReturnCounts
  OutcomeKnown
  LongestPrefix
