\* Requests whole or cut off between any two items, one after the other, until the process ends.
SPECIFICATION FairSpec
CONSTANTS
  Requests <- MCRequests
  InitialSize <- MCInitialSize
CHECK_DEADLOCK FALSE
INVARIANTS
  TypeOK
  WholeGetIsGood
  FirstGoodIsComplete
PROPERTY ParsingEnds
