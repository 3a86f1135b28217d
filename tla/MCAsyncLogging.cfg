\* The logger. It stops when its destructor has returned, or in a constructor
\* that has missed its notification.
SPECIFICATION FairSpec
CONSTANTS
  s1 = s1
  s2 = s2
  s3 = s3
  l1 = l1
  Lines <- MCLines
  Statement <- MCStatement
  SmallBuffer = 3
  LargeBuffer = 3
  MaxFailures = 1
INVARIANTS
  TypeOK
  LinesInOrder
  MissingPieceDidNotFit
  NothingLeftHalfWay
PROPERTIES
  LineReachesFile
  ConstructorReturns
  DestructorReturns
CHECK_DEADLOCK FALSE
