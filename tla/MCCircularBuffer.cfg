\* A buffer of three bytes that may grow to seven or eight.
SPECIFICATION Spec
CONSTANTS
  CR = CR
  LF = LF
  Zero = CR
  Bytes <- MCBytes
  InitialSize = 3
  MaxAppend = 2
  MaxSize = 8
INVARIANT TypeOK
PROPERTY ImplementsByteQueue
