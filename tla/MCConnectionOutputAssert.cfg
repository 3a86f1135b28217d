\* Does the assertion of Buffer::Append hold for what Send gives it?
SPECIFICATION Spec
CONSTANTS
  Users = {u1}
  LoopThread = loop
  Lengths <- MCLengths
  InitialSize <- MCInitialSize
  MaxPending = 1
CHECK_DEADLOCK FALSE
INVARIANT AppendHasRoom
