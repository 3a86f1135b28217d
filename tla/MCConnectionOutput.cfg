\* Two threads and the loop use one connection. Nobody has to call, so it may rest.
SPECIFICATION FairSpec
CONSTANTS
  Users = {u1, u2}
  LoopThread = loop
  Lengths <- MCLengths
  InitialSize <- MCInitialSize
  MaxPending = 3
CHECK_DEADLOCK FALSE
INVARIANTS
  TypeOK
  NeverWriting
  ReadFlagAgrees
  OwnSendsPrecedeShutdown
PROPERTIES
  DisconnectedIsFinal
  ShutdownEndsStream
