\* Liveness on one loop and with a pool of two I/O loops. The server rests when the clients do.
SPECIFICATION FairSpec
CONSTANTS
  io1 = io1
  io2 = io2
  Conns = {c1, c2}
  Names = {c1, c2}
  NameOf <- OwnName
  Fds <- TwoFds
  Base = base
  IoLoops = {io1, io2}
  Pools <- NoneOrTwoLoops
  EventInitSize = 1
CHECK_DEADLOCK FALSE
PROPERTIES
  RequestAnswered
  DescriptorReleased
