\* Is a Channel destroyed while its HandleEvent is running?
SPECIFICATION Spec
CONSTANTS
  io1 = io1
  io2 = io2
  Conns = {c1, c2}
  Names = {c1, c2}
  NameOf <- OwnName
  Fds <- TwoFds
  Base = base
  IoLoops = {}
  Pools <- NoPool
  EventInitSize = 16
CHECK_DEADLOCK FALSE
INVARIANT ChannelOutlivesHandleEvent
