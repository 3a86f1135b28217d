\* Two clients with one name: do the asserts of ~Channel hold?
SPECIFICATION Spec
CONSTANTS
  c1 = c1
  c2 = c2
  Conns = {c1, c2, c3}
  Names = {c1, c3}
  NameOf <- SharedName
  Fds <- TwoFds
  Base = base
  IoLoops = {}
  Pools <- NoPool
  EventInitSize = 16
CHECK_DEADLOCK FALSE
PROPERTY ChannelDtorAsserts
