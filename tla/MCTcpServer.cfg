\* Acceptor and connections in one thread (what main.cc starts) or two. The
\* server rests when the clients do.
SPECIFICATION Spec
CONSTANTS
  io1 = io1
  io2 = io2
  Conns = {c1, c2, c3}
  Names = {c1, c2, c3}
  NameOf <- OwnName
  Fds <- TwoFds
  Base = base
  IoLoops = {io1}
  Pools <- NoneOrOneLoop
  EventInitSize = 1
CHECK_DEADLOCK FALSE
SYMMETRY Symmetry
INVARIANTS
  TypeOK
  CallbackOwnerAlive
  TablesAgree
  ConnectionsTracked
PROPERTIES
  ChannelDtorAsserts
  AnsweredWhenConnected
  ImplementsConnectionLife
