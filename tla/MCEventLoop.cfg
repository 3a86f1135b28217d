\* One EventLoop: every interleaving of two callers and the loop thread.
SPECIFICATION FairSpec
CONSTANTS
  Callers = {c1, c2}
  LoopThread = loop
  Tasks = {k1, k2, k3}
INVARIANTS
  TypeOK
  Conservation
  NoLostWakeup
  QuitIsNotSleptOver
PROPERTIES
  ImplementsTaskQueue
  DueTaskRuns
  TakenTaskRuns
  QuitReturns
