\* Pools of up to three threads. A pool rests once it is destroyed; its destructor may hang.
SPECIFICATION FairSpec
CONSTANTS
  MaxThreads = 3
  MaxPicks = 3
INVARIANTS
  TypeOK
  EvenHandout
  NextInPool
PROPERTY DestructorReturns
CHECK_DEADLOCK FALSE
