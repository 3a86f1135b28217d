------------------------- MODULE EventLoopThreadPool -------------------------
(***************************************************************************)
(* An EventLoopThreadPool: the thread that starts it, takes loops from it   *)
(* and destroys it, and the threads that each make an EventLoop, register   *)
(* it and run it.  loops_pool_ is written under mutex_ and read without.    *)
(*                                                                         *)
(* A loop is named by its thread; inside, only what Quit needs is kept: the *)
(* rest is module EventLoop, whose QuitReturns is LoopReturns here.         *)
(***************************************************************************)
EXTENDS Naturals, Sequences, Functions

CONSTANTS
  MaxThreads,       \* bound: the most threads a pool is given
  MaxPicks          \* bound: the most loops taken between two registrations

ASSUME PoolAssumption == MaxThreads \in Nat /\ MaxPicks \in Nat

Threads == 1 .. MaxThreads
Base == 0           \* base_loop_

VARIABLES
  threadNum,        \* thread_num_
  callback,         \* whether Start is given a thread_init_callback
  owner,            \* where the owner's thread is
  created,          \* the size of threads_pool_: threads 1 .. created
  stage,            \* where each thread is in ThreadFunc
  loops,            \* loops_pool_
  next,             \* next_
  asked,            \* quit_flag_ of the loop of each thread
  index,            \* i of the destructor
  given,            \* history: how often each loop was taken since the pool last grew
  raced             \* history: loops_pool_ was read while it was being changed

setup == <<threadNum, callback, created>>
pool == <<loops, next>>
stopping == <<asked, index>>
history == <<given, raced>>
vars == <<setup, owner, stage, pool, stopping, history>>

Init ==
  /\ threadNum \in 0 .. MaxThreads
  /\ callback \in BOOLEAN
  /\ owner = "made"
  /\ created = 0
  /\ stage = [t \in Threads |-> "none"]
  /\ loops = <<>>
  /\ next = 0
  /\ asked = [t \in Threads |-> FALSE]
  /\ index = 0
  /\ given = [l \in {Base} \cup Threads |-> 0]
  /\ raced = FALSE

Size == Len(loops)

(* Some thread is inside emplace_back. *)
Changing == \E t \in Threads : stage[t] = "registering"

Took(l) == given' = [given EXCEPT ![l] = @ + 1]

-----------------------------------------------------------------------------
(* Start.                                                                  *)

Start ==
  /\ owner = "made"
  /\ owner' = "starting"
  /\ UNCHANGED <<setup, stage, pool, stopping, history>>

CreateOneMore ==
  /\ owner = "starting" /\ created <= threadNum
  /\ created' = created + 1
  /\ stage' = [stage EXCEPT ![created + 1] = "init"]
  /\ UNCHANGED <<threadNum, callback, owner, pool, stopping, history>>

CreateThread ==
  /\ owner = "starting" /\ created < threadNum
  /\ created' = created + 1
  /\ stage' = [stage EXCEPT ![created + 1] = "init"]
  /\ UNCHANGED <<threadNum, callback, owner, pool, stopping, history>>

(* Without threads, and with a callback, the base loop is the whole pool. *)
Started ==
  /\ owner = "starting" /\ created = threadNum
  /\ owner' = "serving"
  /\ loops' = IF threadNum = 0 /\ callback THEN Append(loops, Base) ELSE loops
  /\ UNCHANGED <<setup, stage, next, stopping, history>>

-----------------------------------------------------------------------------
(* ThreadFunc.                                                             *)

(* Under mutex_: emplace_back begins. *)
Lock(t) ==
  /\ stage[t] = "init" /\ ~Changing
  /\ stage' = [stage EXCEPT ![t] = "registering"]
  /\ UNCHANGED <<setup, owner, pool, stopping, history>>

Register(t) ==
  /\ stage[t] = "registering"
  /\ stage' = [stage EXCEPT ![t] = "registered"]
  /\ loops' = Append(loops, t)
  /\ given' = [l \in {Base} \cup Threads |-> 0]
  /\ UNCHANGED <<setup, owner, next, stopping, raced>>

(* Loop() forgets a Quit that came before it. *)
EnterLoop(t) ==
  /\ stage[t] = "registered"
  /\ stage' = [stage EXCEPT ![t] = "looping"]
  /\ asked' = [asked EXCEPT ![t] = FALSE]
  /\ UNCHANGED <<setup, owner, pool, index, history>>

(* Loop() and ThreadFunc return. *)
LoopReturns(t) ==
  /\ stage[t] = "looping" /\ asked[t]
  /\ stage' = [stage EXCEPT ![t] = "returned"]
  /\ UNCHANGED <<setup, owner, pool, stopping, history>>

-----------------------------------------------------------------------------
(* NextLoop, in the owner's thread.                                        *)

TakeBase ==
  /\ owner = "serving" /\ loops = <<>> /\ given[Base] < MaxPicks
  /\ Took(Base)
  /\ UNCHANGED <<setup, owner, stage, pool, stopping, raced>>

TakeNext ==
  /\ owner = "serving" /\ next < Size /\ given[loops[next + 1]] < MaxPicks
  /\ Took(loops[next + 1])
  /\ owner' = "advancing"
  /\ UNCHANGED <<setup, stage, pool, stopping, raced>>

(* Wraps one step too late. *)
AdvanceBeyond ==
  /\ owner = "advancing" /\ Size > 0
  /\ next' = (next + 1) % (Size + 1)
  /\ owner' = "serving"
  /\ UNCHANGED <<setup, stage, loops, stopping, history>>

AdvanceTwice ==
  /\ owner = "advancing" /\ Size > 0
  /\ next' = (next + 2) % Size
  /\ owner' = "serving"
  /\ UNCHANGED <<setup, stage, loops, stopping, history>>

Advance ==
  /\ owner = "advancing" /\ Size > 0
  /\ next' = (next + 1) % Size
  /\ owner' = "serving"
  /\ UNCHANGED <<setup, stage, loops, stopping, history>>

(* The vector moves to a larger array pointer by pointer: a reader may find *)
(* the new element before the vector has its new size, and one that takes   *)
(* the begin from one array and the end from the other computes any size,   *)
(* and the remainder of next_ + 1 by it.                                    *)
TakeRaced ==
  /\ owner = "serving" /\ next = Size
  /\ \E t \in Threads : stage[t] = "registering" /\ given[t] < MaxPicks /\ Took(t)
  /\ owner' = "advancing"
  /\ raced' = TRUE
  /\ UNCHANGED <<setup, stage, pool, stopping>>

AdvanceRaced ==
  /\ owner = "advancing" /\ Changing
  /\ next' \in 0 .. next + 1
  /\ owner' = "serving"
  /\ raced' = TRUE
  /\ UNCHANGED <<setup, stage, loops, stopping, given>>

(* An element that is not there, or was freed, is used: the process dies.   *)
(* (What it reads may also happen to be still good: TakeNext.)              *)
Dies ==
  \/ owner = "serving" /\ loops # <<>> /\ next >= Size
  \/ owner \in {"serving", "advancing"} /\ Changing
  \/ owner = "stopping" /\ index < threadNum /\ (index >= Size \/ Changing)

Die ==
  /\ Dies
  /\ owner' = "dead"
  /\ raced' = (raced \/ Changing)
  /\ UNCHANGED <<setup, stage, pool, stopping, given>>

-----------------------------------------------------------------------------
(* The destructor: one Quit and one join for each i, in turn.              *)

Destroy ==
  /\ owner = "serving"
  /\ owner' = "stopping"
  /\ UNCHANGED <<setup, stage, pool, stopping, history>>

QuitOtherEnd ==
  /\ owner = "stopping" /\ index < threadNum /\ index < Size
  /\ asked' = [asked EXCEPT ![loops[Size - index]] = TRUE]
  /\ owner' = "joining"
  /\ UNCHANGED <<setup, stage, pool, index, history>>

QuitLoop ==
  /\ owner = "stopping" /\ index < threadNum /\ index < Size
  /\ asked' = [asked EXCEPT ![loops[index + 1]] = TRUE]
  /\ owner' = "joining"
  /\ UNCHANGED <<setup, stage, pool, index, history>>

(* threads_pool_[i]: in the order of creation, not of registration. *)
JoinThread ==
  /\ owner = "joining" /\ stage[index + 1] = "returned"
  /\ index' = index + 1
  /\ owner' = "stopping"
  /\ UNCHANGED <<setup, stage, pool, asked, history>>

Destroyed ==
  /\ owner = "stopping" /\ index = threadNum
  /\ owner' = "destroyed"
  /\ UNCHANGED <<setup, stage, pool, stopping, history>>

-----------------------------------------------------------------------------
ThreadStep(t) == Lock(t) \/ Register(t) \/ EnterLoop(t) \/ LoopReturns(t)

NextLoop == TakeBase \/ TakeNext \/ TakeRaced \/ Advance \/ AdvanceRaced

Destructor == QuitLoop \/ JoinThread \/ Destroyed

Next ==
  \/ Start \/ CreateThread \/ Started
  \/ owner # "dead" /\ \E t \in Threads : ThreadStep(t)
  \/ NextLoop
  \/ Destroy \/ Destructor
  \/ Die

Spec == Init /\ [][Next]_vars

(* Threads run; a destructor that has begun goes on.  Nothing has to ask    *)
(* the pool for a loop, or to destroy it.                                   *)
Fairness ==
  /\ \A t \in Threads : WF_vars(owner # "dead" /\ ThreadStep(t))
  /\ WF_vars(Destructor)

FairSpec == Spec /\ Fairness

-----------------------------------------------------------------------------
(* The shape of the state. *)
TypeOK ==
  /\ threadNum \in 0 .. MaxThreads
  /\ callback \in BOOLEAN
  /\ owner \in {"made", "starting", "serving", "advancing", "stopping",
                "joining", "destroyed", "dead"}
  /\ created \in 0 .. threadNum
  /\ stage \in [Threads -> {"none", "init", "registering", "registered",
                            "looping", "returned"}]
  /\ loops \in Seq({Base} \cup Threads)
  /\ next \in Nat
  /\ asked \in [Threads -> BOOLEAN]
  /\ index \in 0 .. threadNum
  /\ given \in [{Base} \cup Threads -> Nat]
  /\ raced \in BOOLEAN

(* Round robin: since the pool last grew, no loop was handed out more than  *)
(* once more often than another, wherever next_ stood when it grew; unless  *)
(* NextLoop ever ran into an emplace_back.                                  *)
EvenHandout ==
  ~raced => \A l, m \in Range(loops) : given[l] <= given[m] + 1

(* NextLoop and the emplace_back of a thread apart, no loop is taken beyond *)
(* the end of loops_pool_: reading its size after the element leaves no     *)
(* window in which next_ could run past it.                                 *)
NextInPool == ~raced /\ loops # <<>> => next < Size

InOrder == loops = [t \in 1 .. threadNum |-> t]
AllLooping == \A t \in 1 .. threadNum : stage[t] = "looping"

(* The destructor returns if the threads registered in the order of their   *)
(* creation and all have entered Loop().  (In another order it joins a      *)
(* thread it has not asked to quit; a loop asked too early forgets it.)     *)
DestructorReturns ==
  owner = "stopping" /\ index = 0 /\ InOrder /\ AllLooping ~> owner = "destroyed"
=============================================================================
