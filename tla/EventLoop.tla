------------------------------ MODULE EventLoop ------------------------------
(***************************************************************************)
(* One EventLoop: the thread that runs EventLoop::Loop, the eventfd and the *)
(* pending_functors_ through which other threads reach it, and the threads  *)
(* that call RunInLoop, QueueInLoop and Quit.                               *)
(*                                                                         *)
(* What one handled I/O event or one functor does is abstracted to what it  *)
(* may do to this loop: call RunInLoop, QueueInLoop or Quit, any number of  *)
(* times, and return.  I/O readiness is the environment's.                  *)
(***************************************************************************)
EXTENDS Naturals, Sequences, FiniteSets, Functions

CONSTANTS
  Callers,          \* the threads other than the loop's that use the loop
  LoopThread,       \* the thread that created the EventLoop and runs Loop()
  Tasks             \* the functors given to RunInLoop and QueueInLoop

ASSUME ThreadsAssumption == LoopThread \notin Callers

Threads == Callers \cup {LoopThread}

(* The two kinds of entries of active_channel_list_: wakeup_channel_ and   *)
(* any other channel.                                                      *)
WakeupChannel == "wakeup_channel"
IoChannel == "io_channel"
Channels == {WakeupChannel, IoChannel}

VARIABLES
  loopPc,           \* where the loop thread is in Loop()
  quit,             \* quit_flag_
  callingFlag,      \* calling_pend_functors_flag_: never initialised, never set
  readable,         \* whether the counter of wakeup_fd_ is above 0
  active,           \* active_channel_list_: the entries not handled yet
  pending,          \* pending_functors_
  functors,         \* the local vector of DoPendingFunctors: what is left to run
  waking,           \* the callers between their push (or flag) and their Wakeup()
  queued,           \* history: functors pushed by QueueInLoop, in order
  executed,         \* history: functors DoPendingFunctors has run, in order
  inlined,          \* history: functors RunInLoop called on the spot
  due               \* history: functors whose push is followed by a Wakeup(), or
                    \* that precede the swap of the iteration that pushed them

vars == <<loopPc, quit, callingFlag, readable, active, pending, functors,
          waking, queued, executed, inlined, due>>

Init ==
  /\ loopPc = "created"
  /\ quit = FALSE
  /\ callingFlag \in BOOLEAN     \* an uninitialised member: either value
  /\ readable = FALSE
  /\ active = {}
  /\ pending = <<>>
  /\ functors = <<>>
  /\ waking = {}
  /\ queued = <<>>
  /\ executed = <<>>
  /\ inlined = {}
  /\ due = {}

-----------------------------------------------------------------------------
(* Calls from any thread.                                                  *)

(* The loop thread makes calls before it enters Loop(), from the handler of *)
(* a channel and from a functor; another thread whenever it is not inside   *)
(* an earlier call.                                                         *)
InCallback ==
  \/ loopPc = "created"
  \/ loopPc = "handle" /\ IoChannel \in active
  \/ loopPc = "run" /\ functors # <<>>

CanCall(t) == (t = LoopThread /\ InCallback) \/ (t \in Callers \ waking)

Fresh(k) == k \notin Range(queued) \cup inlined

Push(k) ==
  /\ Fresh(k)
  /\ pending' = Append(pending, k)
  /\ queued' = Append(queued, k)

QueueFromCallerNoWakeup(t, k) ==
  /\ t \in Callers
  /\ CanCall(t)
  /\ Push(k)
  /\ due' = due \cup {k}
  /\ UNCHANGED <<loopPc, quit, callingFlag, readable, active, functors,
                 waking, executed, inlined>>

(* QueueInLoop from another thread: the push under mutex_, then Wakeup(). *)
QueueFromCaller(t, k) ==
  /\ t \in Callers
  /\ CanCall(t)
  /\ Push(k)
  /\ waking' = waking \cup {t}
  /\ due' = due \cup {k}
  /\ UNCHANGED <<loopPc, quit, callingFlag, readable, active, functors,
                 executed, inlined>>

(* QueueInLoop from the loop thread: Wakeup() only if the flag says so. *)
QueueFromLoop(t, k) ==
  /\ t = LoopThread
  /\ CanCall(t)
  /\ Push(k)
  /\ readable' = (readable \/ callingFlag)
  /\ due' = due \cup (IF callingFlag \/ loopPc = "handle" THEN {k} ELSE {})
  /\ UNCHANGED <<loopPc, quit, callingFlag, active, functors, waking,
                 executed, inlined>>

QueueInLoop(t, k) == QueueFromCaller(t, k) \/ QueueFromLoop(t, k)

CallInline(t, k) ==
  /\ t = LoopThread
  /\ CanCall(t)
  /\ Fresh(k)
  /\ inlined' = inlined \cup {k}
  /\ UNCHANGED <<loopPc, quit, callingFlag, readable, active, pending,
                 functors, waking, queued, executed, due>>

RunInLoop(t, k) == CallInline(t, k) \/ QueueFromCaller(t, k)

QuitWithoutWakeup(t) ==
  /\ CanCall(t)
  /\ quit' = TRUE
  /\ UNCHANGED <<loopPc, callingFlag, readable, active, pending, functors,
                 waking, queued, executed, inlined, due>>

QuitWakingItself(t) ==
  /\ CanCall(t)
  /\ quit' = TRUE
  /\ waking' = waking \cup {t}
  /\ UNCHANGED <<loopPc, callingFlag, readable, active, pending, functors,
                 queued, executed, inlined, due>>

(* Quit: the flag, then Wakeup() if the caller is another thread. *)
Quit(t) ==
  /\ CanCall(t)
  /\ quit' = TRUE
  /\ waking' = waking \cup ({t} \cap Callers)
  /\ UNCHANGED <<loopPc, callingFlag, readable, active, pending, functors,
                 queued, executed, inlined, due>>

(* The eventfd write that ends a call from another thread. *)
Wakeup(t) ==
  /\ t \in waking
  /\ waking' = waking \ {t}
  /\ readable' = TRUE
  /\ UNCHANGED <<loopPc, quit, callingFlag, active, pending, functors,
                 queued, executed, inlined, due>>

-----------------------------------------------------------------------------
(* The loop thread.                                                        *)

(* Loop() forgets a Quit that came before it. *)
Loop ==
  /\ loopPc = "created"
  /\ loopPc' = "check"
  /\ quit' = FALSE
  /\ UNCHANGED <<callingFlag, readable, active, pending, functors, waking,
                 queued, executed, inlined, due>>

CheckQuit ==
  /\ loopPc = "check"
  /\ loopPc' = IF quit THEN "done" ELSE "poll"
  /\ UNCHANGED <<quit, callingFlag, readable, active, pending, functors,
                 waking, queued, executed, inlined, due>>

(* epoll_wait without timeout returns some of the ready channels (at most   *)
(* as many as its array holds) or, interrupted by a signal, none.           *)
Poll ==
  /\ loopPc = "poll"
  /\ active' \in SUBSET Channels
  /\ WakeupChannel \in active' => readable
  /\ loopPc' = "handle"
  /\ UNCHANGED <<quit, callingFlag, readable, pending, functors, waking,
                 queued, executed, inlined, due>>

(* HandleWakeUpEvent: one read resets the counter. *)
HandleWakeUpEvent ==
  /\ loopPc = "handle"
  /\ WakeupChannel \in active
  /\ active' = active \ {WakeupChannel}
  /\ readable' = FALSE
  /\ UNCHANGED <<loopPc, quit, callingFlag, pending, functors, waking,
                 queued, executed, inlined, due>>

(* The handler of another channel returns. *)
HandleIoEvent ==
  /\ loopPc = "handle"
  /\ IoChannel \in active
  /\ active' = active \ {IoChannel}
  /\ UNCHANGED <<loopPc, quit, callingFlag, readable, pending, functors,
                 waking, queued, executed, inlined, due>>

SwapKeepingPending ==
  /\ loopPc = "handle"
  /\ active = {}
  /\ functors' = pending
  /\ loopPc' = "run"
  /\ UNCHANGED <<quit, callingFlag, readable, active, pending, waking, queued,
                 executed, inlined, due>>

(* DoPendingFunctors takes all of pending_functors_ under mutex_. *)
SwapFunctors ==
  /\ loopPc = "handle"
  /\ active = {}
  /\ functors' = pending
  /\ pending' = <<>>
  /\ loopPc' = "run"
  /\ UNCHANGED <<quit, callingFlag, readable, active, waking, queued,
                 executed, inlined, due>>

RunNewestFunctor ==
  /\ loopPc = "run"
  /\ functors # <<>>
  /\ executed' = Append(executed, functors[Len(functors)])
  /\ functors' = SubSeq(functors, 1, Len(functors) - 1)
  /\ UNCHANGED <<loopPc, quit, callingFlag, readable, active, pending, waking,
                 queued, inlined, due>>

(* The first of the functors left returns. *)
RunFunctor ==
  /\ loopPc = "run"
  /\ functors # <<>>
  /\ executed' = Append(executed, Head(functors))
  /\ functors' = Tail(functors)
  /\ UNCHANGED <<loopPc, quit, callingFlag, readable, active, pending, waking,
                 queued, inlined, due>>

EndRunOnQuit ==
  /\ loopPc = "run"
  /\ functors = <<>> \/ quit
  /\ loopPc' = "check"
  /\ UNCHANGED <<quit, callingFlag, readable, active, pending, functors,
                 waking, queued, executed, inlined, due>>

EndRunDraining ==
  /\ loopPc = "run"
  /\ functors = <<>>
  /\ loopPc' = "check"
  /\ readable' = FALSE
  /\ UNCHANGED <<quit, callingFlag, active, pending, functors, waking, queued,
                 executed, inlined, due>>

EndRun ==
  /\ loopPc = "run"
  /\ functors = <<>>
  /\ loopPc' = "check"
  /\ UNCHANGED <<quit, callingFlag, readable, active, pending, functors,
                 waking, queued, executed, inlined, due>>

-----------------------------------------------------------------------------
Call(t) == (\E k \in Tasks : QueueInLoop(t, k) \/ RunInLoop(t, k)) \/ Quit(t)

LoopStep ==
  \/ Loop \/ CheckQuit \/ Poll \/ HandleWakeUpEvent \/ HandleIoEvent
  \/ SwapFunctors \/ RunFunctor \/ EndRun

(* Loop() has returned and nobody has anything left to hand over. *)
Stopped ==
  /\ loopPc = "done"
  /\ waking = {}
  /\ \A k \in Tasks : ~Fresh(k)
  /\ UNCHANGED vars

Next ==
  \/ \E t \in Threads : Call(t)
  \/ \E t \in Callers : Wakeup(t)
  \/ LoopStep
  \/ Stopped

Spec == Init /\ [][Next]_vars

(***************************************************************************)
(* Fairness: a running thread goes on.  A caller inside a call finishes it; *)
(* the loop thread takes its next step, except that epoll_wait need not     *)
(* return while nothing is readable; callbacks and functors return.  No     *)
(* thread has to make a call, no I/O event has to happen.                   *)
(***************************************************************************)
Fairness ==
  /\ \A t \in Callers : WF_vars(Wakeup(t))
  /\ WF_vars(Loop)
  /\ WF_vars(CheckQuit)
  /\ WF_vars(readable /\ Poll)
  /\ WF_vars(HandleWakeUpEvent)
  /\ WF_vars(HandleIoEvent)
  /\ WF_vars(SwapFunctors)
  /\ WF_vars(RunFunctor)
  /\ WF_vars(EndRun)

FairSpec == Spec /\ Fairness

-----------------------------------------------------------------------------
(* The shape of the state of one EventLoop. *)
TypeOK ==
  /\ loopPc \in {"created", "check", "poll", "handle", "run", "done"}
  /\ quit \in BOOLEAN
  /\ callingFlag \in BOOLEAN
  /\ readable \in BOOLEAN
  /\ active \in SUBSET Channels
  /\ pending \in Seq(Tasks)
  /\ functors \in Seq(Tasks)
  /\ waking \in SUBSET Callers
  /\ queued \in Seq(Tasks)
  /\ executed \in Seq(Tasks)
  /\ inlined \in SUBSET Tasks
  /\ due \in SUBSET Tasks

(* No functor is lost, run twice or reordered on its way through            *)
(* pending_functors_ and the local vector of DoPendingFunctors, however     *)
(* pushes and swaps interleave.                                             *)
Conservation == queued = executed \o functors \o pending

(* A loop that may go to sleep with a due functor in pending_functors_ has  *)
(* a readable wakeup_fd_, or a caller that is about to make it so: the read *)
(* in HandleWakeUpEvent never swallows the wakeup of a push it misses.      *)
NoLostWakeup ==
  (\E k \in due : k \in Range(pending)) /\ loopPc \in {"created", "check", "poll", "run"}
    => readable \/ waking # {}

(* A loop blocked in epoll_wait after a Quit is about to be woken: setting  *)
(* quit_flag_ before Wakeup() leaves no window in which Quit is slept over. *)
QuitIsNotSleptOver == loopPc = "poll" /\ quit => readable \/ waking # {}

(* A functor another thread has queued is run, unless Loop() returns: no    *)
(* interleaving of push, eventfd write, read and swap strands it.           *)
DueTaskRuns ==
  \A k \in Tasks : k \in due ~> (k \in Range(executed) \/ loopPc = "done")

(* A functor DoPendingFunctors has taken is run even if Quit comes first:   *)
(* Loop() returns only between two batches.                                 *)
TakenTaskRuns ==
  \A k \in Tasks : k \in Range(functors) ~> k \in Range(executed)

(* Once Loop() has started, Quit from any thread makes it return. *)
QuitReturns == (quit /\ loopPc # "created") ~> loopPc = "done"

(* The loop implements the queue its callers are promised. *)
Queue == INSTANCE TaskQueue WITH arrivals <- queued, ran <- executed,
                                 open <- (loopPc # "done")
ImplementsTaskQueue == Queue!Spec
=============================================================================
