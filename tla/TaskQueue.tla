------------------------------ MODULE TaskQueue ------------------------------
(***************************************************************************)
(* What EventLoop::QueueInLoop promises to its callers: functors are run    *)
(* by the loop one at a time, each once, in the order they were queued,     *)
(* until the loop has left Loop().  Nothing here says how the loop is       *)
(* woken, nor in how many batches the functors are run: that is the         *)
(* business of module EventLoop, which implements this one.                 *)
(***************************************************************************)
EXTENDS Naturals, Sequences, Functions

CONSTANT Tasks      \* the functors; a std::function object is queued at most once

VARIABLES
  arrivals,         \* the functors queued so far, in order
  ran,              \* the functors run so far, in order
  open              \* FALSE once Loop() has returned

vars == <<arrivals, ran, open>>

Init ==
  /\ arrivals = <<>>
  /\ ran = <<>>
  /\ open = TRUE

(* A functor may be queued at any time, also when nobody will run it any more. *)
Post(k) ==
  /\ k \notin Range(arrivals)
  /\ arrivals' = Append(arrivals, k)
  /\ UNCHANGED <<ran, open>>

(* The loop runs the oldest functor it has not run yet. *)
Run ==
  /\ open
  /\ Len(ran) < Len(arrivals)
  /\ ran' = Append(ran, arrivals[Len(ran) + 1])
  /\ UNCHANGED <<arrivals, open>>

Close ==
  /\ open
  /\ open' = FALSE
  /\ UNCHANGED <<arrivals, ran>>

Next == (\E k \in Tasks : Post(k)) \/ Run \/ Close

Spec == Init /\ [][Next]_vars
=============================================================================
