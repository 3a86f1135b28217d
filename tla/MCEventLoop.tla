----------------------------- MODULE MCEventLoop -----------------------------
(* Two threads that call into a loop, and functors enough for both and for   *)
(* the loop thread itself.  No symmetry: the run also checks liveness.       *)
EXTENDS EventLoop
=============================================================================
