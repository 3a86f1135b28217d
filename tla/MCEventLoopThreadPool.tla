------------------------ MODULE MCEventLoopThreadPool ------------------------
(* The bounds of EventLoopThreadPool are numbers the cfg gives. *)
EXTENDS EventLoopThreadPool
=============================================================================
