-------------------------- MODULE MCConnectionOutput --------------------------
(* Data of twice the output buffer: what a short send leaves of it fits, fits *)
(* exactly or does not fit.                                                   *)
EXTENDS ConnectionOutput

MCInitialSize == 2
MCLengths == {2 * MCInitialSize}
===============================================================================
