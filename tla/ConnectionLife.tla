--------------------------- MODULE ConnectionLife ---------------------------
(***************************************************************************)
(* What the user of a TcpServer may rely on: a connection is open until it *)
(* is closed, its one request is answered while it is open and as the last *)
(* thing before it closes, and its object and descriptor go away only      *)
(* after that.  Module TcpServer implements this when no two connections   *)
(* have the same name.                                                     *)
(***************************************************************************)
CONSTANT Conns

VARIABLES
  phase,            \* "absent", "open", "closing" or "gone"
  served            \* the connections whose request was answered

vars == <<phase, served>>

In(p) == {c \in Conns : phase[c] = p}

Init ==
  /\ phase = [c \in Conns |-> "absent"]
  /\ served = {}

Open(c) ==
  /\ c \in In("absent")
  /\ phase' = [phase EXCEPT ![c] = "open"]
  /\ UNCHANGED served

Close(c) ==
  /\ c \in In("open")
  /\ phase' = [phase EXCEPT ![c] = "closing"]
  /\ served' \in {served, served \cup {c}}

(* Several objects may go with one container. *)
Release(S) ==
  /\ S # {}
  /\ phase' = [c \in Conns |-> IF c \in S THEN "gone" ELSE phase[c]]
  /\ UNCHANGED served

Next ==
  \/ \E c \in Conns : Open(c) \/ Close(c)
  \/ \E S \in SUBSET In("closing") : Release(S)

Spec == Init /\ [][Next]_vars
=============================================================================
