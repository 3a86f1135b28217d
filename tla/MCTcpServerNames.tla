--------------------------- MODULE MCTcpServerNames ---------------------------
(* A server two of whose clients get the same name, as 1.2.3.4:567 and       *)
(* 1.2.3.45:67 do when address and port are written without a separator.     *)
EXTENDS TcpServer

CONSTANTS c1, c2

SharedName == [c \in Conns |-> IF c = c2 THEN c1 ELSE c]

TwoFds == {5, 6}
NoPool == {<<>>}
===============================================================================
