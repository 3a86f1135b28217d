----------------------------- MODULE MCTcpServer -----------------------------
(* A server whose connections all have names of their own.  The pools it may *)
(* have are chosen in the cfg.                                               *)
EXTENDS TcpServer, TLC

CONSTANTS io1, io2

OwnName == [c \in Conns |-> c]

ASSUME MCNamesAreDistinct == DistinctNames

TwoFds == {5, 6}

NoPool == {<<>>}
NoneOrOneLoop == {<<>>, <<io1>>}
NoneOrTwoLoops == {<<>>, <<io1, io2>>}

Symmetry == Permutations(Conns)
=============================================================================
