------------------------------ MODULE MCTcpAck ------------------------------
(* Two connections, one of which gets further than the other. *)
EXTENDS TcpAck

CONSTANTS c1, c2

MCMaxSeq == [c \in Conns |-> IF c = c1 THEN 5 ELSE 4]
=============================================================================
