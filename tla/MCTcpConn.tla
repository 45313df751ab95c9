------------------------------ MODULE MCTcpConn -----------------------------
(* Clients of TcpConn for TLC: with their own source ports, or one.        *)
EXTENDS TcpConn

OwnPorts == [c \in Clients |-> c]
OnePort  == [c \in Clients |-> "p"]
=============================================================================
