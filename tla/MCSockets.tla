----------------------------- MODULE MCSockets ------------------------------
(* An instance of Sockets for TLC: two connections, so that one may take    *)
(* the descriptor another has given up, a server and a datagram socket,     *)
(* and one descriptor less than objects, so that the process runs out.      *)
EXTENDS Sockets

CONSTANTS t1, t2, s1, u1

TwoTcp == {t1, t2}
OneServer == {s1}
OneUdp == {u1}
ThreeFds == {3, 4, 5}
=============================================================================
