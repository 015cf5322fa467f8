--------------------------- MODULE MCDaemonStart ---------------------------
(* Small instances of DaemonStart.                                         *)
EXTENDS DaemonStart, TLC

CONSTANTS c1, c2, ours1, ours2, old, foreign, p1, p2, p3

TwoClients == {c1, c2}
TwoPorts == {p1, p2}
ThreePorts == {p1, p2, p3}
=============================================================================
