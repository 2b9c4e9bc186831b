---------------------------- MODULE MCAcpBridge ----------------------------
(* Instances of AcpBridge for TLC: connections, request ids and ids of     *)
(* provider requests are model values; connections are interchangeable.    *)
EXTENDS AcpBridge, TLC
CONSTANTS c1, c2, r1, p1, p2
Symmetric == Permutations(Conns)
=============================================================================
