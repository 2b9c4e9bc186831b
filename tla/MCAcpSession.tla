---------------------------- MODULE MCAcpSession ----------------------------
(* Instances of AcpSession for TLC: ids are model values.                  *)
EXTENDS AcpSession, TLC
CONSTANTS c1, c2, p1
=============================================================================
