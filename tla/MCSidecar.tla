------------------------------ MODULE MCSidecar ------------------------------
(* Instances of Sidecar for TLC. *)
EXTENDS Sidecar

CONSTANTS c1, p1, p2
=============================================================================
