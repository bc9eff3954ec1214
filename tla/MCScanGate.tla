----------------------------- MODULE MCScanGate -----------------------------
(* Three calls at once at a gate of any kind and configuration, each used   *)
(* again and again.                                                         *)
EXTENDS ScanGate

CONSTANTS c1, c2, c3
============================================================================
