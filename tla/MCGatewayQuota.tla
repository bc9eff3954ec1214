--------------------------- MODULE MCGatewayQuota ---------------------------
(* Instances of GatewayQuota for TLC. *)
EXTENDS GatewayQuota, TLC

CONSTANTS c1, c2, c3

CallSymmetry == Permutations(Calls)
============================================================================
