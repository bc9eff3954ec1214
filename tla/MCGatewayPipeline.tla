------------------------- MODULE MCGatewayPipeline -------------------------
(* An instance of GatewayPipeline for TLC: two writes of one key, which wait *)
(* for each other's result or do not, and a call that only reads.            *)
EXTENDS GatewayPipeline

CONSTANTS w1, w2, r1
============================================================================
