----------------------------- MODULE MCPairRoom -----------------------------
(* A small room for TLC: its creator and two guests.                        *)
EXTENDS PairRoom

CONSTANTS A, B, C, S1, S2, S3
=============================================================================
