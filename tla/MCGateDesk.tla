----------------------------- MODULE MCGateDesk -----------------------------
(* The names the configurations of GateDesk give to requests and handlers. *)
EXTENDS GateDesk

CONSTANTS K1, K2, R1, R2

=============================================================================
