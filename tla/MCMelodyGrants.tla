--------------------------- MODULE MCMelodyGrants ---------------------------
(* The names the configuration of MelodyGrants gives to grants and requests. *)
EXTENDS MelodyGrants, TLC

CONSTANTS C1, D1, R1, R2

Alike == Permutations(Requests)

=============================================================================
