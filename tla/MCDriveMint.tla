----------------------------- MODULE MCDriveMint -----------------------------
(* Two mints and two verifies of one or two addresses for TLC.              *)
EXTENDS DriveMint, TLC

CONSTANTS M1, M2, V1, V2, E1, E2, N1

RequestSymmetry == Permutations(Minters) \cup Permutations(Verifiers)
=============================================================================
