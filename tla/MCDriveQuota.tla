---------------------------- MODULE MCDriveQuota ----------------------------
(* A small drive for TLC: two folders and a member of each, a few bytes.    *)
EXTENDS DriveQuota

CONSTANTS A, B, X, R1, R2

TwoFolders == {Root, <<A>>, <<B>>, <<A, X>>, <<B, X>>}
=============================================================================
