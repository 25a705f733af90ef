---------------------------- MODULE MCDriveLocks ----------------------------
(* Small drives for TLC: a folder, a file in it, and a second folder.       *)
EXTENDS DriveLocks

CONSTANTS A, B, X, T1, T2, T3

\* One folder with one member: every lock operation, no transfer between folders.
OneFolder == {Root, <<A>>, <<A, X>>}

\* Two folders and a member of each: every COPY and MOVE of a small tree.
TwoFolders == {Root, <<A>>, <<B>>, <<A, X>>, <<B, X>>}

TokenSymmetry == Permutations(Tokens)

\* The two folders are interchangeable as well.
FolderSymmetry == {f @@ g : f \in Permutations(Tokens), g \in Permutations({A, B})}

\* The history of the last request decides nothing that happens later: two
\* states that differ in it alone are one state.
WithoutRequest == <<now, locks, objects>>
=============================================================================
