------------------------------ MODULE DriveTree ------------------------------
(***************************************************************************)
(* The objects of one r2-drive drive as its WebDAV handlers see them       *)
(* through PrefixBucket: names, collections, subtrees.                     *)
(*                                                                         *)
(* A path is the sequence of its names; Root is the drive itself.  What a  *)
(* file contains is left out.                                              *)
(***************************************************************************)
EXTENDS Naturals, SequencesExt

CONSTANT Paths  \* the bounded name space: prefix-closed sequences of names

VARIABLE objects  \* what the bucket holds at each path

Root == << >>

ASSUME PathsAssumption ==
  /\ Root \in Paths
  /\ Paths \subseteq Seq(UNION {Range(p) : p \in Paths})
  /\ \A p \in Paths : Prefixes(p) \subseteq Paths

Kinds == {"absent", "file", "collection"}

\* PrefixBucket answers null for the root, whatever is stored under the bare
\* prefix; a listing does return such an object.
head(p) == IF p = Root THEN "absent" ELSE objects[p]

Beneath(p) == {k \in Paths : IsStrictPrefix(p, k) /\ objects[k] # "absent"}

\* Members are enough to make a collection, with or without its own object.
hasCollection(p) == p = Root \/ head(p) = "collection" \/ Beneath(p) # {}

\* The parent of every new name must be a collection; the root has no parent.
ParentExists(p) == p # Root => hasCollection(Front(p))

\* A resource with everything listed under it when it is a collection.
Tree(p) == {p} \cup (IF head(p) = "collection" THEN Beneath(p) ELSE {})

\* Where a COPY or MOVE of source to destination puts the member k of source.
Target(k, source, destination) == destination \o SubSeq(k, Len(source) + 1, Len(k))

\* Neither end of a COPY or MOVE lies inside the other; the root destination
\* slips through, no key starts with "/".
Transferable(source, destination) ==
  /\ source # Root
  /\ ~ IsPrefix(source, destination)
  /\ destination = Root \/ ~ IsPrefix(destination, source)
  /\ head(source) # "absent"
  /\ ParentExists(destination)
=============================================================================
