--------------------------- MODULE MCMetadataTree ---------------------------
(* MetadataTree for TLC.                                                   *)
EXTENDS MetadataTree

CONSTANTS t1, t2, a1, a2, a3, v1

AllPaths == UNION {[1..n -> Labels] : n \in 1..MaxPath}

(* Lists that make paths of three attributes, and of one attribute twice   *)
(* with another in between.                                                *)
SomePaths == {<< <<a1, v1>> >>, << <<a1, v1>>, <<a1, v1>> >>, << <<a2, v1>>, <<a3, v1>> >>}
=============================================================================
