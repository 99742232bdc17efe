---------------------------- MODULE MCAnnotations ----------------------------
(* Annotations for TLC.  m1 and m2 merge, u1 has a key of its own, i1 is   *)
(* stored as a value and p1 belongs to the process.                        *)
EXTENDS Annotations

CONSTANTS t1, t2, m1, m2, u1, i1, p1, v1, v2

(* Who uses the attributes: p1 one thread only, one thread, or all.        *)
Everyone == [x \in Attrs |-> IF x = p1 THEN {t1} ELSE Threads]

OneThread == [x \in Attrs |-> {t1}]

AllThreads == [x \in Attrs |-> Threads]

Lists == {<<v1>>, <<v1, v2>>}

OneValue == {<<v1>>}
=============================================================================
