--------------------------- MODULE MCContextBuffer ---------------------------
(* ContextBuffer for TLC: up to two attributes of each kind that the layout*)
(* tells apart, so that every section can be empty, hold one entry and     *)
(* hold two, and two contents, so that an update is seen.                  *)
EXTENDS ContextBuffer

CONSTANTS t1, t2, r1, r2, h1, h2, i1

(* Who uses the attributes: t1 one of each kind and t2 the others, or all  *)
(* threads all of them.                                                    *)
Apart == [a \in Attrs |-> IF a \in {r1, h1, i1} THEN {t1} ELSE {t2}]

Shared == [a \in Attrs |-> Threads]
=============================================================================
