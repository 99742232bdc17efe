------------------------- MODULE MCAttributeRegistry -------------------------
(* Two threads create an attribute "a" with one attribute derived from it  *)
(* before and one after it is registered, or those two by themselves.      *)
EXTENDS AttributeRegistry

MCNames == {"a", "lvl#a", "stat#a"}

MCBefore == [n \in MCNames |-> IF n = "a" THEN <<"lvl#a">> ELSE <<>>]

MCAfter == [n \in MCNames |-> IF n = "a" THEN <<"stat#a">> ELSE <<>>]
=============================================================================
