---------------------------- MODULE ContextStacks ----------------------------
(***************************************************************************)
(* What the annotation calls of src/caliper/Caliper.cpp promise: in every  *)
(* scope each attribute has a stack of values of its own.  begin pushes a  *)
(* value, end pops it and reports it to the end events, set replaces the   *)
(* innermost value and set_path all of them, and get returns the innermost *)
(* value.  A flat attribute (CALI_ATTR_ASVALUE, "cannot be nested") has at *)
(* most one value.                                                         *)
(*                                                                         *)
(* last is the most recently completed call.                               *)
(***************************************************************************)
EXTENDS Integers, Sequences, SequencesExt

CONSTANTS Scopes, Attrs, Flat, Values, ValueLists, None

VARIABLES stacks, last

csVars == <<stacks, last>>

Call(op, s, a, arg, ret) == [op |-> op, scope |-> s, attr |-> a, arg |-> arg, ret |-> ret]

NoCall == Call("none", None, None, None, None)

Top(st) == IF st = <<>> THEN None ELSE Last(st)

Init ==
  /\ stacks = [s \in Scopes |-> [a \in Attrs |-> <<>>]]
  /\ last = NoCall

Begin(s, a, v) ==
  /\ stacks' = [stacks EXCEPT ![s][a] = IF a \in Flat THEN <<v>> ELSE Append(@, v)]
  /\ last' = Call("begin", s, a, v, None)

(* Ending what is not active is an error (CALI_ESTACK) without an event.   *)
End(s, a) ==
  /\ stacks' = [stacks EXCEPT ![s][a] = IF @ = <<>> THEN @ ELSE Front(@)]
  /\ last' = Call(IF stacks[s][a] = <<>> THEN "estack" ELSE "end", s, a, None, Top(stacks[s][a]))

Set(s, a, v) ==
  /\ stacks' = [stacks EXCEPT ![s][a] = IF @ = <<>> THEN <<v>> ELSE Append(Front(@), v)]
  /\ last' = Call("set", s, a, v, None)

SetPath(s, a, vs) ==
  /\ stacks' = [stacks EXCEPT ![s][a] = vs]
  /\ last' = Call("set_path", s, a, vs, None)

Get(s, a) ==
  /\ last' = Call("get", s, a, None, Top(stacks[s][a]))
  /\ UNCHANGED stacks

Next ==
  \E s \in Scopes, a \in Attrs :
    \/ \E v \in Values : Begin(s, a, v) \/ Set(s, a, v)
    \/ End(s, a) \/ Get(s, a)
    \/ a \notin Flat /\ \E vs \in ValueLists : SetPath(s, a, vs)

Spec == Init /\ [][Next]_csVars
=============================================================================
