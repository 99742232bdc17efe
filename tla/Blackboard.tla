----------------------------- MODULE Blackboard -----------------------------
(***************************************************************************)
(* What a Caliper blackboard promises its callers: a map from attribute    *)
(* keys to contents, every call of which takes effect in one step and      *)
(* returns what the map says.  ContextBuffer keeps the map in one array    *)
(* cut into three sections; this module knows nothing of that array.       *)
(*                                                                         *)
(* last is the most recently completed call with its arguments and result. *)
(***************************************************************************)
CONSTANTS RefAttrs,   \* keys whose content is a context tree node
          ValAttrs,   \* keys whose content is stored as a value
          Visible,    \* keys that a snapshot includes
          Nodes,
          Values,
          Empty       \* what a lookup returns for a key that is not set

VARIABLES board, last

bbVars == <<board, last>>

Call(op, a, arg, ret) == [op |-> op, attr |-> a, arg |-> arg, ret |-> ret]

NoCall == Call("none", Empty, Empty, Empty)

(* The entries a snapshot of board b holds.                                *)
Shown(b) == {<<a, b[a]>> : a \in {x \in Visible : b[x] # Empty}}

(* An empty value is exchanged for a hidden attribute only, to take a      *)
(* saved value off the blackboard (Timestamp.cpp:222).                     *)
Exchangeable(a) == IF a \in Visible THEN Values ELSE Values \cup {Empty}

Init ==
  /\ board = [a \in RefAttrs \cup ValAttrs |-> Empty]
  /\ last = NoCall

Set(a, v) ==
  /\ last' = Call("set", a, v, Empty)
  /\ board' = [board EXCEPT ![a] = v]

SetNode(a, n) ==
  /\ last' = Call("set_node", a, n, Empty)
  /\ board' = [board EXCEPT ![a] = n]

Unset(a) ==
  /\ last' = Call("unset", a, Empty, Empty)
  /\ board' = [board EXCEPT ![a] = Empty]

Exchange(a, v) ==
  /\ last' = Call("exchange", a, v, board[a])
  /\ board' = [board EXCEPT ![a] = v]

Get(a) ==
  /\ last' = Call("get", a, Empty, board[a])
  /\ UNCHANGED board

Snapshot ==
  /\ last' = Call("snapshot", Empty, Empty, Shown(board))
  /\ UNCHANGED board

Next ==
  \/ \E a \in ValAttrs, v \in Values : Set(a, v)
  \/ \E a \in ValAttrs : \E v \in Exchangeable(a) : Exchange(a, v)
  \/ \E a \in RefAttrs, n \in Nodes : SetNode(a, n)
  \/ \E a \in RefAttrs \cup ValAttrs : Unset(a) \/ Get(a)
  \/ Snapshot

Spec == Init /\ [][Next]_bbVars
=============================================================================
