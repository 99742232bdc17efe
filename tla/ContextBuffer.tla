---------------------------- MODULE ContextBuffer ----------------------------
(***************************************************************************)
(* The blackboard as src/caliper/ContextBuffer.cpp stores it: parallel     *)
(* arrays cut into a section of context tree nodes, a section of hidden    *)
(* values and a section of visible values,                                 *)
(*                                                                         *)
(*   [ nodes 1..m_num_nodes | m_num_hidden hidden values | other values ]  *)
(*                                                                         *)
(* (arrays are 1-based here).  m_attr repeats m_keys as Variants and is    *)
(* left out, and so is m_max_entries, which is only printed.               *)
(*                                                                         *)
(* Every method holds m_lock from its first to its last access, so it is   *)
(* one step, except exchange, which releases the lock between looking for  *)
(* the key and storing the value of a key it did not find.                 *)
(***************************************************************************)
EXTENDS Integers, Sequences

CONSTANTS Threads,
          Attrs,
          AsValue,    \* attributes with CALI_ATTR_ASVALUE
          Hidden,     \* attributes with CALI_ATTR_HIDDEN
          Users,      \* the threads that use an attribute
          Values, Nodes,
          Empty       \* the empty Variant / null Node*

ASSUME AttrAssumption == AsValue \subseteq Attrs /\ Hidden \subseteq Attrs

ASSUME UsersAssumption == Users \in [Attrs -> SUBSET Threads]

ASSUME EmptyAssumption == Empty \notin Attrs \cup Values \cup Nodes

VARIABLES m_keys, m_data, m_nodes, m_num_nodes, m_num_hidden,
          pending,    \* the exchange a thread has half done, per thread
          last        \* the last completed call, for the refinement

arrays == <<m_keys, m_data, m_nodes, m_num_nodes, m_num_hidden>>

vars == <<m_keys, m_data, m_nodes, m_num_nodes, m_num_hidden, pending, last>>

RefAttrs == Attrs \ AsValue

(* Variant(node->id()), the content of a node's slot in m_data.            *)
IdVariant(n) == [id |-> n]

Idle == [attr |-> Empty, val |-> Empty, new |-> FALSE]

(* The map that the arrays stand for.                                      *)
Board ==
  [a \in Attrs |->
    LET at == {i \in 1..Len(m_keys) : m_keys[i] = a}
        i  == CHOOSE i \in at : TRUE
    IN  IF at = {} THEN Empty
        ELSE IF i <= m_num_nodes THEN m_nodes[i] ELSE m_data[i]]

(* What a snapshot is to leave out: hidden entries are kept apart only     *)
(* among the values.                                                       *)
BB == INSTANCE Blackboard WITH
        ValAttrs <- AsValue,
        Visible  <- Attrs \ (AsValue \cap Hidden),
        board    <- Board

-----------------------------------------------------------------------------
(* Array helpers.                                                          *)

(* std::find over the slots lo..hi: the slots that hold key a, and the     *)
(* first of them.                                                          *)
Slots(a, lo, hi) == {i \in lo..hi : m_keys[i] = a}

First(S) == CHOOSE i \in S : \A j \in S : i <= j

All(a) == Slots(a, 1, Len(m_keys))

(* std::swap(s.back(), s[n])                                               *)
SwapBack(s, n) == [s EXCEPT ![n] = s[Len(s)], ![Len(s)] = s[n]]

-----------------------------------------------------------------------------
Init ==
  /\ m_keys = <<>> /\ m_data = <<>> /\ m_nodes = <<>>
  /\ m_num_nodes = 0 /\ m_num_hidden = 0
  /\ pending = [t \in Threads |-> Idle]
  /\ last = BB!NoCall

(* A thread that is in no exchange makes a call for an attribute it uses.  *)
Calls(t, a) == pending[t] = Idle /\ t \in Users[a]

(* The body of set(): update in place, or push back and swap the new entry *)
(* to the end of its section.                                              *)
SetEntry(a, v) ==
  LET isNode   == a \notin AsValue
      isHidden == a \in AsValue \cap Hidden
      n == IF isNode THEN m_num_nodes + 1
           ELSE IF isHidden THEN m_num_nodes + m_num_hidden + 1
           ELSE Len(m_keys) + 1
  IN  IF All(a) # {}
      THEN /\ m_data' = [m_data EXCEPT ![First(All(a))] = v]
           /\ UNCHANGED <<m_keys, m_nodes, m_num_nodes, m_num_hidden>>
      ELSE /\ m_keys' = SwapBack(Append(m_keys, a), n)
           /\ m_data' = SwapBack(Append(m_data, v), n)
           /\ m_nodes' = IF isNode THEN Append(m_nodes, Empty) ELSE m_nodes
           /\ m_num_nodes' = m_num_nodes + (IF isNode THEN 1 ELSE 0)
           /\ m_num_hidden' = m_num_hidden + (IF isHidden THEN 1 ELSE 0)

(* set(), called only for attributes stored as a value (Caliper.cpp:956    *)
(* and 1059).                                                              *)
Set(t, a, v) ==
  /\ Calls(t, a)
  /\ SetEntry(a, v)
  /\ last' = BB!Call("set", a, v, Empty)
  /\ UNCHANGED pending

(* exchange() up to the release of the lock: a value that is found is      *)
(* replaced.  Unless that value was not empty, the set() is still to come. *)
Exchange(t, a, v) ==
  LET at  == Slots(a, m_num_nodes + 1, Len(m_keys))
      i   == First(at)
      ret == IF at # {} THEN m_data[i] ELSE Empty
  IN  /\ Calls(t, a)
      /\ IF at # {}
         THEN /\ m_data' = [m_data EXCEPT ![i] = v]
              /\ last' = BB!Call("exchange", a, v, ret)
         ELSE UNCHANGED <<m_data, last>>
      /\ pending' = IF ret = Empty
                    THEN [pending EXCEPT ![t] = [attr |-> a, val |-> v, new |-> at = {}]]
                    ELSE pending
      /\ UNCHANGED <<m_keys, m_nodes, m_num_nodes, m_num_hidden>>

(* The rest of an exchange() whose previous value was empty.               *)
ExchangeSet(t) ==
  LET p == pending[t]
  IN  /\ p # Idle
      /\ SetEntry(p.attr, p.val)
      /\ last' = IF p.new THEN BB!Call("exchange", p.attr, p.val, Empty) ELSE last
      /\ pending' = [pending EXCEPT ![t] = Idle]

(* A defect: the hidden value that made room stays at the back.            *)
MoveUpOnce(s) == SwapBack(s, m_num_nodes + 1)

(* Take the entry at the back to the end of the node section.  That moves  *)
(* a hidden value to the back, and the second swap takes it to the end of  *)
(* the hidden section again.                                               *)
MoveUp(s) ==
  LET s1 == SwapBack(s, m_num_nodes + 1)
  IN  IF m_num_hidden > 0 THEN SwapBack(s1, m_num_nodes + m_num_hidden + 1)
                          ELSE s1

(* set_node(): update in place, or add the node and move it up front.      *)
SetNode(t, a, n) ==
  LET at == Slots(a, 1, m_num_nodes)
      i  == First(at)
  IN  /\ Calls(t, a)
      /\ IF at # {}
         THEN /\ m_data' = [m_data EXCEPT ![i] = IdVariant(n)]
              /\ m_nodes' = [m_nodes EXCEPT ![i] = n]
              /\ UNCHANGED <<m_keys, m_num_nodes>>
         ELSE /\ m_keys' = MoveUp(Append(m_keys, a))
              /\ m_data' = MoveUp(Append(m_data, IdVariant(n)))
              /\ m_nodes' = Append(m_nodes, n)
              /\ m_num_nodes' = m_num_nodes + 1
      /\ last' = BB!Call("set_node", a, n, Empty)
      /\ UNCHANGED <<m_num_hidden, pending>>

(* Whether slot i, which is behind the nodes, is one of a hidden value.    *)
InHidden(i) == i <= m_num_nodes + m_num_hidden

(* vector::erase.                                                         *)
Erase(s, i) == SubSeq(s, 1, i - 1) \o SubSeq(s, i + 1, Len(s))

(* unset(): erase the entry and shrink the section it was in.              *)
Unset(t, a) ==
  LET i == First(All(a))
  IN  /\ Calls(t, a)
      /\ IF All(a) # {}
         THEN /\ m_keys' = Erase(m_keys, i)
              /\ m_data' = Erase(m_data, i)
              /\ m_nodes' = IF i <= Len(m_nodes) THEN Erase(m_nodes, i) ELSE m_nodes
              /\ IF i <= m_num_nodes
                 THEN m_num_nodes' = m_num_nodes - 1 /\ UNCHANGED m_num_hidden
                 ELSE /\ UNCHANGED m_num_nodes
                      /\ m_num_hidden' = IF InHidden(i) THEN m_num_hidden - 1 ELSE m_num_hidden
         ELSE UNCHANGED arrays
      /\ last' = BB!Call("unset", a, Empty, Empty)
      /\ UNCHANGED pending

(* get() of a value attribute, and get_node() of a node attribute.         *)
Get(t, a) ==
  LET at == IF a \in AsValue THEN All(a) ELSE Slots(a, 1, m_num_nodes)
      i  == First(at)
  IN  /\ Calls(t, a)
      /\ last' = BB!Call("get", a, Empty,
                   IF at = {} THEN Empty
                   ELSE IF a \in AsValue THEN m_data[i] ELSE m_nodes[i])
      /\ UNCHANGED <<arrays, pending>>

(* A defect: the snapshot starts right behind the nodes.                   *)
SnapshotWithHidden ==
  {<<m_keys[i], m_nodes[i]>> : i \in 1..m_num_nodes} \cup
  {<<m_keys[i], m_data[i]>> : i \in (m_num_nodes + 1)..Len(m_data)}

(* What snapshot() appends to the record: the first m_num_nodes node       *)
(* pointers, and the values behind the hidden section.  A node is paired   *)
(* with the key of its slot.                                               *)
SnapshotEntries ==
  {<<m_keys[i], m_nodes[i]>> : i \in 1..m_num_nodes} \cup
  {<<m_keys[i], m_data[i]>> : i \in (m_num_nodes + m_num_hidden + 1)..Len(m_data)}

Snapshot(t) ==
  /\ pending[t] = Idle
  /\ last' = BB!Call("snapshot", Empty, Empty, SnapshotEntries)
  /\ UNCHANGED <<arrays, pending>>

Next ==
  \E t \in Threads :
    \/ \E a \in AsValue, v \in Values : Set(t, a, v)
    \/ \E a \in AsValue : \E v \in BB!Exchangeable(a) : Exchange(t, a, v)
    \/ ExchangeSet(t)
    \/ \E a \in RefAttrs, n \in Nodes : SetNode(t, a, n)
    \/ \E a \in Attrs : Unset(t, a) \/ Get(t, a)
    \/ Snapshot(t)

Spec == Init /\ [][Next]_vars
-----------------------------------------------------------------------------
Contents == Values \cup {Empty} \cup {IdVariant(n) : n \in Nodes}

Pending == [attr : AsValue, val : Values \cup {Empty}, new : BOOLEAN]

ArraysTypeOK ==
  /\ m_keys \in Seq(Attrs)
  /\ m_data \in Seq(Contents)
  /\ m_nodes \in Seq(Nodes)
  /\ m_num_nodes \in Nat /\ m_num_hidden \in Nat

(* Type invariant: the arrays hold keys, contents and nodes, the section   *)
(* sizes are counters that never go below zero, and a thread is idle or    *)
(* about to store the value of an exchange() that returns empty.           *)
TypeOK ==
  /\ ArraysTypeOK
  /\ pending \in [Threads -> {Idle} \cup Pending]

(* The arrays run in parallel, and the sections fit in them.               *)
ArraysParallel ==
  /\ Len(m_data) = Len(m_keys)
  /\ Len(m_nodes) = m_num_nodes
  /\ m_num_nodes + m_num_hidden <= Len(m_keys)

(* An attribute has at most one entry.                                     *)
KeysUnique ==
  \A i, j \in 1..Len(m_keys) : m_keys[i] = m_keys[j] => i = j

(* Every entry lies in the section of its kind.                            *)
Sections ==
  \A i \in 1..Len(m_keys) :
    /\ m_keys[i] \in RefAttrs <=> i <= m_num_nodes
    /\ m_keys[i] \in AsValue \cap Hidden <=>
         m_num_nodes < i /\ i <= m_num_nodes + m_num_hidden

(* The slots of the node section hold the id of the node beside them, and  *)
(* the other slots a value.                                                *)
ContentsMatch ==
  \A i \in 1..Len(m_keys) :
    IF i <= m_num_nodes THEN m_data[i] = IdVariant(m_nodes[i])
                        ELSE m_data[i] \in Values \cup {Empty}

(* The layout of ContextBuffer.cpp:61-65 survives every sequence of calls, *)
(* those of several threads and their half-done exchanges included: no     *)
(* duplicate key, every entry in the section of its kind, and node         *)
(* pointers beside their ids.                                              *)
Layout == ArraysParallel /\ KeysUnique /\ Sections /\ ContentsMatch

(* The arrays implement the map: each call has the effect and returns the  *)
(* result that Blackboard defines, a snapshot holds exactly the contents   *)
(* that are set and not hidden, and exchange replaces a value and returns  *)
(* the old one in one step ("Atomically updates value for given attribute  *)
(* key and returns the previous value.", Caliper.cpp:1294).  It holds when *)
(* threads share the blackboard but no attribute on it, and fails when two *)
(* threads exchange the value of the same attribute.                       *)
RefinesBlackboard == BB!Spec
=============================================================================
