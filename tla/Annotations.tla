----------------------------- MODULE Annotations -----------------------------
(***************************************************************************)
(* The annotation calls begin, end, set, set_path and get of               *)
(* src/caliper/Caliper.cpp on the blackboards of the scopes.               *)
(*                                                                         *)
(* A blackboard maps keys to contents (module Blackboard, which            *)
(* ContextBuffer implements).  The content of a key is a path of the       *)
(* context tree, that is a sequence of <<attribute, value>> pairs, and the *)
(* empty sequence where the key is not set; an attribute stored as a value *)
(* has a path of length one.  Attributes that merge share one key, so      *)
(* their values are interleaved in one path.  The tree operations have the *)
(* results that MetadataTree shows (ResultPathWithRoom); here the tree     *)
(* does not run out of nodes.                                              *)
(*                                                                         *)
(* Each access to a blackboard takes its lock, and nothing else protects   *)
(* the time between two accesses.                                          *)
(***************************************************************************)
EXTENDS Integers, Sequences, SequencesExt

CONSTANTS Threads, Attrs, Values,
          AsValue,        \* attributes with CALI_ATTR_ASVALUE
          NoMerge,        \* attributes with CALI_ATTR_NOMERGE
          Process,        \* attributes with CALI_ATTR_SCOPE_PROCESS
          Users,          \* the threads that use an attribute
          MayEndInactive, \* attributes for which end and get may come unasked
          ValueLists,     \* arguments of set_path
          MaxDepth,       \* longest path
          Proc, KeyAttr, None

ASSUME AttrAssumption ==
  /\ AsValue \subseteq Attrs /\ NoMerge \subseteq Attrs /\ Process \subseteq Attrs
  /\ Users \in [Attrs -> SUBSET Threads]
  /\ ValueLists \subseteq Seq(Values) \ {<<>>}

ASSUME NameAssumption == KeyAttr \notin Attrs /\ Proc \notin Threads /\ None \notin Values

VARIABLES board,   \* the blackboards
          op,      \* the call that a thread is in
          last     \* the last completed call, for the refinement

vars == <<board, op, last>>

Scopes == Threads \cup {Proc}

Keys == Attrs \cup {KeyAttr}

(* A defect: everything goes to the blackboard of the process.             *)
ScopeOfProcess(t, a) == Proc

(* attr2caliscope and scope().  Task scopes behave like thread scopes.     *)
ScopeOf(t, a) == IF a \in Process THEN Proc ELSE t

(* get_key, with automerge on.                                             *)
Key(a) == IF a \in AsValue \cup NoMerge THEN a ELSE KeyAttr

Content(t, a) == board[ScopeOf(t, a)][Key(a)]

(* The values of an attribute on a path, outermost first.                  *)
ValuesOf(path, a) ==
  LET Mine(l) == l[1] = a
      mine == SelectSeq(path, Mine)
  IN  [i \in 1..Len(mine) |-> mine[i][2]]

CS == INSTANCE ContextStacks WITH
        Flat   <- AsValue,
        stacks <- [s \in Scopes |-> [a \in Attrs |-> ValuesOf(board[s][Key(a)], a)]]

Pairs(a, vs) == [i \in 1..Len(vs) |-> <<a, vs[i]>>]

(* A defect: the innermost pair goes, whatever its attribute.              *)
RemoveLastInPath(path, a) == IF path = <<>> THEN path ELSE Front(path)

(* remove_first_in_path: the path without the innermost pair of attr a.    *)
RemoveFirstInPath(path, a) ==
  LET at == {i \in 1..Len(path) : path[i][1] = a}
  IN  IF at = {} THEN path
      ELSE RemoveAt(path, CHOOSE i \in at : \A j \in at : j <= i)

ReplaceFirstInPath(path, a, v) == Append(RemoveFirstInPath(path, a), <<a, v>>)

ReplaceAllInPath(path, a, vs) ==
  LET Other(l) == l[1] # a
  IN  SelectSeq(path, Other) \o Pairs(a, vs)

(* find_node_with_attribute, and the value of the node.                    *)
InnermostValue(path, a) == CS!Top(ValuesOf(path, a))

-----------------------------------------------------------------------------
Idle == [pc |-> "idle", attr |-> None, entry |-> None, path |-> <<>>, call |-> CS!NoCall]

Init ==
  /\ board = [s \in Scopes |-> [k \in Keys |-> <<>>]]
  /\ op = [t \in Threads |-> Idle]
  /\ last = CS!NoCall

Calls(t, a) == op[t] = Idle /\ t \in Users[a]

Put(t, a, path) == board' = [board EXCEPT ![ScopeOf(t, a)][Key(a)] = path]

(* A call that has read the path and is about to store another one.        *)
ToStore(t, a, path, call) ==
  /\ op' = [op EXCEPT ![t] = [Idle EXCEPT !.pc = "store", !.attr = a, !.path = path, !.call = call]]
  /\ UNCHANGED <<board, last>>

(* begin: set() of a value, or get_node() and get_path().                  *)
Begin(t, a, v) ==
  LET call == CS!Call("begin", ScopeOf(t, a), a, v, None)
  IN  /\ Calls(t, a)
      /\ IF a \in AsValue
         THEN Put(t, a, <<<<a, v>>>>) /\ last' = call /\ UNCHANGED op
         ELSE /\ Len(Content(t, a)) < MaxDepth
              /\ ToStore(t, a, Append(Content(t, a), <<a, v>>), call)

(* set: set() of a value, or get_node() and replace_first_in_path().       *)
Set(t, a, v) ==
  LET call == CS!Call("set", ScopeOf(t, a), a, v, None)
  IN  /\ Calls(t, a)
      /\ IF a \in AsValue
         THEN Put(t, a, <<<<a, v>>>>) /\ last' = call /\ UNCHANGED op
         ELSE /\ Len(RemoveFirstInPath(Content(t, a), a)) < MaxDepth
              /\ ToStore(t, a, ReplaceFirstInPath(Content(t, a), a, v), call)

(* set_path: get_node() and replace_all_in_path(), an error for values.    *)
SetPath(t, a, vs) ==
  LET path == ReplaceAllInPath(Content(t, a), a, vs)
  IN  /\ Calls(t, a)
      /\ a \notin AsValue
      /\ Len(path) <= MaxDepth
      /\ ToStore(t, a, path, CS!Call("set_path", ScopeOf(t, a), a, vs, None))

(* set_node() with the new path, or unset() when only the root is left.    *)
Store(t) ==
  LET o == op[t]
  IN  /\ o.pc = "store"
      /\ Put(t, o.attr, o.path)
      /\ last' = o.call
      /\ op' = [op EXCEPT ![t] = Idle]

(* get: the entry of a value attribute is empty for no attribute id, but   *)
(* its value is empty where the attribute is not set.                      *)
EntryOf(t, a) ==
  LET v == InnermostValue(Content(t, a), a)
  IN  [empty |-> a \notin AsValue /\ v = None, value |-> v]

Asked(t, a) == a \in MayEndInactive \/ ValuesOf(Content(t, a), a) # <<>>

Get(t, a) ==
  /\ Calls(t, a) /\ Asked(t, a)
  /\ last' = CS!Call("get", ScopeOf(t, a), a, None, EntryOf(t, a).value)
  /\ UNCHANGED <<board, op>>

(* end: the entry that the end events will see ...                         *)
EndGet(t, a) ==
  LET e == EntryOf(t, a)
  IN  /\ Calls(t, a) /\ Asked(t, a)
      /\ IF e.empty
         THEN /\ last' = CS!Call("estack", ScopeOf(t, a), a, None, None)
              /\ UNCHANGED op
         ELSE /\ op' = [op EXCEPT ![t] = [Idle EXCEPT !.pc = "end", !.attr = a, !.entry = e.value]]
              /\ UNCHANGED last
      /\ UNCHANGED board

(* ... and then unset() of a value, or get_node() and the path without the *)
(* innermost pair.  A node that has gone in the meantime is an error.      *)
EndRead(t) ==
  LET o == op[t]
      a == o.attr
      call == CS!Call("end", ScopeOf(t, a), a, None, o.entry)
  IN  /\ o.pc = "end"
      /\ IF a \in AsValue \/ Content(t, a) = <<>>
         THEN /\ IF a \in AsValue THEN Put(t, a, <<>>) ELSE UNCHANGED board
              /\ last' = call
              /\ op' = [op EXCEPT ![t] = Idle]
         ELSE ToStore(t, a, RemoveFirstInPath(Content(t, a), a), call)

Next ==
  \E t \in Threads :
    \/ Store(t) \/ EndRead(t)
    \/ \E a \in Attrs : \/ Get(t, a) \/ EndGet(t, a)
                        \/ \E v \in Values : Begin(t, a, v) \/ Set(t, a, v)
                        \/ \E vs \in ValueLists : SetPath(t, a, vs)

Spec == Init /\ [][Next]_vars
-----------------------------------------------------------------------------
(* Every attribute behaves as a stack of its own although attributes share *)
(* a key and their begin and end calls overlap: each call changes the      *)
(* stack of its attribute as ContextStacks says and no other, and the end  *)
(* events get the value that is removed ("Appends the value to any         *)
(* previous values of the same attribute, creating a hierarchy.",          *)
(* Caliper.cpp:926).  It holds for attributes that one thread uses, and    *)
(* fails for a process-scope attribute that two threads use.               *)
RefinesStacks == CS!Spec
=============================================================================
