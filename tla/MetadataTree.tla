---------------------------- MODULE MetadataTree ----------------------------
(***************************************************************************)
(* The context tree of src/caliper/MetadataTree.cpp over the lock-free     *)
(* tree of include/caliper/common/util/lockfree-tree.hpp.                  *)
(*                                                                         *)
(* All threads share one tree of nodes <<block, index>>.  Each thread has  *)
(* a MetadataTree of its own that takes whole blocks from a common array   *)
(* and creates nodes in its current block.  Nodes are linked by parent,    *)
(* next (sibling) and head (first child); head is the only field that is   *)
(* written once a node can be reached, by a compare-and-swap.              *)
(*                                                                         *)
(* A node carries an attribute and a value, its label.  The operations     *)
(* come down to two walks: get_or_copy_node for each label in op.copy, and *)
(* then get_path for the labels in op.todo.  Loads and stores of head,     *)
(* next_block and mG are steps of their own.                               *)
(***************************************************************************)
EXTENDS Integers, Sequences

CONSTANTS Threads, Attrs, Values,
          NumBlocks,        \* CALI_CONTEXTTREE_NUM_BLOCKS
          NodesPerBlock,    \* CALI_CONTEXTTREE_NODES_PER_BLOCK
          Boot,             \* number of bootstrap nodes
          Paths,            \* the lists of labels that calls are given
          MaxPath,          \* the longest of them
          Calls,            \* the operations that are called
          PoolMayFail,      \* a memory pool that must not expand is full
          Root, Null

ASSUME SizeAssumption ==
  /\ NumBlocks \in Nat \ {0} /\ NodesPerBlock \in Nat /\ MaxPath \in Nat \ {0}
  /\ Boot \in 1..NodesPerBlock

ASSUME PoolAssumption == PoolMayFail \in BOOLEAN

VARIABLES mG,                          \* the global data exists
          life,                        \* construction of a thread's object
          label, parent, next, head,   \* the fields of a node
          next_block, index,           \* blocks taken, nodes used in a block
          m_nodeblock,                 \* a thread's current block
          op, held,                    \* a thread's call, and the path it keeps
          kids, owner                  \* history: published children, block owners

nodes == <<label, parent, next, head>>

vars == <<mG, life, nodes, next_block, index, m_nodeblock, op, held, kids, owner>>

Labels == Attrs \X Values

ASSUME PathAssumption ==
  Paths \subseteq Seq(Labels) /\ \A ls \in Paths : 0 < Len(ls) /\ Len(ls) <= MaxPath

(* The bootstrap nodes, abstracted to children of the root.                *)
BootLabel(i) == <<Root, i>>

Blocks == 0..(NumBlocks - 1)

(* A block has room for NodesPerBlock nodes; pointer arithmetic goes on.   *)
Ptrs == Blocks \X (0..(NodesPerBlock + MaxPath - 1))

Idle == [call |-> "none", pc |-> "idle", path |-> Null, attr |-> Null, vals |-> <<>>,
         cur |-> Null, copy |-> <<>>, base |-> Null, todo |-> <<>>, node |-> Null,
         new |-> Null]

Init ==
  /\ mG = FALSE
  /\ life = [t \in Threads |-> "new"]
  /\ label = [x \in Ptrs |-> Null]
  /\ parent = [x \in Ptrs |-> Null]
  /\ next = [x \in Ptrs |-> Null]
  /\ head = [x \in Ptrs \cup {Root} |-> Null]
  /\ next_block = 1
  /\ index = [b \in Blocks |-> 0]
  /\ m_nodeblock = [t \in Threads |-> Null]
  /\ op = [t \in Threads |-> Idle]
  /\ held = [t \in Threads |-> Null]
  /\ kids = [x \in Ptrs \cup {Root} |-> <<>>]
  /\ owner = [b \in Blocks |-> Null]

-----------------------------------------------------------------------------
(* Construction of a thread's MetadataTree.                                *)

LoadGlobal(t) ==
  /\ life[t] = "new"
  /\ life' = [life EXCEPT ![t] = IF mG THEN "ready" ELSE "building"]
  /\ UNCHANGED <<mG, nodes, next_block, index, m_nodeblock, op, held, kids, owner>>

(* The thread whose compare-and-swap sets mG owns block 0 with the         *)
(* bootstrap nodes; any other deletes what it has built.                   *)
PublishGlobal(t) ==
  /\ life[t] = "building"
  /\ life' = [life EXCEPT ![t] = "ready"]
  /\ \/ /\ mG
        /\ UNCHANGED <<mG, nodes, index, m_nodeblock, kids, owner>>
     \/ /\ ~mG
        /\ mG' = TRUE
        /\ label' = [x \in Ptrs |-> IF x[1] = 0 /\ x[2] < Boot THEN BootLabel(x[2]) ELSE Null]
        /\ parent' = [x \in Ptrs |-> IF x[1] = 0 /\ x[2] < Boot THEN Root ELSE Null]
        /\ next' = [x \in Ptrs |-> IF x[1] = 0 /\ 0 < x[2] /\ x[2] < Boot
                                   THEN <<0, x[2] - 1>> ELSE Null]
        /\ head' = [head EXCEPT ![Root] = <<0, Boot - 1>>]
        /\ index' = [index EXCEPT ![0] = Boot]
        /\ m_nodeblock' = [m_nodeblock EXCEPT ![t] = 0]
        /\ kids' = [kids EXCEPT ![Root] = [i \in 1..Boot |-> <<0, i - 1>>]]
        /\ owner' = [owner EXCEPT ![0] = t]
  /\ UNCHANGED <<next_block, op, held>>

-----------------------------------------------------------------------------
(* The calls, up to the first access to a shared field.                    *)

Start(t, o) ==
  /\ life[t] = "ready" /\ op[t] = Idle
  /\ op' = [op EXCEPT ![t] = o]
  /\ UNCHANGED <<mG, life, nodes, next_block, index, m_nodeblock, held, kids, owner>>

(* get_path with attribute:value pairs, below p or the root.               *)
GetPath(t, p, ls) ==
  /\ "get" \in Calls
  /\ Start(t, [Idle EXCEPT !.call = "get", !.pc = "first_child", !.path = p, !.vals = ls,
                           !.todo = ls, !.node = p])

(* get_path with a list of nodes to copy.                                  *)
GetPathOfNodes(t, p, ls) ==
  /\ "copy" \in Calls
  /\ Start(t, [Idle EXCEPT !.call = "copy", !.pc = "first_child", !.path = p, !.vals = ls,
                           !.copy = ls, !.node = p])

(* remove_first_in_path: find the innermost node of the attribute.         *)
RemoveFirst(t, a) ==
  /\ "remove" \in Calls /\ held[t] # Null
  /\ Start(t, [Idle EXCEPT !.call = "remove", !.pc = "climb", !.path = held[t], !.attr = a,
                           !.cur = held[t], !.base = Root])

(* replace_first_in_path: only a path that exists is searched.             *)
ReplaceFirst(t, l) ==
  /\ "replace" \in Calls
  /\ Start(t, [Idle EXCEPT !.call = "replace", !.path = held[t], !.attr = l[1], !.vals = <<l>>,
                           !.pc = IF held[t] = Null THEN "first_child" ELSE "climb",
                           !.cur = held[t], !.base = Root, !.todo = <<l>>])

(* replace_all_in_path: find the outermost node of the attribute.          *)
ReplaceAll(t, ls) ==
  /\ "replace_all" \in Calls
  /\ \A i \in 1..Len(ls) : ls[i][1] = ls[1][1]
  /\ Start(t, [Idle EXCEPT !.call = "replace_all", !.path = held[t], !.attr = ls[1][1],
                           !.vals = ls,
                           !.pc = IF held[t] = Null THEN "first_child" ELSE "find_parent",
                           !.cur = held[t], !.base = held[t], !.todo = ls])

Moves(t, o) ==
  /\ op' = [op EXCEPT ![t] = o]
  /\ UNCHANGED <<mG, life, held>>

(* find_hierarchy_parent, one node up.                                     *)
FindParent(t) ==
  LET o == op[t]
  IN  /\ o.pc = "find_parent"
      /\ Moves(t, IF o.cur = Root
                  THEN [o EXCEPT !.base = parent[o.base], !.cur = o.path, !.pc = "climb"]
                  ELSE [o EXCEPT !.cur = parent[o.cur],
                                 !.base = IF label[o.cur][1] = o.attr THEN o.cur ELSE @])
      /\ UNCHANGED <<nodes, next_block, index, m_nodeblock, kids, owner>>

(* A defect: the labels are collected the wrong way round.                 *)
ClimbReversed(t) ==
  LET o == op[t]
      l == label[o.cur]
      first == l[1] = o.attr /\ o.call # "replace_all"
  IN  /\ o.pc = "climb"
      /\ Moves(t, IF o.cur = o.base
                  THEN [o EXCEPT !.node = o.base, !.cur = Null, !.pc = "first_child"]
                  ELSE [o EXCEPT !.cur = parent[o.cur],
                                 !.copy = IF l[1] = o.attr THEN @ ELSE @ \o <<l>>,
                                 !.base = IF first THEN parent[o.cur] ELSE @])
      /\ UNCHANGED <<nodes, next_block, index, m_nodeblock, kids, owner>>

(* find_node_with_attribute and copy_path_without_attribute on its way to  *)
(* the node below which it copies: the labels above it, without those of   *)
(* the attribute, are to be copied.  Without replace_all's base the walk   *)
(* ends at the first node of the attribute.                                *)
Climb(t) ==
  LET o == op[t]
      l == label[o.cur]
  IN  /\ o.pc = "climb"
      /\ Moves(t, IF o.cur = o.base
                  THEN [o EXCEPT !.node = o.base, !.cur = Null, !.pc = "first_child"]
                  ELSE IF l[1] # o.attr
                  THEN [o EXCEPT !.cur = parent[o.cur], !.copy = <<l>> \o @]
                  ELSE IF o.call = "replace_all"
                  THEN [o EXCEPT !.cur = parent[o.cur]]
                  ELSE [o EXCEPT !.cur = parent[o.cur], !.base = parent[o.cur]])
      /\ UNCHANGED <<nodes, next_block, index, m_nodeblock, kids, owner>>

-----------------------------------------------------------------------------
(* Walking down, and creating what is missing.                             *)

Here(o) == IF o.node = Null THEN Root ELSE o.node

Copying(o) == o.copy # <<>>

Wanted(o) == IF Copying(o) THEN Head(o.copy) ELSE Head(o.todo)

(* The number of nodes to create at once.                                  *)
Needed(o) == IF Copying(o) THEN 1 ELSE Len(o.todo)

Done(o) == o.pc = "first_child" /\ o.copy = <<>> /\ o.todo = <<>>

(* The walk arrives at the wanted child.                                   *)
Arrive(o, x) == IF Copying(o) THEN [o EXCEPT !.node = x, !.copy = Tail(@)]
                              ELSE [o EXCEPT !.node = x, !.todo = Tail(@)]

(* get_or_copy_node returns null, which its callers take for the root;     *)
(* create_path returns null, and get_path with it.                         *)
Failed(o) == IF Copying(o)
             THEN [o EXCEPT !.node = Null, !.copy = Tail(@), !.pc = "first_child"]
             ELSE [o EXCEPT !.node = Null, !.todo = <<>>, !.pc = "first_child"]

FirstChild(t) ==
  LET o == op[t]
  IN  /\ o.pc = "first_child" /\ ~Done(o)
      /\ Moves(t, [o EXCEPT !.cur = head[Here(o)], !.pc = "scan"])
      /\ UNCHANGED <<nodes, next_block, index, m_nodeblock, kids, owner>>

(* One turn of the loop over the siblings.                                 *)
Scan(t) ==
  LET o == op[t]
  IN  /\ o.pc = "scan"
      /\ Moves(t, IF o.cur = Null THEN [o EXCEPT !.pc = "have_free"]
                  ELSE IF label[o.cur] = Wanted(o)
                  THEN [Arrive(o, o.cur) EXCEPT !.cur = Null, !.pc = "first_child"]
                  ELSE [o EXCEPT !.cur = next[o.cur]])
      /\ UNCHANGED <<nodes, next_block, index, m_nodeblock, kids, owner>>

WithBlock(o) == [o EXCEPT !.pc = IF Copying(o) THEN "create" ELSE "copy_data"]

(* have_free_nodeblock, up to the load of next_block.                      *)
HaveFree(t) ==
  LET o == op[t]
      b == m_nodeblock[t]
  IN  /\ o.pc = "have_free"
      /\ Moves(t, IF b # Null /\ index[b] + Needed(o) < NodesPerBlock THEN WithBlock(o)
                  ELSE IF next_block >= NumBlocks THEN Failed(o)
                  ELSE [o EXCEPT !.pc = "take"])
      /\ UNCHANGED <<nodes, next_block, index, m_nodeblock, kids, owner>>

(* A defect: next_block is loaded, but advanced too late.                  *)
TakeBlockShared(t) ==
  /\ op[t].pc = "take"
  /\ Moves(t, WithBlock(op[t]))
  /\ m_nodeblock' = [m_nodeblock EXCEPT ![t] = next_block]
  /\ index' = [index EXCEPT ![next_block] = 0]
  /\ owner' = [owner EXCEPT ![next_block] = t]
  /\ UNCHANGED <<nodes, kids, next_block>>

(* next_block++, which other threads may have moved beyond the end.        *)
TakeBlock(t) ==
  LET o == op[t]
      b == next_block
  IN  /\ o.pc = "take"
      /\ next_block' = b + 1
      /\ IF b >= NumBlocks
         THEN /\ Moves(t, Failed(o))
              /\ UNCHANGED <<index, m_nodeblock, owner>>
         ELSE /\ Moves(t, WithBlock(o))
              /\ m_nodeblock' = [m_nodeblock EXCEPT ![t] = b]
              /\ index' = [index EXCEPT ![b] = 0]
              /\ owner' = [owner EXCEPT ![b] = t]
      /\ UNCHANGED <<nodes, kids>>

(* The memory pool has no room for the block, or for the strings.          *)
PoolFull(t) ==
  /\ PoolMayFail
  /\ op[t].pc \in {"take", "copy_data"}
  /\ Moves(t, Failed(op[t]))
  /\ UNCHANGED <<nodes, next_block, index, m_nodeblock, kids, owner>>

(* Construct the node, and append() up to its load of head.                *)
CreateNode(t) ==
  LET o == op[t]
      b == m_nodeblock[t]
      x == <<b, index[b]>>
  IN  /\ o.pc \in {"copy_data", "create"}
      /\ index' = [index EXCEPT ![b] = @ + 1]
      /\ label' = [label EXCEPT ![x] = Wanted(o)]
      /\ parent' = [parent EXCEPT ![x] = Here(o)]
      /\ next' = [next EXCEPT ![x] = head[Here(o)]]
      /\ head' = [head EXCEPT ![x] = Null]
      /\ Moves(t, [o EXCEPT !.new = x, !.pc = "append"])
      /\ UNCHANGED <<next_block, m_nodeblock, kids, owner>>

(* Defects: head is stored without a compare-and-swap; after a failure the *)
(* old head is not loaded again.                                           *)
AppendBlindly(t) ==
  LET o == op[t]
  IN  /\ o.pc = "append"
      /\ head' = [head EXCEPT ![Here(o)] = o.new]
      /\ kids' = [kids EXCEPT ![Here(o)] = Append(@, o.new)]
      /\ Moves(t, [Arrive(o, o.new) EXCEPT !.new = Null, !.pc = "first_child"])
      /\ UNCHANGED <<label, parent, next, next_block, index, m_nodeblock, owner>>

AppendStuck(t) ==
  /\ op[t].pc = "append" /\ head[Here(op[t])] = next[op[t].new]
  /\ AppendBlindly(t)

(* The compare-and-swap of append(), and the next node of create_path.     *)
Append1(t) ==
  LET o == op[t]
      p == Here(o)
      x == o.new
      more == ~Copying(o) /\ Len(o.todo) > 1
  IN  /\ o.pc = "append"
      /\ IF head[p] = next[x]
         THEN /\ head' = [head EXCEPT ![p] = x]
              /\ kids' = [kids EXCEPT ![p] = Append(@, x)]
              /\ Moves(t, [Arrive(o, x) EXCEPT
                             !.new = Null,
                             !.pc = IF more THEN "create" ELSE "first_child"])
              /\ UNCHANGED next
         ELSE /\ next' = [next EXCEPT ![x] = head[p]]
              /\ op' = op
              /\ UNCHANGED <<head, kids, mG, life, held>>
      /\ UNCHANGED <<label, parent, next_block, index, m_nodeblock, owner>>

(* The call returns.  The caller keeps the path (begin, end, set), unless  *)
(* there is none or only the root is left of it.                           *)
Return(t) ==
  LET o == op[t]
  IN  /\ Done(o)
      /\ held' = [held EXCEPT ![t] = IF o.node = Null THEN @
                                     ELSE IF o.node = Root THEN Null ELSE o.node]
      /\ op' = [op EXCEPT ![t] = Idle]
      /\ UNCHANGED <<mG, life, nodes, next_block, index, m_nodeblock, kids, owner>>

Step(t) ==
  \/ LoadGlobal(t) \/ PublishGlobal(t)
  \/ FindParent(t) \/ Climb(t) \/ FirstChild(t) \/ Scan(t)
  \/ HaveFree(t) \/ TakeBlock(t) \/ PoolFull(t) \/ CreateNode(t) \/ Append1(t) \/ Return(t)

Request(t) ==
  \/ \E ls \in Paths : \/ \E p \in {Null, held[t]} : GetPath(t, p, ls) \/ GetPathOfNodes(t, p, ls)
                       \/ ReplaceAll(t, ls)
  \/ \E a \in Attrs : RemoveFirst(t, a)
  \/ \E l \in Labels : <<l>> \in Paths /\ ReplaceFirst(t, l)

Next == \E t \in Threads : Step(t) \/ Request(t)

Spec == Init /\ [][Next]_vars /\ \A t \in Threads : WF_vars(Step(t))
-----------------------------------------------------------------------------
(* Access by id.                                                           *)

Created == {x \in Ptrs : label[x] # Null}

Id(x) == x[1] * NodesPerBlock + x[2]

NodeOf(id) ==
  LET b == id \div NodesPerBlock
      i == id % NodesPerBlock
  IN  IF b >= NumBlocks \/ i >= index[b] THEN Null ELSE <<b, i>>

-----------------------------------------------------------------------------
AnyLabel == Labels \cup {BootLabel(i) : i \in 0..(Boot - 1)}

MaybePtr == Ptrs \cup {Root, Null}

(* The root and the null pointer are neither nodes, blocks nor labels.     *)
ASSUME NullAssumption ==
  Null # Root /\ {Null, Root} \cap (Ptrs \cup Blocks \cup AnyLabel) = {}

Op == [call : {"none", "get", "copy", "remove", "replace", "replace_all"},
       pc   : {"idle", "find_parent", "climb", "first_child", "scan", "have_free", "take",
               "copy_data", "create", "append"},
       path : MaybePtr, attr : Attrs \cup {Null}, vals : Seq(Labels),
       cur  : MaybePtr, copy : Seq(AnyLabel), base : MaybePtr, todo : Seq(Labels),
       node : MaybePtr, new : Ptrs \cup {Null}]

(* Type invariant: node fields hold labels and pointers, and every call is *)
(* at one of the steps above.                                              *)
TypeOK ==
  /\ mG \in BOOLEAN /\ life \in [Threads -> {"new", "building", "ready"}]
  /\ label \in [Ptrs -> AnyLabel \cup {Null}]
  /\ parent \in [Ptrs -> MaybePtr] /\ next \in [Ptrs -> Ptrs \cup {Null}]
  /\ head \in [Ptrs \cup {Root} -> Ptrs \cup {Null}]
  /\ next_block \in Nat /\ index \in [Blocks -> Nat]
  /\ m_nodeblock \in [Threads -> Blocks \cup {Null}]
  /\ op \in [Threads -> Op] /\ held \in [Threads -> Ptrs \cup {Null}]
  /\ kids \in [Ptrs \cup {Root} -> Seq(Ptrs)] /\ owner \in [Blocks -> Threads \cup {Null}]

(* A node block has one user: no two threads create nodes in the same      *)
(* block, although they take blocks, and build the first one, in a race.   *)
BlocksOwned ==
  \A t \in Threads : m_nodeblock[t] # Null =>
    owner[m_nodeblock[t]] = t /\ m_nodeblock[t] < next_block

(* No append is lost or torn: head and next of a parent's children link    *)
(* every child that an append() to it has published, newest first, however *)
(* the compare-and-swaps of several threads interleave.                    *)
SiblingsLinked ==
  \A p \in Created \cup {Root} :
    LET k == kids[p]
    IN  /\ head[p] = IF k = <<>> THEN Null ELSE k[Len(k)]
        /\ \A i \in 1..Len(k) : /\ parent[k[i]] = p
                                /\ next[k[i]] = IF i = 1 THEN Null ELSE k[i - 1]

(* A thread never creates a second node for a path it can find: siblings   *)
(* with the same label were created by different threads, so a path has at *)
(* most one copy per thread.                                               *)
OneCopyPerThread ==
  \A p \in Ptrs \cup {Root} : \A i, j \in 1..Len(kids[p]) :
    LET x == kids[p][i]
        y == kids[p][j]
    IN  label[x] = label[y] /\ owner[x[1]] = owner[y[1]] => i = j

(* node(id) of a node's id is that node: ids are unique, and no node lies  *)
(* outside its block ("Get a node block with n free entries",              *)
(* MetadataTree.cpp:198).                                                  *)
IdsFindNodes == \A x \in Created : NodeOf(Id(x)) = x

(* The labels from the root down to x.                                     *)
LabelsTo(x) ==
  LET up[k \in Nat] == IF k = 0 THEN x ELSE parent[up[k - 1]]
      depth == CHOOSE k \in 0..(NumBlocks * (NodesPerBlock + MaxPath)) :
                 up[k] = Root /\ \A j \in 0..(k - 1) : up[j] # Root
  IN  [i \in 1..depth |-> label[up[depth - i]]]

(* The path that a call is to return.                                      *)
Asked(o) ==
  LET s == IF o.path = Null THEN <<>> ELSE LabelsTo(o.path)
      Other(l) == l[1] # o.attr
      at == {i \in 1..Len(s) : s[i][1] = o.attr}
      without == IF at = {} THEN s
                 ELSE LET i == CHOOSE i \in at : \A j \in at : j <= i
                      IN  SubSeq(s, 1, i - 1) \o SubSeq(s, i + 1, Len(s))
  IN  CASE o.call \in {"get", "copy"} -> s \o o.vals
        [] o.call = "remove" -> without
        [] o.call = "replace" -> without \o o.vals
        [] o.call = "replace_all" -> SelectSeq(s, Other) \o o.vals

(* The thread can create another node.                                     *)
HasRoom(t) ==
  /\ ~PoolMayFail
  /\ \/ next_block < NumBlocks
     \/ m_nodeblock[t] # Null /\ index[m_nodeblock[t]] + 1 < NodesPerBlock

(* A call returns a node of the path it was asked for: get_path with pairs *)
(* always, the operations that copy nodes as long as the thread has room   *)
(* for another one.                                                        *)
ResultPathWithRoom ==
  \A t \in Threads : LET o == op[t] IN
    Done(o) /\ o.node # Null /\ (o.call = "get" \/ HasRoom(t)) => LabelsTo(o.node) = Asked(o)

(* "tree nodes can only be added, but not moved or removed"                *)
(* (lockfree-tree.hpp:41), "parent info is fixed" (MetadataTree.cpp:489):  *)
(* the label and the links of a published node never change.               *)
NodesFixed ==
  [][\A p \in Ptrs \cup {Root} : \A i \in 1..Len(kids[p]) :
       LET x == kids[p][i]
       IN  label'[x] = label[x] /\ parent'[x] = p /\ next'[x] = next[x]]_vars

(* Every call returns: a compare-and-swap fails only when another one      *)
(* succeeds, and each succeeds for a new node.                             *)
CallsReturn == \A t \in Threads : op[t] # Idle ~> op[t] = Idle

(* The tree that threads build without a lock is intact at every step:       *)
(* blocks have one user, every published child is linked where it belongs,   *)
(* and a thread makes no second copy of a path (MetadataTree.cpp get_path,   *)
(* lockfree-tree.hpp append).                                                *)
TreeSound == TypeOK /\ BlocksOwned /\ SiblingsLinked /\ OneCopyPerThread

(* What a call returns can be used: the node spells the path that was asked  *)
(* for, and its id leads back to it (MetadataTree::node).                    *)
CallsFindPaths == IdsFindNodes /\ ResultPathWithRoom
=============================================================================
