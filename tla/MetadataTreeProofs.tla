------------------------- MODULE MetadataTreeProofs -------------------------
(***************************************************************************)
(* The lock-free context tree, proved for any number of threads, blocks,   *)
(* labels and paths: TreeSound and NodesFixed of MetadataTree, and that    *)
(* node(id) finds every node as long as a block has room for a path.       *)
(*                                                                         *)
(* The tree's own invariants are not inductive.  A compare-and-swap keeps  *)
(* the sibling lists only if the node it links is in no list yet, and is   *)
(* of a block that no other thread writes; a thread makes no second copy   *)
(* only if what it has not scanned yet holds the copies it could have      *)
(* made.  TInv adds what a call knows at each step of its walk.            *)
(***************************************************************************)
EXTENDS MetadataTree, TLAPS

Nodes == Ptrs \cup {Root}

(* The node is in the list of its siblings, where other threads find it.   *)
Published(x) == x = Root \/ \E p \in Nodes : \E i \in 1..Len(kids[p]) : kids[p][i] = x

(* y is x or above it: every set of nodes with x and the parents of its    *)
(* members has y.                                                          *)
Above(x, y) ==
  \A S \in SUBSET Nodes :
    x \in S /\ (\A z \in S : z # Root => parent[z] \in S) => y \in S

(* Room in a block: a new block takes a path of any length.                *)
Capacity == IF MaxPath > NodesPerBlock THEN MaxPath ELSE NodesPerBlock

(* None of the wanted child's copies after the k-th is the thread's own.   *)
NoOwnCopy(t, o, k) ==
  \A j \in 1..Len(kids[Here(o)]) :
    j > k /\ owner[kids[Here(o)][j][1]] = t => label[kids[Here(o)][j]] # Wanted(o)

Climbing(o) ==
  /\ o.pc = "find_parent" =>
       /\ o.call = "replace_all"
       /\ o.path # Null /\ Published(o.path)
       /\ Published(o.cur) /\ Published(o.base) /\ o.base # Root
       /\ Above(o.path, o.cur) /\ Above(o.path, o.base)
  /\ o.pc = "climb" =>
       /\ Published(o.cur) /\ Published(o.base)
       /\ o.call = "replace_all" => Above(o.cur, o.base)
       /\ o.call # "replace_all" => o.cur = o.base \/ o.base = Root

Searching(t, o) ==
  /\ o.pc \in {"scan", "have_free", "take", "copy_data", "create", "append"} =>
       Copying(o) \/ o.todo # <<>>
  /\ o.pc = "scan" =>
       \E k \in 0..Len(kids[Here(o)]) :
         /\ o.cur = IF k = 0 THEN Null ELSE kids[Here(o)][k]
         /\ NoOwnCopy(t, o, k)
  /\ o.pc \in {"have_free", "take", "copy_data", "create", "append"} => NoOwnCopy(t, o, 0)

Creating(t, o) ==
  /\ o.pc \in {"copy_data", "create"} =>
       m_nodeblock[t] # Null /\ index[m_nodeblock[t]] + Needed(o) <= Capacity
  /\ o.pc = "append" =>
       /\ m_nodeblock[t] # Null
       /\ index[m_nodeblock[t]] > 0 /\ index[m_nodeblock[t]] + Needed(o) <= Capacity + 1
       /\ o.new \in Ptrs /\ o.new = <<m_nodeblock[t], index[m_nodeblock[t]] - 1>>
       /\ label[o.new] = Wanted(o) /\ parent[o.new] = Here(o)
       /\ ~Published(o.new) /\ kids[o.new] = <<>>

(* What a call knows.                                                      *)
OpOK(t, o) ==
  /\ Len(o.todo) <= MaxPath
  /\ o.node # Null => Published(o.node)
  /\ Climbing(o) /\ Searching(t, o) /\ Creating(t, o)

(* Nothing happens before one thread has set mG.                           *)
NothingYet ==
  ~mG =>
    /\ next_block = 1
    /\ \A b \in Blocks : index[b] = 0
    /\ \A p \in Nodes : kids[p] = <<>> /\ head[p] = Null
    /\ \A t \in Threads : /\ life[t] # "ready" /\ op[t] = Idle
                          /\ held[t] = Null /\ m_nodeblock[t] = Null

(* The nodes of a block are created in the order of their indices.         *)
BlocksFilled ==
  /\ next_block > 0
  /\ \A b \in Blocks : index[b] <= Capacity /\ (b >= next_block => index[b] = 0)
  /\ \A x \in Ptrs : label[x] # Null <=> x[2] < index[x[1]]

(* Lists hold created nodes, and only published ones have children.        *)
ListsMade ==
  /\ \A p \in Nodes : \A i \in 1..Len(kids[p]) :
       label[kids[p][i]] # Null /\ parent[kids[p][i]] = p
  /\ \A p \in Ptrs : label[p] = Null => kids[p] = <<>> /\ parent[p] = Null
  /\ \A p \in Ptrs : label[p] # Null => Published(parent[p])

HeldOK(h) == h # Null => Published(h)

TInv ==
  /\ TypeOK /\ NothingYet /\ BlocksFilled /\ BlocksOwned
  /\ ListsMade /\ SiblingsLinked /\ OneCopyPerThread
  /\ \A t \in Threads : HeldOK(held[t]) /\ OpOK(t, op[t])

-----------------------------------------------------------------------------
(* The way up.                                                             *)

(* A published node is a created node below a published one.               *)
LEMMA PublishedNodes ==
  ASSUME TypeOK, ListsMade, NEW x, Published(x)
  PROVE  /\ x \in Nodes /\ x # Null
         /\ x # Root => x \in Ptrs /\ label[x] # Null /\ Published(parent[x])
<1>1. CASE x = Root
  BY <1>1, NullAssumption, Zenon DEF Nodes
<1>2. CASE x # Root
  <2>1. PICK p \in Nodes : \E i \in 1..Len(kids[p]) : kids[p][i] = x
    BY <1>2, Zenon DEF Published
  <2>2. kids[p] \in Seq(Ptrs)
    BY Zenon DEF TypeOK, Nodes
  <2>3. x \in Ptrs /\ label[x] # Null
    BY <2>1, <2>2 DEF ListsMade
  <2>4. Published(parent[x])
    BY <2>3, Zenon DEF ListsMade
  <2>5. QED
    BY <2>3, <2>4, NullAssumption, Zenon DEF Nodes
<1>3. QED
  BY <1>1, <1>2, Zenon

LEMMA AboveSelf == \A x : Above(x, x)
BY Zenon DEF Above

LEMMA AboveParent ==
  ASSUME NEW x, NEW y, Above(x, y), y # Root
  PROVE  Above(x, parent[y])
BY Zenon DEF Above

LEMMA AboveRest ==
  ASSUME NEW x \in Nodes, NEW y, Above(x, y), x # y
  PROVE  Above(parent[x], y)
<1> SUFFICES ASSUME NEW S \in SUBSET Nodes, parent[x] \in S,
                    \A z \in S : z # Root => parent[z] \in S
             PROVE  y \in S
  BY Zenon DEF Above
<1>1. S \cup {x} \in SUBSET Nodes /\ x \in S \cup {x}
  BY Zenon
<1>2. \A z \in S \cup {x} : z # Root => parent[z] \in S \cup {x}
  BY Zenon
<1>3. y \in S \cup {x}
  BY <1>1, <1>2, Zenon DEF Above
<1>4. QED
  BY <1>3, Zenon

(* A walk towards a node above does not step beyond the root.              *)
LEMMA AboveRoot ==
  ASSUME NEW y, Above(Root, y)
  PROVE  y = Root
<1>1. {Root} \in SUBSET Nodes /\ \A z \in {Root} : z # Root => parent[z] \in {Root}
  BY Zenon DEF Nodes
<1>2. y \in {Root}
  BY <1>1, Zenon DEF Above
<1>3. QED
  BY <1>2, Zenon

-----------------------------------------------------------------------------
(* Steps of a call that write nothing but its own state.                   *)

(* The tree and the blocks stay the same.                                  *)
Private ==
  /\ UNCHANGED <<label, parent, next, head>>
  /\ UNCHANGED <<next_block, index, m_nodeblock, kids, owner>>

(* What a call knows stays true while nothing shared changes.              *)
LEMMA PrivateKeeps ==
  ASSUME Private, NEW t, NEW o, OpOK(t, o)
  PROVE  OpOK(t, o)'
<1>1. \A x : Published(x) => Published(x)'
  BY Zenon DEF Private, Published
<1>2. \A x, y : Above(x, y) => Above(x, y)'
  BY Zenon DEF Private, Above
<1>3. \A k : NoOwnCopy(t, o, k) => NoOwnCopy(t, o, k)'
  BY Zenon DEF Private, NoOwnCopy
<1>4. Climbing(o)'
  BY <1>1, <1>2, Zenon DEF OpOK, Climbing
<1>5. Searching(t, o)'
  BY <1>3, Zenon DEF OpOK, Searching, Private
<1>6. \A x : Published(x)' => Published(x)
  BY Zenon DEF Private, Published
<1>7. Creating(t, o)'
  BY <1>6, Zenon DEF OpOK, Creating, Private
<1>8. QED
  BY <1>1, <1>4, <1>5, <1>7, Zenon DEF OpOK

(* ... and so do the lists.                                                *)
LEMMA PrivateLists ==
  ASSUME TInv, Private
  PROVE  BlocksFilled' /\ BlocksOwned' /\ SiblingsLinked' /\ OneCopyPerThread'
<1>1. BlocksFilled'
  BY Zenon DEF TInv, BlocksFilled, Private
<1>2. BlocksOwned'
  BY Zenon DEF TInv, BlocksOwned, Private
<1>3. SiblingsLinked'
  <2>1. SiblingsLinked /\ Private
    BY Zenon DEF TInv
  <2>2. QED
    BY ONLY <2>1 DEF SiblingsLinked, Created, Private
<1>4. OneCopyPerThread'
  <2>1. OneCopyPerThread /\ Private
    BY Zenon DEF TInv
  <2>2. QED
    BY ONLY <2>1 DEF OneCopyPerThread, Private
<1>5. QED
  BY <1>1, <1>2, <1>3, <1>4, Zenon

(* A step that writes only the call's state, and the path that is held,    *)
(* keeps the invariant if the call's knowledge is right.                   *)
LEMMA CallMoves ==
  ASSUME TInv, mG, UNCHANGED <<mG, life>>, Private, NEW t \in Threads, NEW n \in Op, OpOK(t, n),
         op' = [op EXCEPT ![t] = n], NEW h \in Ptrs \cup {Null},
         HeldOK(h), held' = [held EXCEPT ![t] = h]
  PROVE  TInv'
<1>1. TypeOK'
  BY Zenon DEF TInv, TypeOK, Private
<1>2. NothingYet'
  BY Zenon DEF NothingYet, Private
<1>3. BlocksFilled' /\ BlocksOwned' /\ SiblingsLinked' /\ OneCopyPerThread'
  BY PrivateLists, Zenon
<1>4. \A x : Published(x) => Published(x)'
  BY Zenon DEF Private, Published
<1>5. ListsMade'
  BY <1>4, ZenonT(60) DEF TInv, ListsMade, Private
<1>6. ASSUME NEW u \in Threads PROVE HeldOK(held[u])'
  <2>1. PICK k : k = held'[u]
    BY Zenon
  <2>2. HeldOK(k)
    BY <2>1, Zenon DEF TInv, TypeOK
  <2>3. HeldOK(k)'
    BY <2>2, <1>4, Zenon DEF HeldOK
  <2>4. QED
    BY <2>1, <2>3, Zenon
<1>7. ASSUME NEW u \in Threads PROVE OpOK(u, op[u])'
  <2>1. PICK o : o = op'[u]
    BY Zenon
  <2>2. OpOK(u, o)
    BY <2>1, Zenon DEF TInv, TypeOK
  <2>3. OpOK(u, o)'
    BY <2>2, PrivateKeeps, Zenon
  <2>4. QED
    BY <2>1, <2>3, Zenon
<1>8. QED
  BY <1>1, <1>2, <1>3, <1>5, <1>6, <1>7, Zenon DEF TInv

(* A thread in a call has an object, and knows what the call knows.        *)
LEMMA InCall ==
  ASSUME TInv, NEW t \in Threads, op[t].pc # "idle"
  PROVE  mG /\ op[t] \in Op /\ OpOK(t, op[t])
<1>1. op[t] # Idle
  BY DEF Idle
<1>2. QED
  BY <1>1, Zenon DEF TInv, NothingYet, TypeOK

(* The calls start with nothing but published nodes.                       *)
LEMMA StartKeeps ==
  ASSUME TInv, NEW t \in Threads, NEW n \in Op, OpOK(t, n), Start(t, n)
  PROVE  TInv'
<1>1. mG /\ held[t] \in Ptrs \cup {Null} /\ HeldOK(held[t])
  BY Zenon DEF TInv, NothingYet, Start, TypeOK
<1>2. Private /\ UNCHANGED <<mG, life>> /\ op' = [op EXCEPT ![t] = n]
  BY Zenon DEF Private, Start, nodes
<1>3. held' = [held EXCEPT ![t] = held[t]]
  BY Zenon DEF Start, TInv, TypeOK
<1>4. QED
  BY <1>1, <1>2, <1>3, CallMoves, Zenon

LEMMA MoveKeeps ==
  ASSUME TInv, NEW t \in Threads, op[t].pc # "idle", NEW n \in Op, OpOK(t, n), Moves(t, n),
         UNCHANGED <<nodes, next_block, index, m_nodeblock, kids, owner>>
  PROVE  TInv'
<1>1. mG /\ held[t] \in Ptrs \cup {Null} /\ HeldOK(held[t])
  BY InCall, Zenon DEF TInv, TypeOK
<1>2. Private /\ UNCHANGED <<mG, life>> /\ op' = [op EXCEPT ![t] = n]
  BY Zenon DEF Private, Moves, nodes
<1>3. held' = [held EXCEPT ![t] = held[t]]
  BY Zenon DEF Moves, TInv, TypeOK
<1>4. QED
  BY <1>1, <1>2, <1>3, CallMoves, Zenon

(* What the calls are given fits the steps.                                *)
LEMMA PathsFit ==
  /\ Seq(Labels) \subseteq Seq(AnyLabel)
  /\ \A ls \in Paths : ls \in Seq(Labels) /\ Len(ls) <= MaxPath /\ ls # << >> /\ Head(ls) \in Labels
  /\ << >> \in Seq(AnyLabel) /\ << >> \in Seq(Labels) /\ Len(<< >>) = 0
  /\ MaxPath \in Nat \ {0}
<1>1. Labels \subseteq AnyLabel
  BY Zenon DEF AnyLabel
<1>2. QED
  BY <1>1, PathAssumption, SizeAssumption

LEMMA EmptyFits == Len(<< >>) <= MaxPath /\ \A j \in 1..Len(<< >>) : FALSE
BY PathsFit

LEMMA RequestKeeps ==
  ASSUME TInv, NEW t \in Threads, Request(t)
  PROVE  TInv'
<1> USE PathsFit
<1>1. held[t] \in Ptrs \cup {Null} /\ HeldOK(held[t])
  BY Zenon DEF TInv, TypeOK
<1>2. ASSUME NEW ls \in Paths, NEW p \in {Null, held[t]}, GetPath(t, p, ls)
      PROVE  TInv'
  <2> DEFINE n == [Idle EXCEPT !.call = "get", !.pc = "first_child", !.path = p, !.vals = ls,
                               !.todo = ls, !.node = p]
  <2>1. n \in Op
    BY <1>1, <1>2, ZenonT(60) DEF Op, Idle, MaybePtr
  <2>2. n.pc = "first_child" /\ n.todo = ls /\ n.node = p
    BY Zenon DEF Idle
  <2>3. OpOK(t, n)
    BY <1>1, <2>2, Zenon DEF OpOK, Climbing, Searching, Creating, HeldOK
  <2>4. QED
    BY <1>2, <2>1, <2>3, StartKeeps, Zenon DEF GetPath
<1>3. ASSUME NEW ls \in Paths, NEW p \in {Null, held[t]}, GetPathOfNodes(t, p, ls)
      PROVE  TInv'
  <2> DEFINE n == [Idle EXCEPT !.call = "copy", !.pc = "first_child", !.path = p, !.vals = ls,
                               !.copy = ls, !.node = p]
  <2>1. n \in Op
    BY <1>1, <1>3, ZenonT(60) DEF Op, Idle, MaybePtr
  <2>2. n.pc = "first_child" /\ n.todo = << >> /\ n.node = p
    BY Zenon DEF Idle
  <2>3. OpOK(t, n)
    BY <1>1, <2>2 DEF OpOK, Climbing, Searching, Creating, HeldOK
  <2>4. QED
    BY <1>3, <2>1, <2>3, StartKeeps, Zenon DEF GetPathOfNodes
<1>4. ASSUME NEW a \in Attrs, RemoveFirst(t, a)
      PROVE  TInv'
  <2> DEFINE n == [Idle EXCEPT !.call = "remove", !.pc = "climb", !.path = held[t], !.attr = a,
                               !.cur = held[t], !.base = Root]
  <2>1. n \in Op
    BY <1>1, <1>4, ZenonT(60) DEF Op, Idle, MaybePtr
  <2>2. /\ n.pc = "climb" /\ n.call = "remove" /\ n.todo = << >> /\ n.node = Null
        /\ n.cur = held[t] /\ n.base = Root
    BY Zenon DEF Idle
  <2>3. Published(Root) /\ Published(held[t])
    BY <1>1, <1>4, Zenon DEF Published, HeldOK, RemoveFirst
  <2>4. OpOK(t, n)
    BY <2>2, <2>3 DEF OpOK, Climbing, Searching, Creating
  <2>5. QED
    BY <1>4, <2>1, <2>4, StartKeeps, Zenon DEF RemoveFirst
<1>5. ASSUME NEW l \in Labels, <<l>> \in Paths, ReplaceFirst(t, l)
      PROVE  TInv'
  <2> DEFINE n == [Idle EXCEPT !.call = "replace", !.path = held[t], !.attr = l[1],
                               !.vals = <<l>>,
                               !.pc = IF held[t] = Null THEN "first_child" ELSE "climb",
                               !.cur = held[t], !.base = Root, !.todo = <<l>>]
  <2>0. l[1] \in Attrs
    BY Zenon DEF Labels
  <2>1. n \in Op
    BY <1>1, <1>5, <2>0, ZenonT(60) DEF Op, Idle, MaybePtr
  <2>2. /\ n.pc = IF held[t] = Null THEN "first_child" ELSE "climb"
        /\ n.call = "replace" /\ n.todo = <<l>> /\ n.node = Null
        /\ n.cur = held[t] /\ n.base = Root
    BY Zenon DEF Idle
  <2>3. Published(Root) /\ (held[t] # Null => Published(held[t]))
    BY <1>1, Zenon DEF Published, HeldOK
  <2>4. OpOK(t, n)
    BY <1>5, <2>2, <2>3 DEF OpOK, Climbing, Searching, Creating
  <2>5. QED
    BY <1>5, <2>1, <2>4, StartKeeps, Zenon DEF ReplaceFirst
<1>6. ASSUME NEW ls \in Paths, ReplaceAll(t, ls)
      PROVE  TInv'
  <2> DEFINE n == [Idle EXCEPT !.call = "replace_all", !.path = held[t], !.attr = ls[1][1],
                               !.vals = ls,
                               !.pc = IF held[t] = Null THEN "first_child" ELSE "find_parent",
                               !.cur = held[t], !.base = held[t], !.todo = ls]
  <2>0. ls[1] \in Labels /\ ls[1][1] \in Attrs
    BY <1>6 DEF Labels
  <2>1. n \in Op
    BY <1>1, <1>6, <2>0, ZenonT(60) DEF Op, Idle, MaybePtr
  <2>2. /\ n.pc = IF held[t] = Null THEN "first_child" ELSE "find_parent"
        /\ n.call = "replace_all" /\ n.todo = ls /\ n.node = Null
        /\ n.path = held[t] /\ n.cur = held[t] /\ n.base = held[t]
    BY Zenon DEF Idle
  <2>3. /\ held[t] # Null => Published(held[t]) /\ held[t] # Root
        /\ Above(held[t], held[t])
    BY <1>1, AboveSelf, NullAssumption, Zenon DEF HeldOK
  <2>4. OpOK(t, n)
    BY <1>6, <2>2, <2>3 DEF OpOK, Climbing, Searching, Creating
  <2>5. QED
    BY <1>6, <2>1, <2>4, StartKeeps, Zenon DEF ReplaceAll
<1>7. QED
  BY <1>2, <1>3, <1>4, <1>5, <1>6, Zenon DEF Request

(* The way up to the node below which replace_all copies.                  *)
LEMMA FindParentKeeps ==
  ASSUME TInv, NEW t \in Threads, FindParent(t)
  PROVE  TInv'
<1>1. PICK o : o = op[t]
  BY Zenon
<1>2. o.pc = "find_parent" /\ o \in Op /\ OpOK(t, o) /\ TypeOK /\ ListsMade
  BY <1>1, InCall, Zenon DEF FindParent, TInv
<1>3. /\ o.call = "replace_all" /\ o.path # Null /\ Published(o.path)
      /\ Published(o.cur) /\ Published(o.base) /\ o.base # Root
      /\ Above(o.path, o.cur) /\ Above(o.path, o.base)
      /\ Len(o.todo) <= MaxPath /\ (o.node # Null => Published(o.node))
  BY <1>2, Zenon DEF OpOK, Climbing
<1>4. /\ o.base \in Ptrs /\ Published(parent[o.base])
      /\ o.cur # Root => o.cur \in Ptrs /\ Published(parent[o.cur])
      /\ parent \in [Ptrs -> MaybePtr]
  BY <1>2, <1>3, PublishedNodes, Zenon DEF TypeOK
<1>5. CASE o.cur = Root
  <2> DEFINE n == [o EXCEPT !.base = parent[o.base], !.cur = o.path, !.pc = "climb"]
  <2>1. n \in Op
    BY <1>2, <1>4, ZenonT(60) DEF Op
  <2>2. /\ n.pc = "climb" /\ n.call = "replace_all" /\ n.todo = o.todo /\ n.node = o.node
        /\ n.cur = o.path /\ n.base = parent[o.base]
    BY <1>2, <1>3, Zenon DEF Op
  <2>3. Above(o.path, parent[o.base])
    BY <1>3, AboveParent, Zenon
  <2>4. OpOK(t, n)
    BY <1>3, <1>4, <2>2, <2>3, Zenon DEF OpOK, Climbing, Searching, Creating
  <2>5. Moves(t, n)
    BY <1>1, <1>5, Zenon DEF FindParent
  <2>6. QED
    BY <1>1, <1>2, <2>1, <2>4, <2>5, MoveKeeps, Zenon DEF FindParent
<1>6. CASE o.cur # Root
  <2> DEFINE b == IF label[o.cur][1] = o.attr THEN o.cur ELSE o.base
             n == [o EXCEPT !.cur = parent[o.cur], !.base = b]
  <2>0. b \in Ptrs /\ Published(b) /\ Above(o.path, b) /\ b # Root
    BY <1>3, <1>4, <1>6, Zenon
  <2> HIDE DEF b
  <2>1. n \in Op
    BY <1>2, <1>4, <1>6, <2>0, ZenonT(60) DEF Op, MaybePtr
  <2>2. /\ n.pc = "find_parent" /\ n.call = "replace_all" /\ n.todo = o.todo
        /\ n.node = o.node /\ n.path = o.path /\ n.cur = parent[o.cur] /\ n.base = b
    BY <1>2, <1>3, Zenon DEF Op
  <2>3. Above(o.path, parent[o.cur])
    BY <1>3, <1>6, AboveParent, Zenon
  <2>4. OpOK(t, n)
    BY <1>3, <1>4, <1>6, <2>0, <2>2, <2>3, Zenon DEF OpOK, Climbing, Searching, Creating
  <2>5. Moves(t, n)
    BY <1>1, <1>6, Zenon DEF FindParent, b
  <2>6. QED
    BY <1>1, <1>2, <2>1, <2>4, <2>5, MoveKeeps, Zenon DEF FindParent
<1>7. QED
  BY <1>5, <1>6, Zenon

(* The way up to base meets created nodes only, and ends there.            *)
LEMMA ClimbKeeps ==
  ASSUME TInv, NEW t \in Threads, Climb(t)
  PROVE  TInv'
<1>1. PICK o : o = op[t]
  BY Zenon
<1>2. o.pc = "climb" /\ o \in Op /\ OpOK(t, o) /\ TypeOK /\ ListsMade
  BY <1>1, InCall, Zenon DEF Climb, TInv
<1>3. /\ Published(o.cur) /\ Published(o.base)
      /\ o.call = "replace_all" => Above(o.cur, o.base)
      /\ o.call # "replace_all" => o.cur = o.base \/ o.base = Root
      /\ Len(o.todo) <= MaxPath /\ (o.node # Null => Published(o.node))
  BY <1>2, Zenon DEF OpOK, Climbing
<1>4. UNCHANGED <<nodes, next_block, index, m_nodeblock, kids, owner>>
  BY Zenon DEF Climb
<1>5. CASE o.cur = o.base
  <2> DEFINE n == [o EXCEPT !.node = o.base, !.cur = Null, !.pc = "first_child"]
  <2>1. n \in Op
    BY <1>2, ZenonT(60) DEF Op, MaybePtr
  <2>2. n.pc = "first_child" /\ n.todo = o.todo /\ n.node = o.base
    BY <1>2, Zenon DEF Op
  <2>3. OpOK(t, n)
    BY <1>3, <2>2, Zenon DEF OpOK, Climbing, Searching, Creating
  <2>4. Moves(t, n)
    BY <1>1, <1>5, Zenon DEF Climb
  <2>5. QED
    BY <1>1, <1>2, <1>4, <2>1, <2>3, <2>4, MoveKeeps, Zenon
<1>6. CASE o.cur # o.base
  <2>1. o.cur # Root
    BY <1>3, <1>6, AboveRoot, Zenon
  <2>2. /\ o.cur \in Ptrs /\ Published(parent[o.cur]) /\ parent[o.cur] \in MaybePtr
        /\ label[o.cur] \in AnyLabel
    BY <1>2, <1>3, <2>1, PublishedNodes, Zenon DEF TypeOK
  <2>3. o.call = "replace_all" => Above(parent[o.cur], o.base)
    BY <1>3, <1>6, <2>2, AboveRest, Zenon DEF Nodes
  <2>4. PICK c \in Seq(AnyLabel), b \in MaybePtr :
          /\ Moves(t, [o EXCEPT !.cur = parent[o.cur], !.copy = c, !.base = b])
          /\ Published(b) /\ (b = o.base \/ (b = parent[o.cur] /\ o.call # "replace_all"))
    <3> DEFINE l == label[o.cur]
    <3>1. o.copy \in Seq(AnyLabel) /\ <<l>> \o o.copy \in Seq(AnyLabel) /\ o.base \in MaybePtr
      BY <1>2, <2>2 DEF Op
    <3>2. CASE l[1] # o.attr
      <4>1. Moves(t, [o EXCEPT !.cur = parent[o.cur], !.copy = <<l>> \o @])
        BY <1>1, <1>6, <3>2, Zenon DEF Climb
      <4>2. [o EXCEPT !.cur = parent[o.cur], !.copy = <<l>> \o @]
              = [o EXCEPT !.cur = parent[o.cur], !.copy = <<l>> \o o.copy, !.base = o.base]
        BY <1>2, Zenon DEF Op
      <4>3. QED
        BY <1>3, <3>1, <4>1, <4>2, Zenon
    <3>3. CASE l[1] = o.attr /\ o.call = "replace_all"
      <4>1. Moves(t, [o EXCEPT !.cur = parent[o.cur]])
        BY <1>1, <1>6, <3>3, Zenon DEF Climb
      <4>2. [o EXCEPT !.cur = parent[o.cur]]
              = [o EXCEPT !.cur = parent[o.cur], !.copy = o.copy, !.base = o.base]
        BY <1>2, Zenon DEF Op
      <4>3. QED
        BY <1>3, <3>1, <4>1, <4>2, Zenon
    <3>4. CASE l[1] = o.attr /\ o.call # "replace_all"
      <4>1. Moves(t, [o EXCEPT !.cur = parent[o.cur], !.base = parent[o.cur]])
        BY <1>1, <1>6, <3>4, Zenon DEF Climb
      <4>2. [o EXCEPT !.cur = parent[o.cur], !.base = parent[o.cur]]
              = [o EXCEPT !.cur = parent[o.cur], !.copy = o.copy, !.base = parent[o.cur]]
        BY <1>2, Zenon DEF Op
      <4>3. QED
        BY <2>2, <3>1, <3>4, <4>1, <4>2, Zenon
    <3>5. QED
      BY <3>2, <3>3, <3>4, ZenonT(60)
  <2> DEFINE n == [o EXCEPT !.cur = parent[o.cur], !.copy = c, !.base = b]
  <2>5. n \in Op
    BY <1>2, <2>2, ZenonT(60) DEF Op
  <2>6. /\ n.pc = "climb" /\ n.call = o.call /\ n.todo = o.todo /\ n.node = o.node
        /\ n.cur = parent[o.cur] /\ n.base = b
    BY <1>2, Zenon DEF Op
  <2>7. OpOK(t, n)
    BY <1>3, <1>6, <2>2, <2>3, <2>4, <2>6, Zenon DEF OpOK, Climbing, Searching, Creating
  <2>8. QED
    BY <1>1, <1>2, <1>4, <2>4, <2>5, <2>7, MoveKeeps, Zenon
<1>7. QED
  BY <1>5, <1>6, Zenon

-----------------------------------------------------------------------------
(* The way down.                                                           *)

(* The children of a published node, and how they are linked.              *)
LEMMA ChildList ==
  ASSUME TInv, NEW p, Published(p)
  PROVE  /\ p \in Nodes /\ kids[p] \in Seq(Ptrs) /\ Len(kids[p]) \in Nat
         /\ head[p] = IF Len(kids[p]) = 0 THEN Null ELSE kids[p][Len(kids[p])]
         /\ \A i \in 1..Len(kids[p]) :
              /\ kids[p][i] \in Ptrs /\ Published(kids[p][i])
              /\ label[kids[p][i]] # Null /\ parent[kids[p][i]] = p
              /\ next[kids[p][i]] = IF i = 1 THEN Null ELSE kids[p][i - 1]
<1>1. p \in Nodes /\ p \in Created \cup {Root}
  BY PublishedNodes, Zenon DEF TInv, Created
<1>2. kids[p] \in Seq(Ptrs) /\ Len(kids[p]) \in Nat
  BY <1>1 DEF TInv, TypeOK, Nodes
<1>3. head[p] = IF kids[p] = << >> THEN Null ELSE kids[p][Len(kids[p])]
  BY <1>1, Zenon DEF TInv, SiblingsLinked
<1>4. kids[p] = << >> <=> Len(kids[p]) = 0
  BY <1>2
<1>5. ASSUME NEW i \in 1..Len(kids[p])
      PROVE  /\ kids[p][i] \in Ptrs /\ Published(kids[p][i])
             /\ label[kids[p][i]] # Null /\ parent[kids[p][i]] = p
             /\ next[kids[p][i]] = IF i = 1 THEN Null ELSE kids[p][i - 1]
  <2>1. kids[p][i] \in Ptrs
    BY <1>2
  <2>2. Published(kids[p][i])
    BY <1>1, Zenon DEF Published
  <2>3. label[kids[p][i]] # Null /\ parent[kids[p][i]] = p
    BY <1>1, Zenon DEF TInv, ListsMade
  <2>4. next[kids[p][i]] = IF i = 1 THEN Null ELSE kids[p][i - 1]
    BY <1>1 DEF TInv, SiblingsLinked
  <2>5. QED
    BY <2>1, <2>2, <2>3, <2>4, Zenon
<1>6. QED
  BY <1>1, <1>2, <1>3, <1>4, <1>5, Zenon

LEMMA HereNode ==
  ASSUME TInv, NEW t \in Threads, NEW o \in Op, OpOK(t, o)
  PROVE  Published(Here(o)) /\ Here(o) \in Nodes
<1>1. Published(Here(o))
  BY Zenon DEF OpOK, Here, Published
<1>2. QED
  BY <1>1, ChildList, Zenon

(* A step that moves on in the same list looks for the same child.         *)
SameGoal(n, o) == n.node = o.node /\ n.copy = o.copy /\ n.todo = o.todo

LEMMA GoalKept ==
  ASSUME NEW t, NEW n, NEW o, SameGoal(n, o)
  PROVE  /\ Here(n) = Here(o) /\ Wanted(n) = Wanted(o) /\ Needed(n) = Needed(o)
         /\ Copying(n) <=> Copying(o)
         /\ \A k : NoOwnCopy(t, n, k) <=> NoOwnCopy(t, o, k)
<1>1. /\ Here(n) = Here(o) /\ Wanted(n) = Wanted(o) /\ Needed(n) = Needed(o)
      /\ Copying(n) <=> Copying(o)
  BY Zenon DEF SameGoal, Here, Wanted, Needed, Copying
<1>2. QED
  BY <1>1, Zenon DEF NoOwnCopy

(* A walk has something left to find, and asks for a label.                *)
LEMMA GoalTyped ==
  ASSUME NEW t, NEW o \in Op, OpOK(t, o), Copying(o) \/ o.todo # << >>
  PROVE  /\ Wanted(o) \in AnyLabel
         /\ Needed(o) \in 1..MaxPath
         /\ Copying(o) => Tail(o.copy) \in Seq(AnyLabel)
         /\ ~Copying(o) => Tail(o.todo) \in Seq(Labels) /\ Len(Tail(o.todo)) = Len(o.todo) - 1
<1>1. o.copy \in Seq(AnyLabel) /\ o.todo \in Seq(Labels) /\ Len(o.todo) <= MaxPath
  BY Zenon DEF Op, OpOK
<1>2. Labels \subseteq AnyLabel /\ MaxPath \in Nat \ {0}
  BY SizeAssumption, Zenon DEF AnyLabel
<1>3. CASE Copying(o)
  BY <1>1, <1>2, <1>3 DEF Copying, Wanted, Needed
<1>4. CASE ~Copying(o)
  BY <1>1, <1>2, <1>4 DEF Copying, Wanted, Needed
<1>5. QED
  BY <1>3, <1>4, Zenon

(* Between two walks a call knows only that its node is published.         *)
LEMMA AtFirstChild ==
  ASSUME NEW t, NEW n \in Op, n.pc = "first_child", Len(n.todo) <= MaxPath,
         n.node # Null => Published(n.node)
  PROVE  OpOK(t, n)
BY Zenon DEF OpOK, Climbing, Searching, Creating

LEMMA FailedOK ==
  ASSUME NEW t, NEW o \in Op, OpOK(t, o), Copying(o) \/ o.todo # << >>
  PROVE  Failed(o) \in Op /\ OpOK(t, Failed(o))
<1>1. Len(o.todo) <= MaxPath /\ MaxPath \in Nat \ {0}
  BY SizeAssumption, Zenon DEF OpOK
<1>2. CASE Copying(o)
  <2> DEFINE n == [o EXCEPT !.node = Null, !.copy = Tail(@), !.pc = "first_child"]
  <2>1. n \in Op
    BY <1>2, GoalTyped, ZenonT(60) DEF Op, MaybePtr
  <2>2. n.pc = "first_child" /\ n.todo = o.todo /\ n.node = Null
    BY Zenon DEF Op
  <2>3. OpOK(t, n)
    BY <1>1, <2>1, <2>2, AtFirstChild, Zenon
  <2>4. QED
    BY <1>2, <2>1, <2>3, Zenon DEF Failed
<1>3. CASE ~Copying(o)
  <2> DEFINE n == [o EXCEPT !.node = Null, !.todo = << >>, !.pc = "first_child"]
  <2>1. n \in Op
    BY <1>3, PathsFit, ZenonT(60) DEF Op, MaybePtr
  <2>2. n.pc = "first_child" /\ n.todo = << >> /\ n.node = Null
    BY Zenon DEF Op
  <2>3. OpOK(t, n)
    <3> HIDE DEF n
    <3>1. QED
      BY <1>1, <2>1, <2>2, AtFirstChild, PathsFit
  <2>4. QED
    BY <1>3, <2>1, <2>3, Zenon DEF Failed
<1>4. QED
  BY <1>2, <1>3, Zenon

LEMMA ArriveOK ==
  ASSUME NEW t, NEW o \in Op, OpOK(t, o), Copying(o) \/ o.todo # << >>, NEW x \in Ptrs
  PROVE  /\ Arrive(o, x) \in Op /\ Arrive(o, x).node = x
         /\ Len(Arrive(o, x).todo) <= MaxPath
         /\ ~Copying(o) => /\ Arrive(o, x).copy = << >>
                           /\ Len(Arrive(o, x).todo) = Len(o.todo) - 1
<1>1. Len(o.todo) <= MaxPath /\ MaxPath \in Nat \ {0} /\ o.todo \in Seq(Labels)
  BY SizeAssumption, Zenon DEF OpOK, Op
<1>2. CASE Copying(o)
  <2> DEFINE n == [o EXCEPT !.node = x, !.copy = Tail(@)]
  <2>1. n \in Op
    BY <1>2, GoalTyped, ZenonT(60) DEF Op, MaybePtr
  <2>2. n.todo = o.todo /\ n.node = x
    BY Zenon DEF Op
  <2>3. Arrive(o, x) = n
    BY <1>2, Zenon DEF Arrive
  <2> HIDE DEF n
  <2>4. QED
    BY <1>1, <1>2, <2>1, <2>2, <2>3, Zenon
<1>3. CASE ~Copying(o)
  <2> DEFINE n == [o EXCEPT !.node = x, !.todo = Tail(@)]
  <2>0. Tail(o.todo) \in Seq(Labels) /\ Len(Tail(o.todo)) = Len(o.todo) - 1
    BY <1>3, GoalTyped, Zenon
  <2>1. n \in Op
    BY <2>0, ZenonT(60) DEF Op, MaybePtr
  <2>2. n.todo = Tail(o.todo) /\ n.node = x /\ n.copy = o.copy
    BY Zenon DEF Op
  <2>3. Arrive(o, x) = n /\ o.copy = << >>
    BY <1>3, Zenon DEF Arrive, Copying
  <2> HIDE DEF n
  <2>4. Len(o.todo) \in Nat /\ Len(Tail(o.todo)) <= MaxPath
    BY <1>1, <2>0
  <2>5. QED
    BY <2>0, <2>1, <2>2, <2>3, <2>4, Zenon
<1>4. QED
  BY <1>2, <1>3, Zenon

(* The list is read from the newest child; a copy that others append later *)
(* is not the thread's own.                                                *)
LEMMA FirstChildKeeps ==
  ASSUME TInv, NEW t \in Threads, FirstChild(t)
  PROVE  TInv'
<1>1. PICK o : o = op[t]
  BY Zenon
<1>2. o.pc = "first_child" /\ o \in Op /\ OpOK(t, o) /\ TypeOK /\ ~Done(o)
  BY <1>1, InCall, Zenon DEF FirstChild, TInv
<1>3. Published(Here(o)) /\ Here(o) \in Nodes
  BY <1>2, HereNode, Zenon
<1>4. (Copying(o) \/ o.todo # << >>) /\ Len(o.todo) <= MaxPath
      /\ (o.node # Null => Published(o.node))
  BY <1>2, Zenon DEF Done, Copying, OpOK
<1> DEFINE n == [o EXCEPT !.cur = head[Here(o)], !.pc = "scan"]
<1>5. n \in Op
  <2>1. head[Here(o)] \in MaybePtr
    BY <1>2, <1>3, Zenon DEF TypeOK, Nodes, MaybePtr
  <2>2. QED
    BY <1>2, <2>1, ZenonT(60) DEF Op
<1>6. /\ n.pc = "scan" /\ n.todo = o.todo /\ n.node = o.node /\ n.copy = o.copy
      /\ n.cur = head[Here(o)]
  BY <1>2, Zenon DEF Op
<1>7. SameGoal(n, o)
  BY <1>6, Zenon DEF SameGoal
<1> HIDE DEF n
<1>8. Searching(t, n)
  <2>1. Here(n) = Here(o) /\ (Copying(n) \/ n.todo # << >>)
    BY <1>4, <1>6, <1>7, GoalKept, Zenon
  <2> DEFINE k == Len(kids[Here(n)])
  <2>2. k \in 0..Len(kids[Here(n)]) /\ n.cur = IF k = 0 THEN Null ELSE kids[Here(n)][k]
    BY <1>3, <1>6, <2>1, ChildList
  <2>3. NoOwnCopy(t, n, k)
    BY <2>2 DEF NoOwnCopy
  <2>4. QED
    BY <1>6, <2>1, <2>2, <2>3, Zenon DEF Searching
<1>9. OpOK(t, n)
  BY <1>4, <1>6, <1>8, Zenon DEF OpOK, Climbing, Creating
<1>10. Moves(t, n)
  BY <1>1, Zenon DEF FirstChild, n
<1>11. QED
  BY <1>1, <1>2, <1>5, <1>9, <1>10, MoveKeeps, Zenon DEF FirstChild

(* One sibling further the thread's own copies are still behind it; at the *)
(* end there is none.                                                      *)
LEMMA ScanKeeps ==
  ASSUME TInv, NEW t \in Threads, Scan(t)
  PROVE  TInv'
<1>1. PICK o : o = op[t]
  BY Zenon
<1>2. o.pc = "scan" /\ o \in Op /\ OpOK(t, o) /\ TypeOK
  BY <1>1, InCall, Zenon DEF Scan, TInv
<1>3. Published(Here(o)) /\ Here(o) \in Nodes
  BY <1>2, HereNode, Zenon
<1>4. (Copying(o) \/ o.todo # << >>) /\ Len(o.todo) <= MaxPath
      /\ (o.node # Null => Published(o.node))
  BY <1>2, Zenon DEF OpOK, Searching
<1>5. PICK k \in 0..Len(kids[Here(o)]) :
        /\ o.cur = IF k = 0 THEN Null ELSE kids[Here(o)][k]
        /\ NoOwnCopy(t, o, k)
  BY <1>2, Zenon DEF OpOK, Searching
<1>6. UNCHANGED <<nodes, next_block, index, m_nodeblock, kids, owner>>
  BY Zenon DEF Scan
<1>7. k > 0 => /\ o.cur = kids[Here(o)][k] /\ o.cur \in Ptrs /\ Published(o.cur)
               /\ next[o.cur] = IF k = 1 THEN Null ELSE kids[Here(o)][k - 1]
  BY <1>3, <1>5, ChildList
<1>8. CASE o.cur = Null
  <2> DEFINE n == [o EXCEPT !.pc = "have_free"]
  <2>1. n \in Op
    BY <1>2, ZenonT(60) DEF Op
  <2>2. n.pc = "have_free" /\ n.todo = o.todo /\ n.node = o.node /\ n.copy = o.copy
    BY <1>2, Zenon DEF Op
  <2>3. SameGoal(n, o)
    BY <2>2, Zenon DEF SameGoal
  <2>4. Moves(t, n)
    BY <1>1, <1>8, Zenon DEF Scan
  <2> HIDE DEF n
  <2>5. k = 0
    BY <1>7, <1>8, NullAssumption
  <2>6. NoOwnCopy(t, n, 0) /\ (Copying(n) \/ n.todo # << >>)
    BY <1>4, <1>5, <2>2, <2>3, <2>5, GoalKept, Zenon
  <2>7. OpOK(t, n)
    BY <1>4, <2>2, <2>6, Zenon DEF OpOK, Climbing, Searching, Creating
  <2>8. QED
    BY <1>1, <1>2, <1>6, <2>1, <2>4, <2>7, MoveKeeps, Zenon
<1>9. CASE o.cur # Null /\ label[o.cur] = Wanted(o)
  <2> DEFINE n == [Arrive(o, o.cur) EXCEPT !.cur = Null, !.pc = "first_child"]
  <2>1. Moves(t, n)
    BY <1>1, <1>9, Zenon DEF Scan
  <2>2. k > 0
    BY <1>5, <1>9
  <2>3. n \in Op /\ n.pc = "first_child" /\ n.node = o.cur /\ Len(n.todo) <= MaxPath
    <3>1. PICK a : a = Arrive(o, o.cur)
      BY Zenon
    <3>2. a \in Op /\ a.node = o.cur /\ Len(a.todo) <= MaxPath
      BY <1>2, <1>4, <1>7, <2>2, <3>1, ArriveOK, Zenon
    <3>3. n = [a EXCEPT !.cur = Null, !.pc = "first_child"]
      BY <3>1, Zenon
    <3>4. QED
      BY <3>2, <3>3, ZenonT(60) DEF Op, MaybePtr
  <2> HIDE DEF n
  <2>4. OpOK(t, n)
    BY <1>7, <2>2, <2>3, AtFirstChild, Zenon
  <2>5. QED
    BY <1>1, <1>2, <1>6, <2>1, <2>3, <2>4, MoveKeeps, Zenon
<1>10. CASE o.cur # Null /\ label[o.cur] # Wanted(o)
  <2> DEFINE n == [o EXCEPT !.cur = next[o.cur]]
  <2>1. k > 0 /\ k - 1 \in 0..Len(kids[Here(o)])
    BY <1>3, <1>5, <1>10, ChildList
  <2>2. n \in Op
    <3>1. next[o.cur] \in MaybePtr
      BY <1>2, <1>7, <2>1, Zenon DEF TypeOK, MaybePtr
    <3>2. QED
      BY <1>2, <3>1, Zenon DEF Op
  <2>3. /\ n.pc = "scan" /\ n.todo = o.todo /\ n.node = o.node /\ n.copy = o.copy
        /\ n.cur = next[o.cur]
    BY <1>2, Zenon DEF Op
  <2>4. SameGoal(n, o)
    BY <2>3, Zenon DEF SameGoal
  <2>5. Moves(t, n)
    BY <1>1, <1>10, Zenon DEF Scan
  <2> HIDE DEF n
  <2>6. Here(n) = Here(o) /\ (Copying(n) \/ n.todo # << >>)
    BY <1>4, <2>3, <2>4, GoalKept, Zenon
  <2>7. NoOwnCopy(t, o, k - 1)
    <3> SUFFICES ASSUME NEW j \in 1..Len(kids[Here(o)]), j > k - 1,
                        owner[kids[Here(o)][j][1]] = t
                 PROVE  label[kids[Here(o)][j]] # Wanted(o)
      BY Zenon DEF NoOwnCopy
    <3>1. CASE j = k
      BY <1>7, <1>10, <2>1, <3>1, Zenon
    <3>2. CASE j # k
      BY <1>5, <2>1, <3>2 DEF NoOwnCopy
    <3>3. QED
      BY <3>1, <3>2, Zenon
  <2>8. NoOwnCopy(t, n, k - 1)
    BY <2>4, <2>7, GoalKept, Zenon
  <2>9. n.cur = IF k - 1 = 0 THEN Null ELSE kids[Here(n)][k - 1]
    BY <1>7, <2>1, <2>3, <2>6
  <2>10. Searching(t, n)
    BY <2>1, <2>3, <2>6, <2>8, <2>9, Zenon DEF Searching
  <2>11. OpOK(t, n)
    BY <1>4, <2>3, <2>10, Zenon DEF OpOK, Climbing, Creating
  <2>12. QED
    BY <1>1, <1>2, <1>6, <2>2, <2>5, <2>11, MoveKeeps, Zenon
<1>11. QED
  BY <1>8, <1>9, <1>10, Zenon

-----------------------------------------------------------------------------
(* The steps to a block, and the return.                                   *)

(* A call that may create nodes, with the same walk as before.             *)
LEMMA BlockOK ==
  ASSUME NEW t \in Threads, NEW o \in Op, OpOK(t, o),
         o.pc \in {"have_free", "take"}, m_nodeblock[t] # Null,
         index[m_nodeblock[t]] + Needed(o) <= Capacity
  PROVE  WithBlock(o) \in Op /\ OpOK(t, WithBlock(o))
<1>1. PICK n : n = WithBlock(o)
  BY Zenon
<1>2. /\ n \in Op /\ n.pc \in {"copy_data", "create"}
      /\ n.todo = o.todo /\ n.node = o.node /\ n.copy = o.copy
  BY <1>1, ZenonT(60) DEF WithBlock, Op
<1>3. SameGoal(n, o)
  BY <1>2, Zenon DEF SameGoal
<1>4. /\ Copying(n) \/ n.todo # << >>
      /\ NoOwnCopy(t, n, 0) /\ Needed(n) = Needed(o)
  BY <1>2, <1>3, GoalKept, Zenon DEF OpOK, Searching
<1>5. Len(n.todo) <= MaxPath /\ (n.node # Null => Published(n.node))
  BY <1>2, Zenon DEF OpOK
<1>6. OpOK(t, n)
  BY <1>2, <1>4, <1>5, Zenon DEF OpOK, Climbing, Searching, Creating
<1>7. QED
  BY <1>1, <1>2, <1>6, Zenon

LEMMA HaveFreeKeeps ==
  ASSUME TInv, NEW t \in Threads, HaveFree(t)
  PROVE  TInv'
<1>1. PICK o : o = op[t]
  BY Zenon
<1>2. o.pc = "have_free" /\ o \in Op /\ OpOK(t, o) /\ TypeOK
  BY <1>1, InCall, Zenon DEF HaveFree, TInv
<1>3. /\ Copying(o) \/ o.todo # << >>
      /\ NoOwnCopy(t, o, 0)
      /\ Len(o.todo) <= MaxPath /\ (o.node # Null => Published(o.node))
  BY <1>2, Zenon DEF OpOK, Searching
<1>4. UNCHANGED <<nodes, next_block, index, m_nodeblock, kids, owner>>
  BY Zenon DEF HaveFree
<1> DEFINE room == m_nodeblock[t] # Null /\ index[m_nodeblock[t]] + Needed(o) < NodesPerBlock
<1>5. CASE room
  <2>1. Moves(t, WithBlock(o))
    BY <1>1, <1>5, Zenon DEF HaveFree
  <2>2. m_nodeblock[t] \in Blocks /\ index[m_nodeblock[t]] \in Nat /\ Needed(o) \in Nat
    BY <1>2, <1>3, <1>5, GoalTyped, SizeAssumption DEF TypeOK
  <2>3. index[m_nodeblock[t]] + Needed(o) <= Capacity
    BY <1>5, <2>2, SizeAssumption DEF Capacity
  <2>4. WithBlock(o) \in Op /\ OpOK(t, WithBlock(o))
    BY <1>2, <1>5, <2>3, BlockOK, Zenon
  <2>5. QED
    BY <1>1, <1>2, <1>4, <2>1, <2>4, MoveKeeps, Zenon
<1>6. CASE ~room /\ next_block >= NumBlocks
  <2>1. Moves(t, Failed(o))
    BY <1>1, <1>6, Zenon DEF HaveFree
  <2>2. QED
    BY <1>1, <1>2, <1>3, <1>4, <2>1, FailedOK, MoveKeeps, Zenon
<1>7. CASE ~room /\ ~(next_block >= NumBlocks)
  <2> DEFINE n == [o EXCEPT !.pc = "take"]
  <2>1. Moves(t, n)
    BY <1>1, <1>7, Zenon DEF HaveFree
  <2>2. /\ n \in Op /\ n.pc = "take"
        /\ n.todo = o.todo /\ n.node = o.node /\ n.copy = o.copy
    BY <1>2, Zenon DEF Op
  <2> HIDE DEF n
  <2>3. SameGoal(n, o)
    BY <2>2, Zenon DEF SameGoal
  <2>4. (Copying(n) \/ n.todo # << >>) /\ NoOwnCopy(t, n, 0)
    BY <1>3, <2>2, <2>3, GoalKept, Zenon
  <2>5. OpOK(t, n)
    BY <1>3, <2>2, <2>4, ZenonT(60) DEF OpOK, Climbing, Searching, Creating
  <2>6. QED
    BY <1>1, <1>2, <1>4, <2>1, <2>2, <2>5, MoveKeeps, Zenon
<1>8. QED
  BY <1>5, <1>6, <1>7, Zenon

LEMMA PoolFullKeeps ==
  ASSUME TInv, NEW t \in Threads, PoolFull(t)
  PROVE  TInv'
<1>1. PICK o : o = op[t]
  BY Zenon
<1>2. o.pc \in {"take", "copy_data"} /\ o.pc # "idle" /\ o \in Op /\ OpOK(t, o)
  BY <1>1, InCall, Zenon DEF PoolFull, TInv
<1>3. Copying(o) \/ o.todo # << >>
  BY <1>2, Zenon DEF OpOK, Searching
<1>4. Failed(o) \in Op /\ OpOK(t, Failed(o))
  BY <1>2, <1>3, FailedOK, Zenon
<1>5. QED
  BY <1>1, <1>2, <1>4, MoveKeeps, ZenonT(60) DEF PoolFull

(* A call returns a published node, or none.                               *)
LEMMA ReturnKeeps ==
  ASSUME TInv, NEW t \in Threads, Return(t)
  PROVE  TInv'
<1>1. PICK o : o = op[t]
  BY Zenon
<1>2. o.pc = "first_child" /\ o \in Op /\ OpOK(t, o) /\ TypeOK /\ mG
  BY <1>1, InCall, Zenon DEF Return, Done, TInv
<1>3. PICK h : h = IF o.node = Null THEN held[t] ELSE IF o.node = Root THEN Null ELSE o.node
  BY Zenon
<1>4. held' = [held EXCEPT ![t] = h] /\ op' = [op EXCEPT ![t] = Idle] /\ Private
      /\ UNCHANGED <<mG, life>>
  BY <1>1, <1>2, <1>3, Zenon DEF Return, Private, nodes, TypeOK
<1>5. HeldOK(h) /\ h \in Ptrs \cup {Null}
  <2>1. held[t] \in Ptrs \cup {Null} /\ HeldOK(held[t])
    BY Zenon DEF TInv, TypeOK
  <2>2. o.node \in MaybePtr /\ (o.node # Null => Published(o.node))
    BY <1>2, Zenon DEF OpOK, Op
  <2>3. QED
    BY <1>3, <2>1, <2>2, Zenon DEF HeldOK, MaybePtr
<1>6. Idle \in Op
  BY PathsFit, Zenon DEF Idle, Op, MaybePtr
<1>7. Idle.pc = "idle" /\ Idle.todo = << >> /\ Idle.node = Null
  BY Zenon DEF Idle
<1>8. OpOK(t, Idle)
  BY <1>7, PathsFit DEF OpOK, Climbing, Searching, Creating
<1>9. QED
  BY <1>2, <1>4, <1>5, <1>6, <1>8, CallMoves, Zenon

LEMMA LoadGlobalKeeps ==
  ASSUME TInv, NEW t \in Threads, LoadGlobal(t)
  PROVE  TInv'
<1>1. Private /\ UNCHANGED <<mG, op, held>>
  BY Zenon DEF LoadGlobal, nodes, Private
<1>2. TypeOK'
  BY <1>1, Zenon DEF LoadGlobal, TInv, TypeOK, Private
<1>3. NothingYet'
  BY <1>1 DEF LoadGlobal, TInv, TypeOK, Private, NothingYet
<1>4. BlocksFilled' /\ BlocksOwned' /\ SiblingsLinked' /\ OneCopyPerThread'
  BY <1>1, PrivateLists, Zenon
<1>5. \A x : Published(x) <=> Published(x)'
  BY <1>1, ZenonT(60) DEF Published, Private
<1>6. ListsMade'
  BY <1>1, <1>5, ZenonT(60) DEF TInv, ListsMade, Private
<1>7. \A u \in Threads : HeldOK(held[u])'
  BY <1>1, <1>5, Zenon DEF TInv, HeldOK
<1>8. ASSUME NEW u \in Threads PROVE OpOK(u, op[u])'
  <2>1. PICK o : o = op[u] /\ OpOK(u, o)
    BY Zenon DEF TInv
  <2>2. OpOK(u, o)'
    BY <1>1, <2>1, PrivateKeeps, Zenon
  <2>3. QED
    BY <1>1, <2>1, <2>2, Zenon
<1>9. QED
  BY <1>2, <1>3, <1>4, <1>6, <1>7, <1>8, Zenon DEF TInv

(* A block is taken before any node is in it, so no child of any node      *)
(* changes its owner.                                                      *)
LEMMA TakeBlockKeeps ==
  ASSUME TInv, NEW t \in Threads, TakeBlock(t)
  PROVE  TInv'
<1>1. PICK o : o = op[t]
  BY Zenon
<1>2. o.pc = "take" /\ o \in Op /\ OpOK(t, o) /\ TypeOK /\ mG
  BY <1>1, InCall, Zenon DEF TakeBlock, TInv
<1>3. /\ Copying(o) \/ o.todo # << >>
      /\ NoOwnCopy(t, o, 0)
      /\ Len(o.todo) <= MaxPath /\ (o.node # Null => Published(o.node))
  BY <1>2, Zenon DEF OpOK, Searching
<1>4. CASE next_block >= NumBlocks
  <2>1. PICK n : n = Failed(o)
    BY Zenon
  <2>2. n \in Op /\ OpOK(t, n)
    BY <1>2, <1>3, <2>1, FailedOK, Zenon
  <2>3. /\ op' = [op EXCEPT ![t] = n] /\ next_block' = next_block + 1
        /\ UNCHANGED <<mG, life, held, label, parent, next, head>>
        /\ UNCHANGED <<index, m_nodeblock, kids, owner>>
    BY <1>1, <1>4, <2>1, Zenon DEF TakeBlock, Moves, nodes
  <2>4. TypeOK' /\ NothingYet'
    BY <1>2, <2>2, <2>3 DEF TypeOK, NothingYet
  <2>5. BlocksFilled' /\ BlocksOwned'
    <3>1. next_block \in Nat /\ next_block > 0 /\ next_block' = next_block + 1
      BY <1>2, <2>3, Zenon DEF TInv, TypeOK, BlocksFilled
    <3>2. next_block' > 0 /\ (\A b \in Nat : b >= next_block' => b >= next_block)
      BY ONLY <3>1
    <3>3. \A b \in Blocks : b \in Nat
      BY SizeAssumption DEF Blocks
    <3>4. BlocksFilled'
      BY <2>3, <3>2, <3>3, Zenon DEF TInv, BlocksFilled
    <3>5. BlocksOwned'
      BY <1>2, <1>4, <2>3, <3>1 DEF TInv, BlocksOwned, TypeOK, Blocks
    <3>6. QED
      BY <3>4, <3>5, Zenon
  <2>6. \A x : Published(x) <=> Published(x)'
    BY <2>3, Zenon DEF Published
  <2>7. ListsMade' /\ SiblingsLinked' /\ OneCopyPerThread'
    BY <2>3, <2>6 DEF TInv, ListsMade, SiblingsLinked, OneCopyPerThread, Created
  <2>8. \A u \in Threads : HeldOK(held[u])'
    BY <2>3, <2>6, Zenon DEF TInv, HeldOK
  <2>9. \A x, y : Above(x, y) => Above(x, y)'
    BY <2>3, Zenon DEF Above
  <2>10. ASSUME NEW u \in Threads PROVE OpOK(u, op[u])'
    <3>1. PICK q : q = op'[u]
      BY Zenon
    <3>2. OpOK(u, q)
      BY <1>2, <2>2, <2>3, <3>1, Zenon DEF TInv, TypeOK
    <3>3. \A k : NoOwnCopy(u, q, k) => NoOwnCopy(u, q, k)'
      BY <2>3, Zenon DEF NoOwnCopy
    <3>4. Climbing(q)' /\ Searching(u, q)'
      BY <2>3, <2>6, <2>9, <3>2, <3>3, ZenonT(60) DEF OpOK, Climbing, Searching
    <3>5. Creating(u, q)'
      BY <2>3, <2>6, <3>2, Zenon DEF OpOK, Creating
    <3>6. OpOK(u, q)'
      BY <2>6, <3>2, <3>4, <3>5, Zenon DEF OpOK
    <3>7. QED
      BY <3>1, <3>6, Zenon
  <2>11. QED
    BY <2>4, <2>5, <2>7, <2>8, <2>10, Zenon DEF TInv
<1>5. CASE ~(next_block >= NumBlocks)
  <2>1. PICK b : b = next_block
    BY Zenon
  <2>2. b \in Blocks /\ index[b] = 0 /\ b # Null
    <3>1. b \in Blocks
      BY <1>2, <1>5, <2>1, SizeAssumption DEF TypeOK, Blocks
    <3>2. index[b] = 0
      BY <1>2, <2>1, <3>1 DEF TInv, TypeOK, BlocksFilled
    <3>3. b # Null
      BY <3>1, NullAssumption, Zenon
    <3>4. QED
      BY <3>1, <3>2, <3>3, Zenon
  <2>3. PICK n : n = WithBlock(o)
    BY Zenon
  <2>4. /\ n \in Op /\ n.pc \in {"copy_data", "create"}
        /\ n.todo = o.todo /\ n.node = o.node /\ n.copy = o.copy
    BY <1>2, <2>3, Zenon DEF WithBlock, Op
  <2>5. /\ op' = [op EXCEPT ![t] = n] /\ next_block' = b + 1
        /\ m_nodeblock' = [m_nodeblock EXCEPT ![t] = b]
        /\ owner' = [owner EXCEPT ![b] = t]
        /\ index' = [index EXCEPT ![b] = 0]
        /\ UNCHANGED <<mG, life, held, label, parent, next, head, kids>>
    BY <1>1, <1>5, <2>1, <2>3, Zenon DEF TakeBlock, Moves, nodes
  <2>6. index' = index
    BY <1>2, <2>2, <2>5, Zenon DEF TypeOK
  <2>7. TypeOK' /\ NothingYet'
    BY <1>2, <2>1, <2>2, <2>4, <2>5, <2>6 DEF TypeOK, NothingYet
  <2>8. BlocksFilled'
    BY <1>2, <2>1, <2>5, <2>6 DEF TInv, BlocksFilled, TypeOK, Blocks
  <2>9. BlocksOwned'
    BY <1>2, <2>1, <2>2, <2>5 DEF TInv, BlocksOwned, TypeOK, Blocks
  <2>10. \A x : Published(x) <=> Published(x)'
    BY <2>5, ZenonT(60) DEF Published
  <2>11. ListsMade' /\ SiblingsLinked'
    BY <2>5, <2>10 DEF TInv, ListsMade, SiblingsLinked, Created
  <2>12. \A p \in Nodes : \A i \in 1..Len(kids[p]) :
           /\ kids[p][i] \in Ptrs
           /\ owner'[kids[p][i][1]] = owner[kids[p][i][1]]
    <3> SUFFICES ASSUME NEW p \in Nodes, NEW i \in 1..Len(kids[p])
                 PROVE  /\ kids[p][i] \in Ptrs
                        /\ owner'[kids[p][i][1]] = owner[kids[p][i][1]]
      BY Zenon
    <3>1. PICK x : x = kids[p][i]
      BY Zenon
    <3>2. x \in Ptrs /\ x[2] < index[x[1]]
      <4>1. kids[p] \in Seq(Ptrs)
        BY <1>2, Zenon DEF TypeOK, Nodes
      <4>2. x \in Ptrs
        BY ONLY <3>1, <4>1, i \in 1..Len(kids[p])
      <4>3. label[x] # Null
        BY <3>1, Zenon DEF TInv, ListsMade
      <4>4. QED
        BY <4>2, <4>3, Zenon DEF TInv, BlocksFilled
    <3>3. x[1] \in Blocks /\ x[2] \in Nat
      BY <3>2 DEF Ptrs
    <3>4. x[1] # b
      BY <2>2, <3>2, <3>3
    <3>5. QED
      BY <1>2, <2>5, <3>1, <3>2, <3>3, <3>4, Zenon DEF TypeOK
  <2>13. OneCopyPerThread'
    <3> SUFFICES ASSUME NEW q \in Nodes, NEW i \in 1..Len(kids'[q]), NEW j \in 1..Len(kids'[q]),
                        label'[kids'[q][i]] = label'[kids'[q][j]],
                        owner'[kids'[q][i][1]] = owner'[kids'[q][j][1]]
                 PROVE  i = j
      BY Zenon DEF OneCopyPerThread, Nodes
    <3>1. kids' = kids /\ label' = label
      BY <2>5, Zenon
    <3>2. /\ label[kids[q][i]] = label[kids[q][j]]
          /\ owner[kids[q][i][1]] = owner[kids[q][j][1]]
      BY <2>12, <3>1, Zenon
    <3>3. QED
      BY <3>1, <3>2, Zenon DEF TInv, OneCopyPerThread, Nodes
  <2>14. \A u \in Threads : HeldOK(held[u])'
    BY <2>5, <2>10, Zenon DEF TInv, HeldOK
  <2>15. \A x, y : Above(x, y) => Above(x, y)'
    BY <2>5, Zenon DEF Above
  <2>16. \A u, q, k : Here(q) \in Nodes /\ NoOwnCopy(u, q, k) => NoOwnCopy(u, q, k)'
    BY <2>5, <2>12, Zenon DEF NoOwnCopy
  <2>17. ASSUME NEW u \in Threads, u # t PROVE OpOK(u, op[u])'
    <3>1. PICK q : q = op'[u]
      BY Zenon
    <3>2. OpOK(u, q) /\ q \in Op
      BY <1>2, <2>5, <2>17, <3>1, Zenon DEF TInv, TypeOK
    <3>3. Here(q) \in Nodes
      BY <3>2, HereNode, Zenon
    <3>4. Climbing(q)' /\ Searching(u, q)'
      BY <2>5, <2>10, <2>15, <2>16, <3>2, <3>3, ZenonT(60) DEF OpOK, Climbing, Searching
    <3>5. m_nodeblock'[u] = m_nodeblock[u]
      BY <1>2, <2>5, <2>17, Zenon DEF TypeOK
    <3>6. Creating(u, q)'
      BY <2>5, <2>6, <2>10, <3>2, <3>5, ZenonT(60) DEF OpOK, Creating
    <3>7. OpOK(u, q)'
      BY <2>10, <3>2, <3>4, <3>6, Zenon DEF OpOK
    <3>8. QED
      BY <3>1, <3>7, Zenon
  <2>18. OpOK(t, op[t])'
    <3>1. SameGoal(n, o)
      BY <2>4, Zenon DEF SameGoal
    <3>2. Needed(n) = Needed(o) /\ Needed(o) \in 1..MaxPath /\ (Copying(n) \/ n.todo # << >>)
      BY <1>2, <1>3, <2>4, <3>1, GoalKept, GoalTyped, ZenonT(60)
    <3>3. Here(o) \in Nodes /\ Here(n) = Here(o) /\ NoOwnCopy(t, n, 0)
      BY <1>2, <1>3, <3>1, HereNode, GoalKept, Zenon
    <3>4. NoOwnCopy(t, n, 0)'
      BY <2>16, <3>3, Zenon
    <3>5. m_nodeblock'[t] = b /\ index'[b] = 0
      BY <1>2, <2>2, <2>5, <2>6, Zenon DEF TypeOK
    <3>6. 0 + Needed(n) <= Capacity
      BY <3>2, SizeAssumption DEF Capacity
    <3>7. Searching(t, n)' /\ Creating(t, n)' /\ Climbing(n)'
      BY <2>2, <2>4, <3>2, <3>4, <3>5, <3>6, ZenonT(60) DEF Searching, Creating, Climbing
    <3>8. OpOK(t, n)'
      BY <1>3, <2>4, <2>10, <3>7, ZenonT(60) DEF OpOK
    <3>9. op'[t] = n
      BY <1>2, <2>5, Zenon DEF TypeOK
    <3>10. QED
      BY <3>8, <3>9, Zenon
  <2>19. QED
    BY <2>7, <2>8, <2>9, <2>11, <2>13, <2>14, <2>17, <2>18, Zenon DEF TInv
<1>6. QED
  BY <1>4, <1>5, Zenon

-----------------------------------------------------------------------------
(* The new node.                                                           *)

(* Two threads in a call to create nodes have two blocks.                  *)
LEMMA BlocksDiffer ==
  ASSUME TInv, NEW t \in Threads, NEW u \in Threads, t # u, m_nodeblock[t] # Null
  PROVE  m_nodeblock[t] # m_nodeblock[u]
BY Zenon DEF TInv, BlocksOwned

(* The node is written where no pointer leads yet.                         *)
LEMMA CreateNodeKeeps ==
  ASSUME TInv, NEW t \in Threads, CreateNode(t)
  PROVE  TInv'
<1>1. PICK o, b : o = op[t] /\ b = m_nodeblock[t]
  BY Zenon
<1>2. o.pc \in {"copy_data", "create"} /\ o \in Op /\ OpOK(t, o) /\ TypeOK /\ ListsMade /\ mG
  BY <1>1, InCall, Zenon DEF CreateNode, TInv
<1>3. /\ Copying(o) \/ o.todo # << >>
      /\ NoOwnCopy(t, o, 0)
      /\ Len(o.todo) <= MaxPath /\ (o.node # Null => Published(o.node))
      /\ b # Null /\ index[b] + Needed(o) <= Capacity
  BY <1>1, <1>2, ZenonT(60) DEF OpOK, Searching, Creating
<1>4. b \in Blocks /\ index[b] \in Nat
  BY <1>1, <1>2, <1>3, Zenon DEF TypeOK
<1>5. Needed(o) \in 1..MaxPath /\ Wanted(o) \in AnyLabel /\ MaxPath \in Nat
  BY <1>2, <1>3, GoalTyped, SizeAssumption, Zenon
<1>6. PICK x : x = <<b, index[b]>>
  BY ZenonT(60)
<1>7. x \in Ptrs /\ x[1] = b /\ x[2] = index[b]
  <2>1. Capacity \in Nat /\ Capacity <= NodesPerBlock + MaxPath - 1
    BY SizeAssumption DEF Capacity
  <2>2. index[b] \in 0..(NodesPerBlock + MaxPath - 1)
    BY <1>3, <1>4, <1>5, <2>1, SizeAssumption
  <2>3. QED
    BY <1>4, <1>6, <2>2, Zenon DEF Ptrs
<1>8. label[x] = Null /\ kids[x] = << >> /\ parent[x] = Null
  BY <1>2, <1>4, <1>7 DEF TInv, BlocksFilled, ListsMade
<1>9. ~Published(x) /\ x # Root
  BY <1>2, <1>7, <1>8, PublishedNodes, NullAssumption, Zenon
<1>10. PICK p : p = Here(o)
  BY Zenon
<1>11. Published(p) /\ p \in Nodes
  BY <1>2, <1>10, HereNode, Zenon
<1>12. PICK n : n = [o EXCEPT !.new = x, !.pc = "append"]
  BY Zenon
<1>13. /\ n \in Op /\ n.pc = "append" /\ n.new = x
       /\ n.todo = o.todo /\ n.node = o.node /\ n.copy = o.copy
  BY <1>2, <1>7, <1>12, ZenonT(60) DEF Op
<1>14. /\ op' = [op EXCEPT ![t] = n]
       /\ index' = [index EXCEPT ![b] = index[b] + 1]
       /\ label' = [label EXCEPT ![x] = Wanted(o)]
       /\ parent' = [parent EXCEPT ![x] = p]
       /\ next' = [next EXCEPT ![x] = head[p]]
       /\ head' = [head EXCEPT ![x] = Null]
       /\ UNCHANGED <<mG, life, held, next_block, m_nodeblock, kids, owner>>
  BY <1>1, <1>6, <1>10, <1>12, Zenon DEF CreateNode, Moves
<1>15. TypeOK'
  <2>1. p \in MaybePtr /\ head[p] \in Ptrs \cup {Null}
    BY <1>2, <1>11, Zenon DEF TypeOK, Nodes, MaybePtr
  <2>2. QED
    BY <1>2, <1>4, <1>5, <1>7, <1>13, <1>14, <2>1 DEF TypeOK
<1>16. NothingYet' /\ BlocksOwned'
  BY <1>2, <1>14, ZenonT(60) DEF TInv, NothingYet, BlocksOwned
<1>17. BlocksFilled'
  <2>1. next_block' > 0
    BY <1>14, Zenon DEF TInv, BlocksFilled
  <2>2. ASSUME NEW c \in Blocks PROVE index'[c] <= Capacity /\ (c >= next_block' => index'[c] = 0)
    <3>1. CASE c = b
      <4>1. b < next_block
        BY <1>1, <1>3, Zenon DEF TInv, BlocksOwned
      <4>2. index'[c] = index[b] + 1 /\ Capacity \in Nat
        BY <1>2, <1>4, <1>14, <3>1, SizeAssumption, Zenon DEF TypeOK, Capacity
      <4>3. b \in Nat /\ next_block \in Nat
        BY <1>2, <1>4 DEF TypeOK, Blocks
      <4>4. QED
        BY <1>3, <1>4, <1>5, <1>14, <3>1, <4>1, <4>2, <4>3, SMTT(60)
    <3>2. CASE c # b
      BY <1>2, <1>14, <3>2, ZenonT(60) DEF TInv, BlocksFilled, TypeOK
    <3>3. QED
      BY <3>1, <3>2, Zenon
  <2>3. ASSUME NEW y \in Ptrs PROVE label'[y] # Null <=> y[2] < index'[y[1]]
    <3>0. y = <<y[1], y[2]>> /\ y[1] \in Blocks /\ y[2] \in Nat
      BY DEF Ptrs
    <3>1. CASE y = x
      <4>1. label'[x] = Wanted(o) /\ index'[b] = index[b] + 1
        BY <1>2, <1>4, <1>7, <1>14, Zenon DEF TypeOK
      <4>2. Wanted(o) # Null
        BY <1>5, NullAssumption, Zenon
      <4>3. QED
        BY <1>4, <1>7, <3>1, <4>1, <4>2
    <3>2. CASE y # x
      <4>1. label'[y] = label[y] /\ (label[y] # Null <=> y[2] < index[y[1]])
        BY <1>2, <1>7, <1>14, <3>2, ZenonT(60) DEF TypeOK, TInv, BlocksFilled
      <4>2. CASE y[1] = b
        <5>1. y[2] # index[b]
          BY <1>6, <3>0, <3>2, <4>2, Zenon
        <5>2. index'[b] = index[b] + 1
          BY <1>2, <1>4, <1>14, Zenon DEF TypeOK
        <5>3. QED
          BY <1>4, <3>0, <4>1, <4>2, <5>1, <5>2
      <4>3. CASE y[1] # b
        BY <1>2, <1>14, <3>0, <4>1, <4>3, Zenon DEF TypeOK
      <4>4. QED
        BY <4>2, <4>3, Zenon
    <3>3. QED
      BY <3>1, <3>2, Zenon
  <2>4. QED
    BY <2>1, <2>2, <2>3, Zenon DEF BlocksFilled
<1>18. \A z : Published(z) <=> Published(z)'
  BY <1>14, ZenonT(60) DEF Published
<1>19. \A z \in Ptrs : z # x => /\ label'[z] = label[z] /\ parent'[z] = parent[z]
                                /\ next'[z] = next[z] /\ head'[z] = head[z]
  BY <1>2, <1>14, Zenon DEF TypeOK
<1>20. /\ label'[x] = Wanted(o) /\ parent'[x] = p /\ head'[x] = Null /\ head'[Root] = head[Root]
       /\ index'[b] = index[b] + 1
  BY <1>2, <1>4, <1>7, <1>9, <1>14, Zenon DEF TypeOK
<1>21. \A q \in Nodes : \A i \in 1..Len(kids[q]) : kids[q][i] \in Ptrs /\ kids[q][i] # x
  BY <1>2, <1>8 DEF TypeOK, ListsMade, Nodes
<1>22. ListsMade'
  <2>1. \A q \in Nodes : \A i \in 1..Len(kids'[q]) :
          label'[kids'[q][i]] # Null /\ parent'[kids'[q][i]] = q
    BY <1>2, <1>14, <1>19, <1>21 DEF ListsMade
  <2>2. Wanted(o) # Null
    BY <1>5, NullAssumption, Zenon
  <2>3. \A q \in Ptrs : label'[q] = Null => kids'[q] = << >> /\ parent'[q] = Null
    BY <1>2, <1>14, <1>19, <1>20, <2>2, ZenonT(60) DEF ListsMade
  <2>4. ASSUME NEW q \in Ptrs, label'[q] # Null PROVE Published(parent[q])'
    <3>1. CASE q = x
      <4>1. Published(p)'
        BY <1>11, <1>18, Zenon
      <4>2. QED
        BY <1>20, <3>1, <4>1, Zenon
    <3>2. CASE q # x
      <4>1. PICK r : r = parent[q]
        BY Zenon
      <4>2. Published(r)
        BY <1>2, <1>19, <2>4, <3>2, <4>1, ZenonT(60) DEF ListsMade
      <4>3. Published(r)' /\ r = parent'[q]
        BY <1>18, <1>19, <3>2, <4>1, <4>2, ZenonT(60)
      <4>4. QED
        BY <4>3, Zenon
    <3>3. QED
      BY <3>1, <3>2, Zenon
  <2>5. QED
    BY <2>1, <2>3, <2>4, ZenonT(60) DEF ListsMade
<1>23. SiblingsLinked'
  <2> SUFFICES ASSUME NEW q \in Created' \cup {Root}
               PROVE  /\ head'[q] = IF kids'[q] = << >> THEN Null ELSE kids'[q][Len(kids'[q])]
                      /\ \A i \in 1..Len(kids'[q]) :
                           /\ parent'[kids'[q][i]] = q
                           /\ next'[kids'[q][i]] = IF i = 1 THEN Null ELSE kids'[q][i - 1]
    BY Zenon DEF SiblingsLinked
  <2>1. CASE q = x
    BY <1>8, <1>14, <1>20, <2>1, SMTT(60)
  <2>2. CASE q # x
    <3>1. q \in Created \cup {Root} /\ q \in Nodes /\ head'[q] = head[q]
      BY <1>19, <1>20, <2>2, Zenon DEF Created, Nodes
    <3>2. QED
      BY <1>14, <1>19, <1>21, <3>1, SMTT(60) DEF TInv, SiblingsLinked
  <2>3. QED
    BY <2>1, <2>2, Zenon
<1>24. OneCopyPerThread'
  BY <1>14, <1>19, <1>21, SMTT(60) DEF TInv, OneCopyPerThread, Nodes
<1>25. \A u \in Threads : HeldOK(held[u])'
  BY <1>14, <1>18, Zenon DEF TInv, HeldOK
<1>26. ASSUME NEW y, NEW z, Published(y), Above(y, z) PROVE Above(y, z)'
  <2> SUFFICES ASSUME NEW S \in SUBSET Nodes, y \in S,
                      \A w \in S : w # Root => parent'[w] \in S
               PROVE  z \in S
    BY Zenon DEF Above
  <2>1. y \in S \ {x} /\ S \ {x} \in SUBSET Nodes
    BY <1>9, <1>26, Zenon
  <2>2. ASSUME NEW w \in S \ {x}, w # Root PROVE parent[w] \in S \ {x}
    <3>1. w \in Ptrs /\ parent[w] = parent'[w] /\ parent[w] \in S
      BY <1>19, <2>2, Zenon DEF Nodes
    <3>2. parent[w] # x
      <4>1. CASE label[w] = Null
        BY <1>2, <1>7, <3>1, <4>1, NullAssumption, Zenon DEF ListsMade
      <4>2. CASE label[w] # Null
        BY <1>2, <1>9, <3>1, <4>2, ZenonT(60) DEF ListsMade
      <4>3. QED
        BY <4>1, <4>2, Zenon
    <3>3. QED
      BY <3>1, <3>2, Zenon
  <2>3. z \in S \ {x}
    BY <1>26, <2>1, <2>2, Zenon DEF Above
  <2>4. QED
    BY <2>3, Zenon
<1>27. \A u, q, k : Here(q) \in Nodes /\ NoOwnCopy(u, q, k) => NoOwnCopy(u, q, k)'
  BY <1>14, <1>19, <1>21, SMTT(60) DEF NoOwnCopy
<1>28. ASSUME NEW u \in Threads, u # t PROVE OpOK(u, op[u])'
  <2>1. PICK q : q = op[u]
    BY Zenon
  <2>2. OpOK(u, q) /\ q \in Op
    BY <1>2, <2>1, Zenon DEF TInv, TypeOK
  <2>3. Here(q) \in Nodes
    BY <2>2, HereNode, Zenon
  <2>4. Climbing(q)'
    BY <1>18, <1>26, <2>2, ZenonT(60) DEF OpOK, Climbing
  <2>5. Searching(u, q)'
    BY <1>14, <1>27, <2>2, <2>3, ZenonT(60) DEF OpOK, Searching
  <2>6. m_nodeblock[u] # Null => /\ m_nodeblock[u] # b /\ m_nodeblock[u] \in Blocks
                                 /\ index'[m_nodeblock[u]] = index[m_nodeblock[u]]
    BY <1>1, <1>2, <1>3, <1>14, <1>28, BlocksDiffer, ZenonT(60) DEF TypeOK
  <2>7. Creating(u, q)'
    <3>1. CASE q.pc \in {"copy_data", "create"}
      BY <1>14, <2>2, <2>6, <3>1, ZenonT(60) DEF OpOK, Creating
    <3>2. CASE q.pc = "append"
      <4>1. /\ m_nodeblock[u] # Null
            /\ index[m_nodeblock[u]] > 0 /\ index[m_nodeblock[u]] + Needed(q) <= Capacity + 1
            /\ q.new \in Ptrs /\ q.new = <<m_nodeblock[u], index[m_nodeblock[u]] - 1>>
            /\ label[q.new] = Wanted(q) /\ parent[q.new] = Here(q)
            /\ ~Published(q.new) /\ kids[q.new] = << >>
        BY <2>2, <3>2, ZenonT(60) DEF OpOK, Creating
      <4>2. q.new # x
        BY <1>6, <2>6, <4>1
      <4>3. QED
        BY <1>14, <1>18, <1>19, <2>6, <3>2, <4>1, <4>2, ZenonT(60) DEF Creating
    <3>3. QED
      BY <3>1, <3>2, ZenonT(60) DEF Creating
  <2>8. OpOK(u, q)'
    BY <1>18, <2>2, <2>4, <2>5, <2>7, ZenonT(60) DEF OpOK
  <2>9. op'[u] = q
    BY <1>2, <1>14, <1>28, <2>1, Zenon DEF TypeOK
  <2>10. QED
    BY <2>8, <2>9, Zenon
<1>29. OpOK(t, op[t])'
  <2>1. SameGoal(n, o)
    BY <1>13, Zenon DEF SameGoal
  <2>2. /\ Needed(n) = Needed(o) /\ Wanted(n) = Wanted(o) /\ Here(n) = p
        /\ Copying(n) \/ n.todo # << >>
        /\ NoOwnCopy(t, n, 0)
    BY <1>3, <1>10, <1>13, <2>1, GoalKept, ZenonT(60)
  <2>3. NoOwnCopy(t, n, 0)'
    BY <1>11, <1>27, <2>2, ZenonT(60)
  <2>4. m_nodeblock'[t] = b /\ index'[b] = index[b] + 1
    BY <1>1, <1>14, <1>20, Zenon
  <2>5. x = <<b, index'[b] - 1>> /\ index'[b] > 0 /\ index'[b] + Needed(n) <= Capacity + 1
    <3>1. Capacity \in Nat
      BY SizeAssumption, Zenon DEF Capacity
    <3>2. QED
      BY <1>3, <1>4, <1>5, <1>6, <2>2, <2>4, <3>1
  <2>6. Creating(t, n)'
    BY <1>3, <1>7, <1>8, <1>9, <1>13, <1>14, <1>18, <1>20, <2>2, <2>4, <2>5, ZenonT(60) DEF Creating
  <2>7. Searching(t, n)' /\ Climbing(n)'
    BY <1>13, <2>2, <2>3, ZenonT(60) DEF Searching, Climbing
  <2>8. OpOK(t, n)'
    BY <1>3, <1>13, <1>18, <2>6, <2>7, ZenonT(60) DEF OpOK
  <2>9. op'[t] = n
    BY <1>2, <1>14, Zenon DEF TypeOK
  <2>10. QED
    BY <2>8, <2>9, Zenon
<1>30. QED
  BY <1>15, <1>16, <1>17, <1>22, <1>23, <1>24, <1>25, <1>28, <1>29, ZenonT(60) DEF TInv

-----------------------------------------------------------------------------
(* The compare-and-swap.                                                   *)

(* What a thread knows of the node that it is about to link.               *)
LEMMA NewNode ==
  ASSUME TInv, NEW t \in Threads, NEW o, o = op[t], o.pc = "append"
  PROVE  /\ o \in Op /\ OpOK(t, o) /\ mG
         /\ o.new \in Ptrs /\ ~Published(o.new) /\ kids[o.new] = << >>
         /\ label[o.new] = Wanted(o) /\ parent[o.new] = Here(o) /\ label[o.new] # Null
         /\ m_nodeblock[t] # Null /\ o.new[1] = m_nodeblock[t] /\ owner[o.new[1]] = t
         /\ index[m_nodeblock[t]] + Needed(o) <= Capacity + 1
         /\ NoOwnCopy(t, o, 0) /\ (Copying(o) \/ o.todo # << >>)
         /\ Len(o.todo) <= MaxPath
<1>1. o \in Op /\ OpOK(t, o) /\ mG
  BY InCall, Zenon
<1>2. /\ o.new \in Ptrs /\ ~Published(o.new) /\ kids[o.new] = << >>
      /\ label[o.new] = Wanted(o) /\ parent[o.new] = Here(o)
      /\ m_nodeblock[t] # Null /\ o.new[1] = m_nodeblock[t]
      /\ index[m_nodeblock[t]] + Needed(o) <= Capacity + 1
      /\ NoOwnCopy(t, o, 0) /\ (Copying(o) \/ o.todo # << >>)
      /\ Len(o.todo) <= MaxPath
  BY <1>1, SMTT(60) DEF OpOK, Creating, Searching
<1>3. Wanted(o) # Null
  BY <1>1, <1>2, GoalTyped, NullAssumption, ZenonT(60)
<1>4. owner[o.new[1]] = t
  BY <1>2, ZenonT(60) DEF TInv, BlocksOwned
<1>5. QED
  BY <1>1, <1>2, <1>3, <1>4, ZenonT(60)

LEMMA NewDiffer ==
  ASSUME TInv, NEW t \in Threads, NEW u \in Threads, t # u,
         op[t].pc = "append", op[u].pc = "append"
  PROVE  op[t].new # op[u].new
BY NewNode, BlocksDiffer

(* Another thread was first: the new node gets the new head, and is still  *)
(* in no list.                                                             *)
LEMMA AppendFailsKeeps ==
  ASSUME TInv, NEW t \in Threads, Append1(t), NEW o, o = op[t],
         head[Here(o)] # next[o.new]
  PROVE  TInv'
<1>1. PICK x, p : x = o.new /\ p = Here(o)
  BY Zenon
<1>2. o.pc = "append" /\ o \in Op /\ OpOK(t, o) /\ mG /\ x \in Ptrs /\ ~Published(x)
  BY <1>1, NewNode, Zenon DEF Append1
<1>3. Published(p) /\ p \in Nodes
  BY <1>1, <1>2, HereNode, Zenon
<1>4. /\ next' = [next EXCEPT ![x] = head[p]]
      /\ op' = op
      /\ UNCHANGED <<mG, life, held, label, parent, head>>
      /\ UNCHANGED <<next_block, index, m_nodeblock, kids, owner>>
  BY <1>1, Zenon DEF Append1
<1>5. TypeOK'
  <2>1. head[p] \in Ptrs \cup {Null}
    BY <1>3, Zenon DEF TInv, TypeOK, Nodes
  <2>2. QED
    BY <1>2, <1>4, <2>1, Zenon DEF TInv, TypeOK
<1>6. NothingYet' /\ BlocksOwned' /\ BlocksFilled' /\ OneCopyPerThread'
  BY <1>2, <1>4, ZenonT(60) DEF TInv, NothingYet, BlocksOwned, BlocksFilled, OneCopyPerThread
<1>7. \A z : Published(z) <=> Published(z)'
  BY <1>4, ZenonT(60) DEF Published
<1>8. ListsMade'
  BY <1>4, <1>7, ZenonT(60) DEF TInv, ListsMade
<1>9. \A q \in Nodes : \A i \in 1..Len(kids[q]) : next'[kids[q][i]] = next[kids[q][i]]
  <2> SUFFICES ASSUME NEW q \in Nodes, NEW i \in 1..Len(kids[q])
               PROVE  next'[kids[q][i]] = next[kids[q][i]]
    BY Zenon
  <2>1. kids[q][i] \in Ptrs /\ kids[q][i] # x
    <3>1. kids[q] \in Seq(Ptrs)
      BY Zenon DEF TInv, TypeOK, Nodes
    <3>2. kids[q][i] \in Ptrs
      BY ONLY <3>1, i \in 1..Len(kids[q])
    <3>3. Published(kids[q][i])
      BY Zenon DEF Published
    <3>4. QED
      BY <1>2, <3>2, <3>3, Zenon
  <2>2. QED
    BY <1>4, <2>1, ZenonT(60) DEF TInv, TypeOK
<1>10. SiblingsLinked'
  <2>1. Created' = Created /\ Created \cup {Root} \subseteq Nodes
    BY <1>4, Zenon DEF Created, Nodes
  <2>2. QED
    BY <1>4, <1>9, <2>1, SMTT(60) DEF TInv, SiblingsLinked
<1>11. \A u \in Threads : HeldOK(held[u])'
  BY <1>4, <1>7, ZenonT(60) DEF TInv, HeldOK
<1>12. \A y, z : Above(y, z) => Above(y, z)'
  BY <1>4, Zenon DEF Above
<1>13. ASSUME NEW u \in Threads PROVE OpOK(u, op[u])'
  <2>1. PICK q : q = op[u] /\ OpOK(u, q)
    BY ZenonT(60) DEF TInv
  <2>2. \A k : NoOwnCopy(u, q, k) => NoOwnCopy(u, q, k)'
    BY <1>4, Zenon DEF NoOwnCopy
  <2>3. Climbing(q)'
    BY <1>7, <1>12, <2>1, ZenonT(60) DEF OpOK, Climbing
  <2>4. Searching(u, q)'
    BY <1>4, <2>1, <2>2, ZenonT(60) DEF OpOK, Searching
  <2>5. Creating(u, q)'
    BY <1>4, <1>7, <2>1, ZenonT(60) DEF OpOK, Creating
  <2>6. OpOK(u, q)'
    BY <1>7, <2>1, <2>3, <2>4, <2>5, ZenonT(60) DEF OpOK
  <2>7. QED
    BY <1>4, <2>1, <2>6, Zenon
<1>14. QED
  BY <1>5, <1>6, <1>8, <1>10, <1>11, <1>13, ZenonT(60) DEF TInv

(* The head was still the one that the new node points to: the node is now *)
(* the newest child, for all to see, and every list is linked.             *)
LEMMA AppendLinksKeeps ==
  ASSUME TInv, NEW t \in Threads, Append1(t), NEW o, o = op[t],
         head[Here(o)] = next[o.new]
  PROVE  TInv'
<1>1. PICK x, p : x = o.new /\ p = Here(o)
  BY Zenon
<1>2. /\ o.pc = "append" /\ o \in Op /\ OpOK(t, o) /\ mG /\ TypeOK /\ ListsMade
      /\ x \in Ptrs /\ ~Published(x) /\ kids[x] = << >>
      /\ label[x] = Wanted(o) /\ parent[x] = p /\ label[x] # Null
      /\ m_nodeblock[t] # Null /\ x[1] = m_nodeblock[t] /\ owner[x[1]] = t
      /\ index[m_nodeblock[t]] + Needed(o) <= Capacity + 1
      /\ NoOwnCopy(t, o, 0) /\ (Copying(o) \/ o.todo # << >>)
  BY <1>1, NewNode DEF Append1, TInv
<1>3. Published(p) /\ p \in Nodes /\ p # x
  BY <1>1, <1>2, HereNode, ZenonT(60)
<1>4. PICK L \in Nat : L = Len(kids[p])
  BY <1>3, ChildList, ZenonT(60)
<1>5. PICK more : more = (~Copying(o) /\ Len(o.todo) > 1)
  BY Zenon
<1>6. PICK n : n = [Arrive(o, x) EXCEPT !.new = Null,
                                        !.pc = IF more THEN "create" ELSE "first_child"]
  BY Zenon
<1>7. /\ n \in Op /\ n.pc = (IF more THEN "create" ELSE "first_child") /\ n.node = x
      /\ Len(n.todo) <= MaxPath
      /\ ~Copying(o) => n.copy = << >> /\ Len(n.todo) = Len(o.todo) - 1
  <2>1. PICK a : a = Arrive(o, x)
    BY Zenon
  <2>2. /\ a \in Op /\ a.node = x /\ Len(a.todo) <= MaxPath
        /\ ~Copying(o) => a.copy = << >> /\ Len(a.todo) = Len(o.todo) - 1
    BY <1>2, <2>1, ArriveOK, ZenonT(60)
  <2>3. PICK c \in {"create", "first_child"} : c = IF more THEN "create" ELSE "first_child"
    BY Zenon
  <2>4. n = [a EXCEPT !.new = Null, !.pc = c]
    BY <1>6, <2>1, <2>3, Zenon
  <2>5. n \in Op /\ n.pc = c /\ n.node = a.node /\ n.todo = a.todo /\ n.copy = a.copy
    BY <2>2, <2>4, Zenon DEF Op
  <2>6. QED
    BY <2>2, <2>3, <2>5, Zenon
<1>8. /\ head' = [head EXCEPT ![p] = x]
      /\ kids' = [kids EXCEPT ![p] = Append(kids[p], x)]
      /\ op' = [op EXCEPT ![t] = n]
      /\ UNCHANGED <<mG, life, held, label, parent, next>>
      /\ UNCHANGED <<next_block, index, m_nodeblock, owner>>
  BY <1>1, <1>5, <1>6, ZenonT(60) DEF Append1, Moves
<1>9. /\ kids[p] \in Seq(Ptrs) /\ kids'[p] = Append(kids[p], x) /\ head'[p] = x
      /\ Len(kids'[p]) = L + 1 /\ kids'[p][L + 1] = x
      /\ \A i \in 1..L : kids'[p][i] = kids[p][i]
      /\ \A q \in Nodes : q # p => kids'[q] = kids[q] /\ head'[q] = head[q]
  <2>1. kids[p] \in Seq(Ptrs) /\ kids'[p] = Append(kids[p], x) /\ head'[p] = x
    BY <1>2, <1>3, <1>8, ZenonT(60) DEF TypeOK, Nodes
  <2>2. \A q \in Nodes : q # p => kids'[q] = kids[q] /\ head'[q] = head[q]
    BY <1>2, <1>8, ZenonT(60) DEF TypeOK, Nodes
  <2>3. /\ Len(kids'[p]) = L + 1 /\ kids'[p][L + 1] = x
        /\ \A i \in 1..L : kids'[p][i] = kids[p][i]
    BY <1>2, <1>4, <2>1, SMTT(60)
  <2>4. QED
    BY <2>1, <2>2, <2>3, Zenon
<1>9a. \A i : i \in 1..(L + 1) <=> i \in 1..L \/ i = L + 1
  BY ONLY <1>4
<1>9b. \A q \in Nodes : \A i \in 1..Len(kids[q]) :
         i \in 1..Len(kids'[q]) /\ kids'[q][i] = kids[q][i]
  BY <1>4, <1>9, <1>9a, Zenon
<1>9c. \A q \in Nodes : \A i \in 1..Len(kids'[q]) :
         \/ q = p /\ i = L + 1
         \/ i \in 1..Len(kids[q]) /\ kids'[q][i] = kids[q][i]
  BY <1>4, <1>9, <1>9a, Zenon
<1>10. TypeOK'
  <2>1. head' \in [Ptrs \cup {Root} -> Ptrs \cup {Null}]
    BY <1>2, <1>3, <1>8, Zenon DEF TypeOK
  <2>2. kids' \in [Ptrs \cup {Root} -> Seq(Ptrs)]
    <3>1. Append(kids[p], x) \in Seq(Ptrs)
      BY <1>2, <1>9
    <3>2. QED
      BY <1>2, <1>8, <3>1, Zenon DEF TypeOK
  <2>3. op' \in [Threads -> Op]
    BY <1>2, <1>7, <1>8, Zenon DEF TypeOK
  <2>4. QED
    BY <1>2, <1>8, <2>1, <2>2, <2>3, Zenon DEF TypeOK
<1>11. NothingYet' /\ BlocksOwned' /\ BlocksFilled'
  BY <1>2, <1>8, ZenonT(60) DEF TInv, NothingYet, BlocksOwned, BlocksFilled
<1>12. \A z : Published(z)' <=> Published(z) \/ z = x
  <2>1. ASSUME NEW z, Published(z) PROVE Published(z)'
    <3>1. CASE z = Root
      BY <3>1, Zenon DEF Published
    <3>2. ASSUME NEW q \in Nodes, NEW i \in 1..Len(kids[q]), kids[q][i] = z
          PROVE  Published(z)'
      <4>1. i \in 1..Len(kids'[q]) /\ kids'[q][i] = z
        BY <1>9b, <3>2, Zenon
      <4>2. QED
        BY <4>1, Zenon DEF Published
    <3>3. QED
      BY <2>1, <3>1, <3>2, Zenon DEF Published
  <2>2. Published(x)'
    <3>1. L + 1 \in 1..Len(kids'[p]) /\ kids'[p][L + 1] = x
      BY <1>9, <1>9a, Zenon
    <3>2. QED
      BY <1>3, <3>1, Zenon DEF Published
  <2>3. ASSUME NEW z, Published(z)', z # x PROVE Published(z)
    <3>1. CASE z = Root
      BY <3>1, Zenon DEF Published
    <3>2. ASSUME NEW q \in Nodes, NEW i \in 1..Len(kids'[q]), kids'[q][i] = z
          PROVE  Published(z)
      <4>1. i \in 1..Len(kids[q]) /\ kids[q][i] = z
        BY <1>9, <1>9c, <2>3, <3>2, Zenon
      <4>2. QED
        BY <4>1, ZenonT(60) DEF Published
    <3>3. QED
      BY <2>3, <3>1, <3>2, ZenonT(60) DEF Published
  <2>4. QED
    BY <2>1, <2>2, <2>3, Zenon
<1>13. ListsMade'
  <2>1. ASSUME NEW q \in Nodes, NEW i \in 1..Len(kids'[q])
        PROVE  label'[kids'[q][i]] # Null /\ parent'[kids'[q][i]] = q
    <3>1. CASE q = p /\ i = L + 1
      BY <1>2, <1>8, <1>9, <3>1, ZenonT(60)
    <3>2. CASE ~(q = p /\ i = L + 1)
      <4>1. i \in 1..Len(kids[q]) /\ kids'[q][i] = kids[q][i]
        BY <1>9c, <3>2, Zenon
      <4>2. PICK y : y = kids[q][i]
        BY Zenon
      <4>3. label[y] # Null /\ parent[y] = q
        BY <1>2, <4>1, <4>2, Zenon DEF ListsMade
      <4>4. label' = label /\ parent' = parent
        BY <1>8, Zenon
      <4>5. QED
        BY <4>1, <4>2, <4>3, <4>4, Zenon
    <3>3. QED
      BY <3>1, <3>2, ZenonT(60)
  <2>2. ASSUME NEW q \in Ptrs, label'[q] = Null PROVE kids'[q] = << >> /\ parent'[q] = Null
    <3>1. q # p
      BY <1>2, <1>3, <1>8, <2>2, PublishedNodes, NullAssumption, ZenonT(60)
    <3>2. QED
      <4>1. kids'[q] = kids[q] /\ parent' = parent /\ label' = label
        BY <1>8, <1>9, <3>1, Zenon DEF Nodes
      <4>2. QED
        BY <1>2, <2>2, <4>1, Zenon DEF ListsMade
  <2>3. ASSUME NEW q \in Ptrs, label'[q] # Null PROVE Published(parent[q])'
    <3>1. PICK r : r = parent[q]
      BY ZenonT(60)
    <3>2. Published(r)' /\ r = parent'[q]
      BY <1>2, <1>8, <1>12, <2>3, <3>1, ZenonT(60) DEF ListsMade
    <3>3. QED
      BY <3>2, ZenonT(60)
  <2>4. QED
    BY <2>1, <2>2, <2>3, Zenon DEF ListsMade
<1>14. SiblingsLinked'
  <2> SUFFICES ASSUME NEW q \in Created' \cup {Root}
               PROVE  /\ head'[q] = IF kids'[q] = << >> THEN Null ELSE kids'[q][Len(kids'[q])]
                      /\ \A i \in 1..Len(kids'[q]) :
                           /\ parent'[kids'[q][i]] = q
                           /\ next'[kids'[q][i]] = IF i = 1 THEN Null ELSE kids'[q][i - 1]
    BY Zenon DEF SiblingsLinked
  <2>0. q \in Created \cup {Root} /\ q \in Nodes
    BY <1>8, Zenon DEF Created, Nodes
  <2>1. CASE q = p
    <3>1. kids'[q] # << >>
      BY <1>4, <1>9, <2>1
    <3>2. head'[q] = IF kids'[q] = << >> THEN Null ELSE kids'[q][Len(kids'[q])]
      BY <1>9, <2>1, <3>1, Zenon
    <3>3. next[x] = IF L = 0 THEN Null ELSE kids[p][L]
      BY <1>1, <1>3, <1>4, ChildList, Zenon
    <3>4. ASSUME NEW i \in 1..Len(kids'[q])
          PROVE  /\ parent'[kids'[q][i]] = q
                 /\ next'[kids'[q][i]] = IF i = 1 THEN Null ELSE kids'[q][i - 1]
      <4>1. CASE i = L + 1
        <5>1. kids'[q][i] = x /\ parent'[x] = q
          BY <1>2, <1>8, <1>9, <2>1, <4>1, Zenon
        <5>2. CASE L = 0
          <6>1. i = 1
            BY ONLY <4>1, <5>2
          <6>2. QED
            BY <1>8, <3>3, <5>1, <5>2, <6>1, Zenon
        <5>3. CASE L # 0
          <6>1. i # 1 /\ i - 1 = L /\ L \in 1..L
            BY ONLY <1>4, <4>1, <5>3
          <6>2. kids'[q][i - 1] = kids[p][L]
            BY <1>9, <2>1, <6>1, Zenon
          <6>3. QED
            BY <1>8, <3>3, <5>1, <5>3, <6>1, <6>2, Zenon
        <5>4. QED
          BY <5>2, <5>3, Zenon
      <4>2. CASE i # L + 1
        <5>1. i \in 1..L
          BY <1>9, <1>9a, <2>1, <4>2, Zenon
        <5>2. kids'[q][i] = kids[p][i] /\ (i # 1 => kids'[q][i - 1] = kids[p][i - 1])
          <6>1. i # 1 => i - 1 \in 1..L
            BY ONLY <1>4, <5>1
          <6>2. QED
            BY <1>9, <2>1, <5>1, <6>1, Zenon
        <5>3. /\ parent[kids[p][i]] = p
              /\ next[kids[p][i]] = IF i = 1 THEN Null ELSE kids[p][i - 1]
          BY <1>3, <1>4, <5>1, ChildList, ZenonT(60)
        <5>4. QED
          BY <1>8, <2>1, <5>2, <5>3, ZenonT(60)
      <4>3. QED
        BY <4>1, <4>2, Zenon
    <3>5. QED
      BY <3>2, <3>4, ZenonT(60)
  <2>2. CASE q # p
    <3>1. kids'[q] = kids[q] /\ head'[q] = head[q] /\ parent' = parent /\ next' = next
      BY <1>8, <1>9, <2>0, <2>2, ZenonT(60)
    <3>2. /\ head[q] = IF kids[q] = << >> THEN Null ELSE kids[q][Len(kids[q])]
          /\ \A i \in 1..Len(kids[q]) :
               /\ parent[kids[q][i]] = q
               /\ next[kids[q][i]] = IF i = 1 THEN Null ELSE kids[q][i - 1]
      BY <2>0, Zenon DEF TInv, SiblingsLinked
    <3>3. QED
      BY <3>1, <3>2, Zenon
  <2>3. QED
    BY <2>1, <2>2, Zenon
<1>15. OneCopyPerThread'
  <2> SUFFICES ASSUME NEW q \in Nodes, NEW i \in 1..Len(kids'[q]), NEW j \in 1..Len(kids'[q]),
                      label'[kids'[q][i]] = label'[kids'[q][j]],
                      owner'[kids'[q][i][1]] = owner'[kids'[q][j][1]]
               PROVE  i = j
    BY Zenon DEF OneCopyPerThread, Nodes
  <2>1. CASE q # p
    <3>1. kids'[q] = kids[q] /\ label' = label /\ owner' = owner
      BY <1>8, <1>9, <2>1, Zenon
    <3>2. \A k, l \in 1..Len(kids[q]) :
            label[kids[q][k]] = label[kids[q][l]] /\ owner[kids[q][k][1]] = owner[kids[q][l][1]]
              => k = l
      BY Zenon DEF TInv, OneCopyPerThread, Nodes
    <3>3. QED
      BY <3>1, <3>2, Zenon
  <2>2. CASE q = p
    <3>1. \A k \in 1..L : owner[kids[p][k][1]] = t => label[kids[p][k]] # label[x]
      <4>1. \A k \in 1..Len(kids[p]) :
              k > 0 /\ owner[kids[p][k][1]] = t => label[kids[p][k]] # label[x]
        BY <1>1, <1>2, Zenon DEF NoOwnCopy
      <4>2. \A k \in 1..L : k \in 1..Len(kids[p]) /\ k > 0
        BY ONLY <1>4
      <4>3. QED
        BY <4>1, <4>2, Zenon
    <3>2. CASE i \in 1..L /\ j \in 1..L
      <4>1. kids'[p][i] = kids[p][i] /\ kids'[p][j] = kids[p][j]
        BY <1>9, <3>2, ZenonT(60)
      <4>2. /\ label[kids[p][i]] = label[kids[p][j]]
            /\ owner[kids[p][i][1]] = owner[kids[p][j][1]]
        BY <1>8, <2>2, <4>1, ZenonT(60)
      <4>3. QED
        BY <1>3, <1>4, <3>2, <4>2, ZenonT(60) DEF TInv, OneCopyPerThread, Nodes
    <3>3. CASE i = L + 1 /\ j \in 1..L
      <4>1. kids'[p][i] = x /\ kids'[p][j] = kids[p][j]
        BY <1>9, <3>3, Zenon
      <4>2. /\ label[x] = label[kids[p][j]]
            /\ owner[x[1]] = owner[kids[p][j][1]]
        BY <1>8, <2>2, <4>1, Zenon
      <4>3. QED
        BY <1>2, <3>1, <3>3, <4>2, Zenon
    <3>4. CASE j = L + 1 /\ i \in 1..L
      <4>1. kids'[p][j] = x /\ kids'[p][i] = kids[p][i]
        BY <1>9, <3>4, Zenon
      <4>2. /\ label[x] = label[kids[p][i]]
            /\ owner[x[1]] = owner[kids[p][i][1]]
        BY <1>8, <2>2, <4>1, Zenon
      <4>3. QED
        BY <1>2, <3>1, <3>4, <4>2, Zenon
    <3>5. QED
      <4>1. (i \in 1..L \/ i = L + 1) /\ (j \in 1..L \/ j = L + 1)
        BY <1>9, <1>9a, <2>2, Zenon
      <4>2. QED
        BY <3>2, <3>3, <3>4, <4>1, Zenon
  <2>3. QED
    BY <2>1, <2>2, Zenon
<1>16. \A u \in Threads : HeldOK(held[u])'
  BY <1>8, <1>12, ZenonT(60) DEF TInv, HeldOK
<1>17. \A y, z : Above(y, z) => Above(y, z)'
  BY <1>8, ZenonT(60) DEF Above
<1>18. ASSUME NEW u \in Threads, u # t PROVE OpOK(u, op[u])'
  <2>1. PICK q : q = op[u]
    BY ZenonT(60)
  <2>2. OpOK(u, q) /\ q \in Op
    BY <1>2, <2>1, ZenonT(60) DEF TInv, TypeOK
  <2>3. PICK h : h = Here(q)
    BY ZenonT(60)
  <2>4. h \in Nodes /\ kids[h] \in Seq(Ptrs)
    BY <1>2, <2>2, <2>3, HereNode, ZenonT(60) DEF TypeOK, Nodes
  <2>5. Climbing(q)'
    BY <1>12, <1>17, <2>2, ZenonT(60) DEF OpOK, Climbing
  <2>6. \A k \in Nat : NoOwnCopy(u, q, k) => NoOwnCopy(u, q, k)'
    <3> SUFFICES ASSUME NEW k \in Nat, NoOwnCopy(u, q, k), NEW j \in 1..Len(kids'[h]), j > k,
                        owner'[kids'[h][j][1]] = u
                 PROVE  label'[kids'[h][j]] # Wanted(q)
      BY <2>3, ZenonT(60) DEF NoOwnCopy
    <3>1. ~(h = p /\ j = L + 1)
      BY <1>2, <1>8, <1>9, <1>18, ZenonT(60)
    <3>2. j \in 1..Len(kids[h]) /\ kids'[h][j] = kids[h][j]
      BY <1>9c, <2>4, <3>1, Zenon
    <3>3. QED
      BY <1>8, <2>3, <3>2, ZenonT(60) DEF NoOwnCopy
  <2>7. Searching(u, q)'
    <3>1. CASE q.pc = "scan"
      <4>1. PICK k \in 0..Len(kids[h]) :
              /\ q.cur = IF k = 0 THEN Null ELSE kids[h][k]
              /\ NoOwnCopy(u, q, k)
        BY <2>2, <2>3, <3>1, ZenonT(60) DEF OpOK, Searching
      <4>2. k \in Nat /\ k \in 0..Len(kids'[h]) /\ (k # 0 => kids'[h][k] = kids[h][k])
        <5>1. Len(kids[h]) \in Nat /\ L \in Nat
          BY ONLY <1>4, <2>4
        <5>2. CASE h = p
          <6>1. Len(kids'[h]) = L + 1 /\ Len(kids[h]) = L
            BY <1>4, <1>9, <5>2, Zenon
          <6>2. k \in Nat /\ k \in 0..Len(kids'[h]) /\ (k # 0 => k \in 1..L)
            BY ONLY <5>1, <6>1, k \in 0..Len(kids[h])
          <6>3. QED
            BY <1>9, <5>2, <6>2, Zenon
        <5>3. CASE h # p
          <6>1. kids'[h] = kids[h]
            BY <1>9, <2>4, <5>3, Zenon
          <6>2. k \in Nat
            BY ONLY <5>1, k \in 0..Len(kids[h])
          <6>3. QED
            BY <6>1, <6>2, Zenon
        <5>4. QED
          BY <5>2, <5>3, Zenon
      <4>3. NoOwnCopy(u, q, k)'
        BY <2>6, <4>1, <4>2, Zenon
      <4>4. \E i \in 0..Len(kids'[h]) :
              /\ q.cur = IF i = 0 THEN Null ELSE kids'[h][i]
              /\ NoOwnCopy(u, q, i)'
        BY <4>1, <4>2, <4>3, Zenon
      <4>5. QED
        BY <2>2, <2>3, <3>1, <4>4, ZenonT(60) DEF OpOK, Searching
    <3>2. CASE q.pc # "scan"
      BY <2>2, <2>6, <3>2, ZenonT(60) DEF OpOK, Searching
    <3>3. QED
      BY <3>1, <3>2, ZenonT(60)
  <2>8. Creating(u, q)'
    <3>1. CASE q.pc = "append"
      <4>1. q.new \in Ptrs /\ q.new # x /\ q.new # p /\ ~Published(q.new) /\ kids[q.new] = << >>
        <5>1. q.new \in Ptrs /\ ~Published(q.new) /\ kids[q.new] = << >>
          BY <2>1, <3>1, NewNode, ZenonT(60)
        <5>2. q.new # x
          BY <1>1, <1>2, <1>18, <2>1, <3>1, NewDiffer, Zenon
        <5>3. QED
          BY <1>3, <5>1, <5>2, Zenon
      <4>2. ~Published(q.new)' /\ kids'[q.new] = << >>
        BY <1>9, <1>12, <4>1, ZenonT(60) DEF Nodes
      <4>3. QED
        BY <1>8, <2>2, <3>1, <4>2, ZenonT(60) DEF OpOK, Creating
    <3>2. CASE q.pc # "append"
      BY <1>8, <2>2, <3>2, ZenonT(60) DEF OpOK, Creating
    <3>3. QED
      BY <3>1, <3>2, ZenonT(60)
  <2>9. OpOK(u, q)'
    BY <1>12, <2>2, <2>5, <2>7, <2>8, ZenonT(60) DEF OpOK
  <2>10. op'[u] = q
    BY <1>2, <1>8, <1>18, <2>1, ZenonT(60) DEF TypeOK
  <2>11. QED
    BY <2>9, <2>10, ZenonT(60)
<1>19. OpOK(t, op[t])'
  <2>1. Published(n.node)'
    BY <1>7, <1>12, Zenon
  <2>2. op'[t] = n
    BY <1>2, <1>8, ZenonT(60) DEF TypeOK
  <2>3. CASE ~more
    BY <1>7, <2>1, <2>2, <2>3, ZenonT(60) DEF OpOK, Climbing, Searching, Creating
  <2>4. CASE more
    <3>1. n.pc = "create" /\ ~Copying(n) /\ Len(n.todo) = Len(o.todo) - 1 /\ Len(o.todo) > 1
      BY <1>5, <1>7, <2>4, Zenon DEF Copying
    <3>2. n.todo # << >> /\ Needed(n) = Len(n.todo) /\ Needed(o) = Len(o.todo)
          /\ Len(o.todo) \in Nat
      <4>1. o.todo \in Seq(Labels)
        BY <1>2, Zenon DEF Op
      <4>2. Len(o.todo) \in Nat
        BY <4>1
      <4>3. n.todo # << >>
        BY <3>1, <4>2
      <4>4. QED
        BY <1>5, <2>4, <3>1, <4>2, <4>3, ZenonT(60) DEF Needed
    <3>3. Here(n) = x
      BY <1>2, <1>7, NullAssumption, ZenonT(60) DEF Here
    <3>4. kids'[x] = << >>
      BY <1>2, <1>3, <1>9, ZenonT(60) DEF Nodes
    <3>5. NoOwnCopy(t, n, 0)'
      BY <3>3, <3>4 DEF NoOwnCopy
    <3>6. index'[m_nodeblock'[t]] + Needed(n) <= Capacity
      <4>1. index[m_nodeblock[t]] \in Nat /\ Capacity \in Nat
        BY <1>2, SizeAssumption, ZenonT(60) DEF TypeOK, Capacity
      <4>2. PICK k \in Nat : k = index[m_nodeblock[t]]
        BY <4>1, Zenon
      <4>3. PICK l \in Nat : l = Len(o.todo)
        BY <3>2, Zenon
      <4>4. k + l <= Capacity + 1 /\ Needed(n) = l - 1
        BY <1>2, <3>1, <3>2, <4>2, <4>3, Zenon
      <4>5. k + (l - 1) <= Capacity
        BY ONLY <4>1, <4>4, k \in Nat, l \in Nat
      <4>6. index'[m_nodeblock'[t]] = k
        BY <1>8, <4>2, Zenon
      <4>7. QED
        BY <4>4, <4>5, <4>6, Zenon
    <3>7. Climbing(n)' /\ Searching(t, n)'
      BY <3>1, <3>2, <3>5, ZenonT(60) DEF Climbing, Searching
    <3>8. Creating(t, n)'
      BY <1>2, <1>8, <3>1, <3>6, ZenonT(60) DEF Creating
    <3>9. OpOK(t, n)'
      BY <1>7, <2>1, <3>7, <3>8, Zenon DEF OpOK
    <3>10. QED
      BY <2>2, <3>9, Zenon
  <2>5. QED
    BY <2>3, <2>4, Zenon
<1>20. QED
  BY <1>10, <1>11, <1>13, <1>14, <1>15, <1>16, <1>18, <1>19, ZenonT(60) DEF TInv

-----------------------------------------------------------------------------
(* The bootstrap nodes.                                                    *)

(* One thread sets mG, and it finds no trace of another.                   *)
LEMMA PublishGlobalKeeps ==
  ASSUME TInv, NEW t \in Threads, PublishGlobal(t)
  PROVE  TInv'
<1>1. CASE mG
  <2>1. Private /\ UNCHANGED <<mG, op, held>> /\ life' = [life EXCEPT ![t] = "ready"]
    BY <1>1, Zenon DEF PublishGlobal, nodes, Private
  <2>2. TypeOK' /\ NothingYet'
    BY <1>1, <2>1, Zenon DEF TInv, TypeOK, Private, NothingYet
  <2>3. BlocksFilled' /\ BlocksOwned' /\ SiblingsLinked' /\ OneCopyPerThread'
    BY <2>1, PrivateLists, Zenon
  <2>4. \A x : Published(x) <=> Published(x)'
    BY <2>1, Zenon DEF Published, Private
  <2>5. ListsMade'
    BY <2>1, <2>4, ZenonT(60) DEF TInv, ListsMade, Private
  <2>6. \A u \in Threads : HeldOK(held[u])'
    BY <2>1, <2>4, Zenon DEF TInv, HeldOK
  <2>7. ASSUME NEW u \in Threads PROVE OpOK(u, op[u])'
    <3>1. PICK o : o = op[u] /\ OpOK(u, o)
      BY Zenon DEF TInv
    <3>2. OpOK(u, o)'
      BY <2>1, <3>1, PrivateKeeps, Zenon
    <3>3. QED
      BY <2>1, <3>1, <3>2, Zenon
  <2>8. QED
    BY <2>2, <2>3, <2>5, <2>6, <2>7, Zenon DEF TInv
<1>2. CASE ~mG
  <2>1. /\ next_block = 1
        /\ \A b \in Blocks : index[b] = 0
        /\ \A p \in Nodes : kids[p] = << >> /\ head[p] = Null
        /\ \A u \in Threads : op[u] = Idle /\ held[u] = Null /\ m_nodeblock[u] = Null
    BY <1>2, ZenonT(60) DEF TInv, NothingYet
  <2>2. /\ mG' = TRUE /\ life' = [life EXCEPT ![t] = "ready"]
        /\ head' = [head EXCEPT ![Root] = <<0, Boot - 1>>]
        /\ index' = [index EXCEPT ![0] = Boot]
        /\ m_nodeblock' = [m_nodeblock EXCEPT ![t] = 0]
        /\ kids' = [kids EXCEPT ![Root] = [i \in 1..Boot |-> <<0, i - 1>>]]
        /\ owner' = [owner EXCEPT ![0] = t]
        /\ UNCHANGED <<next_block, op, held>>
    BY <1>2, Zenon DEF PublishGlobal
  <2>3. /\ label' = [x \in Ptrs |-> IF x[1] = 0 /\ x[2] < Boot THEN BootLabel(x[2]) ELSE Null]
        /\ parent' = [x \in Ptrs |-> IF x[1] = 0 /\ x[2] < Boot THEN Root ELSE Null]
        /\ next' = [x \in Ptrs |-> IF x[1] = 0 /\ 0 < x[2] /\ x[2] < Boot
                                   THEN <<0, x[2] - 1>> ELSE Null]
    BY <1>2, Zenon DEF PublishGlobal
  <2>4. 0 \in Blocks /\ 0 # Null /\ Boot \in Nat /\ Boot > 0
    BY SizeAssumption, NullAssumption DEF Blocks
  <2>5. \A i \in 0..(Boot - 1) : <<0, i>> \in Ptrs /\ <<0, i>>[1] = 0 /\ <<0, i>>[2] = i
    BY <2>4, SizeAssumption DEF Ptrs
  <2>6. \A x \in Ptrs : x[1] \in Blocks /\ x[2] \in Nat /\ x = <<x[1], x[2]>> /\ x # Root
    BY NullAssumption DEF Ptrs
  <2>7. \A i \in 0..(Boot - 1) : BootLabel(i) \in AnyLabel /\ BootLabel(i) # Null
    BY NullAssumption, Zenon DEF AnyLabel
  <2>8. TypeOK'
    <3>1. label' \in [Ptrs -> AnyLabel \cup {Null}]
      BY <2>3, <2>4, <2>6, <2>7
    <3>2. parent' \in [Ptrs -> MaybePtr]
      BY <2>3, Zenon DEF MaybePtr
    <3>3. next' \in [Ptrs -> Ptrs \cup {Null}]
      <4>1. \A x \in Ptrs : x[1] = 0 /\ 0 < x[2] /\ x[2] < Boot => <<0, x[2] - 1>> \in Ptrs
        BY <2>4, <2>5, <2>6
      <4>2. QED
        BY <2>3, <4>1, Zenon
    <3>4. [i \in 1..Boot |-> <<0, i - 1>>] \in Seq(Ptrs)
      BY <2>4, <2>5
    <3>5. head' \in [Ptrs \cup {Root} -> Ptrs \cup {Null}]
      BY <2>2, <2>4, <2>5 DEF TInv, TypeOK
    <3>6. QED
      BY <2>2, <2>4, <3>1, <3>2, <3>3, <3>4, <3>5, ZenonT(60) DEF TInv, TypeOK
  <2>9. /\ head'[Root] = <<0, Boot - 1>>
        /\ Len(kids'[Root]) = Boot /\ kids'[Root] # << >>
        /\ \A i \in 1..Boot : kids'[Root][i] = <<0, i - 1>>
        /\ \A p \in Ptrs : kids'[p] = << >> /\ head'[p] = Null
    <3>1. /\ kids'[Root] = [i \in 1..Boot |-> <<0, i - 1>>] /\ head'[Root] = <<0, Boot - 1>>
          /\ \A p \in Ptrs : kids'[p] = << >> /\ head'[p] = Null
      BY <2>1, <2>2, <2>6, Zenon DEF TInv, TypeOK, Nodes
    <3>2. \A i \in 1..Boot : kids'[Root][i] = <<0, i - 1>>
      BY <3>1, Zenon
    <3>3. DOMAIN kids'[Root] = 1..Boot /\ kids'[Root] \in Seq(Ptrs)
      BY <2>8, <3>1, ZenonT(60) DEF TypeOK
    <3>4. Len(kids'[Root]) = Boot
      BY <2>4, <3>3
    <3>5. kids'[Root] # << >>
      BY <2>4, <3>4, PathsFit
    <3>6. QED
      BY <3>1, <3>2, <3>4, <3>5, ZenonT(60)
  <2>10. NothingYet'
    BY <2>2, Zenon DEF NothingYet
  <2>11. BlocksFilled'
    <3>1. index'[0] = Boot /\ \A b \in Blocks : b # 0 => index'[b] = 0
      BY <2>1, <2>2, <2>4, Zenon DEF TInv, TypeOK
    <3>2. Boot <= Capacity /\ 0 <= Capacity
      BY SizeAssumption DEF Capacity
    <3>3. \A b \in Blocks : index'[b] <= Capacity /\ (b >= next_block' => index'[b] = 0)
      BY <2>1, <2>2, <3>1, <3>2, SMTT(60) DEF Blocks
    <3>4. ASSUME NEW x \in Ptrs PROVE label'[x] # Null <=> x[2] < index'[x[1]]
      BY <2>3, <2>4, <2>6, <2>7, <3>1
    <3>5. QED
      BY <2>1, <2>2, <3>3, <3>4 DEF BlocksFilled
  <2>12. BlocksOwned'
    <3>1. m_nodeblock'[t] = 0 /\ owner'[0] = t /\ next_block' = 1
      BY <2>1, <2>2, <2>4, Zenon DEF TInv, TypeOK
    <3>2. \A u \in Threads : u # t => m_nodeblock'[u] = Null
      BY <2>1, <2>2, Zenon DEF TInv, TypeOK
    <3>3. 0 < 1
      OBVIOUS
    <3>4. QED
      BY <3>1, <3>2, <3>3, Zenon DEF BlocksOwned
  <2>13. Published(Root)'
    BY Zenon DEF Published
  <2>14. \A i \in 1..Boot : /\ label'[<<0, i - 1>>] = BootLabel(i - 1)
                            /\ parent'[<<0, i - 1>>] = Root
                            /\ next'[<<0, i - 1>>] = IF i = 1 THEN Null ELSE <<0, i - 2>>
    <3> SUFFICES ASSUME NEW i \in 1..Boot
                 PROVE  /\ label'[<<0, i - 1>>] = BootLabel(i - 1)
                        /\ parent'[<<0, i - 1>>] = Root
                        /\ next'[<<0, i - 1>>] = IF i = 1 THEN Null ELSE <<0, i - 2>>
      BY Zenon
    <3>1. PICK x : x = <<0, i - 1>>
      BY Zenon
    <3>2. x \in Ptrs /\ x[1] = 0 /\ x[2] = i - 1 /\ i - 1 < Boot /\ (i - 1) - 1 = i - 2
      BY <2>4, <2>5, <3>1
    <3>3. QED
      BY <2>3, <3>1, <3>2
  <2>15. ListsMade'
    <3>1. \A p \in Nodes : \A i \in 1..Len(kids'[p]) :
            label'[kids'[p][i]] # Null /\ parent'[kids'[p][i]] = p
      <4>1. \A p \in Ptrs : Len(kids'[p]) = 0
        BY <2>9, PathsFit, Zenon
      <4>2. \A i \in 1..Boot : BootLabel(i - 1) # Null
        BY <2>4, <2>7
      <4>3. ASSUME NEW i \in 1..Boot
            PROVE  label'[kids'[Root][i]] # Null /\ parent'[kids'[Root][i]] = Root
        <5>1. kids'[Root][i] = <<0, i - 1>>
          BY <2>9, Zenon
        <5>2. label'[<<0, i - 1>>] # Null /\ parent'[<<0, i - 1>>] = Root
          BY <2>14, <4>2, ZenonT(60)
        <5>3. QED
          BY <5>1, <5>2, Zenon
      <4>4. QED
        BY <2>9, <4>1, <4>3 DEF Nodes
    <3>2. \A p \in Ptrs : label'[p] = Null => kids'[p] = << >> /\ parent'[p] = Null
      BY <2>3, <2>4, <2>6, <2>7, <2>9
    <3>3. ASSUME NEW p \in Ptrs, label'[p] # Null PROVE Published(parent[p])'
      <4>1. parent'[p] = Root
        BY <2>3, <3>3, Zenon
      <4>2. QED
        BY <2>13, <4>1, Zenon
    <3>4. QED
      BY <3>1, <3>2, <3>3, Zenon DEF ListsMade
  <2>16. SiblingsLinked'
    <3> SUFFICES ASSUME NEW q \in Created' \cup {Root}
                 PROVE  /\ head'[q] = IF kids'[q] = << >> THEN Null ELSE kids'[q][Len(kids'[q])]
                        /\ \A i \in 1..Len(kids'[q]) :
                             /\ parent'[kids'[q][i]] = q
                             /\ next'[kids'[q][i]] = IF i = 1 THEN Null ELSE kids'[q][i - 1]
      BY Zenon DEF SiblingsLinked
    <3>1. CASE q = Root
      <4>1. Boot \in 1..Boot /\ kids'[Root][Boot] = <<0, Boot - 1>>
        BY <2>4, <2>9
      <4>2. head'[q] = IF kids'[q] = << >> THEN Null ELSE kids'[q][Len(kids'[q])]
        BY <2>9, <3>1, <4>1, Zenon
      <4>3. ASSUME NEW i \in 1..Boot, i # 1 PROVE kids'[Root][i - 1] = <<0, i - 2>>
        <5>1. i - 1 \in 1..Boot /\ (i - 1) - 1 = i - 2
          BY <2>4, <4>3
        <5>2. QED
          BY <2>9, <5>1, Zenon
      <4>4. ASSUME NEW i \in 1..Boot
            PROVE  /\ parent'[kids'[Root][i]] = Root
                   /\ next'[kids'[Root][i]] = IF i = 1 THEN Null ELSE kids'[Root][i - 1]
        <5>1. kids'[Root][i] = <<0, i - 1>>
          BY <2>9, Zenon
        <5>2. /\ parent'[kids'[Root][i]] = Root
              /\ next'[kids'[Root][i]] = IF i = 1 THEN Null ELSE <<0, i - 2>>
          BY <2>14, <5>1, Zenon
        <5>3. QED
          BY <4>3, <5>2, Zenon
      <4>5. QED
        BY <2>9, <3>1, <4>2, <4>4, Zenon
    <3>2. CASE q # Root
      <4>1. q \in Ptrs
        BY <3>2, Zenon DEF Created
      <4>2. QED
        BY <2>9, <4>1, PathsFit
    <3>3. QED
      BY <3>1, <3>2, Zenon
  <2>17. OneCopyPerThread'
    <3> SUFFICES ASSUME NEW q \in Nodes, NEW i \in 1..Len(kids'[q]), NEW j \in 1..Len(kids'[q]),
                        label'[kids'[q][i]] = label'[kids'[q][j]]
                 PROVE  i = j
      BY Zenon DEF OneCopyPerThread, Nodes
    <3>1. q = Root
      BY <2>9, PathsFit DEF Nodes
    <3>2. i \in 1..Boot /\ j \in 1..Boot /\ BootLabel(i - 1) = BootLabel(j - 1)
      <4>1. i \in 1..Boot /\ j \in 1..Boot
        BY <2>9, <3>1, Zenon
      <4>2. kids'[q][i] = <<0, i - 1>> /\ kids'[q][j] = <<0, j - 1>>
        BY <2>9, <3>1, <4>1, Zenon
      <4>3. label'[kids'[q][i]] = BootLabel(i - 1) /\ label'[kids'[q][j]] = BootLabel(j - 1)
        BY <2>14, <4>1, <4>2, ZenonT(60)
      <4>4. QED
        BY <4>1, <4>3, ZenonT(60)
    <3>3. i - 1 = j - 1
      BY <3>2, Zenon DEF BootLabel
    <3>4. QED
      BY <2>4, <3>2, <3>3
  <2>18. \A u \in Threads : HeldOK(held[u])'
    BY <2>1, <2>2, Zenon DEF HeldOK
  <2>19. Idle.pc = "idle" /\ Idle.todo = << >> /\ Idle.node = Null
    BY Zenon DEF Idle
  <2>20. \A u \in Threads : OpOK(u, op[u])'
    <3> SUFFICES ASSUME NEW u \in Threads PROVE OpOK(u, Idle)'
      BY <2>1, <2>2, Zenon
    <3>1. Climbing(Idle)'
      BY <2>19, Zenon DEF Climbing
    <3>2. Searching(u, Idle)'
      BY <2>19, Zenon DEF Searching
    <3>3. Creating(u, Idle)'
      BY <2>19, Zenon DEF Creating
    <3>4. QED
      BY <2>19, <3>1, <3>2, <3>3, EmptyFits, Zenon DEF OpOK
  <2>21. QED
    BY <2>8, <2>10, <2>11, <2>12, <2>15, <2>16, <2>17, <2>18, <2>20, Zenon DEF TInv
<1>3. QED
  BY <1>1, <1>2, Zenon

-----------------------------------------------------------------------------
(* The invariant, and what follows from it.                                *)

LEMMA TreeInductive == TInv /\ [Next]_vars => TInv'
<1> SUFFICES ASSUME TInv, [Next]_vars PROVE TInv'
  BY Zenon
<1>1. CASE UNCHANGED vars
  <2>1. Private /\ UNCHANGED <<mG, life, op, held>>
    BY <1>1, Zenon DEF vars, nodes, Private
  <2>2. TypeOK' /\ NothingYet'
    BY <2>1, Zenon DEF TInv, TypeOK, NothingYet, Private
  <2>3. BlocksFilled' /\ BlocksOwned' /\ SiblingsLinked' /\ OneCopyPerThread'
    BY <2>1, PrivateLists, Zenon
  <2>4. \A x : Published(x) <=> Published(x)'
    BY <2>1, Zenon DEF Published, Private
  <2>5. ListsMade' /\ \A u \in Threads : HeldOK(held[u])'
    BY <2>1, <2>4, ZenonT(60) DEF TInv, ListsMade, HeldOK, Private
  <2>6. ASSUME NEW u \in Threads PROVE OpOK(u, op[u])'
    <3>1. PICK o : o = op[u] /\ OpOK(u, o)
      BY Zenon DEF TInv
    <3>2. OpOK(u, o)'
      BY <2>1, <3>1, PrivateKeeps, Zenon
    <3>3. QED
      BY <2>1, <3>1, <3>2, Zenon
  <2>7. QED
    BY <2>2, <2>3, <2>5, <2>6, ZenonT(60) DEF TInv
<1>2. ASSUME NEW t \in Threads, Step(t) PROVE TInv'
  <2>1. CASE LoadGlobal(t)
    BY <2>1, LoadGlobalKeeps, Zenon
  <2>2. CASE PublishGlobal(t)
    BY <2>2, PublishGlobalKeeps, Zenon
  <2>3. CASE FindParent(t)
    BY <2>3, FindParentKeeps, Zenon
  <2>4. CASE Climb(t)
    BY <2>4, ClimbKeeps, Zenon
  <2>5. CASE FirstChild(t)
    BY <2>5, FirstChildKeeps, Zenon
  <2>6. CASE Scan(t)
    BY <2>6, ScanKeeps, Zenon
  <2>7. CASE HaveFree(t)
    BY <2>7, HaveFreeKeeps, Zenon
  <2>8. CASE TakeBlock(t)
    BY <2>8, TakeBlockKeeps, Zenon
  <2>9. CASE PoolFull(t)
    BY <2>9, PoolFullKeeps, Zenon
  <2>10. CASE CreateNode(t)
    BY <2>10, CreateNodeKeeps, Zenon
  <2>11. CASE Append1(t)
    BY <2>11, AppendFailsKeeps, AppendLinksKeeps, Zenon
  <2>12. CASE Return(t)
    BY <2>12, ReturnKeeps, Zenon
  <2>13. QED
    BY <1>2, <2>1, <2>2, <2>3, <2>4, <2>5, <2>6, <2>7, <2>8, <2>9, <2>10, <2>11, <2>12, Zenon DEF Step
<1>3. QED
  BY <1>1, <1>2, RequestKeeps, Zenon DEF Next

LEMMA TreeInitially == Init => TInv
<1> SUFFICES ASSUME Init PROVE TInv
  BY Zenon
<1>1. Idle \in Op /\ Idle.pc = "idle" /\ Idle.todo = << >> /\ Idle.node = Null
  BY PathsFit, Zenon DEF Idle, Op, MaybePtr
<1>2. << >> \in Seq(Ptrs)
  OBVIOUS
<1>3. TypeOK
  BY <1>1, <1>2, ZenonT(60) DEF Init, TypeOK, MaybePtr
<1>4. NothingYet
  BY Zenon DEF Init, NothingYet, Nodes
<1>5. Capacity \in Nat
  BY SizeAssumption, Zenon DEF Capacity
<1>6. BlocksFilled
  <2>1. \A x \in Ptrs : x[1] \in Blocks /\ x[2] \in Nat
    BY DEF Ptrs
  <2>2. QED
    BY <1>5, <2>1 DEF Init, BlocksFilled
<1>7. BlocksOwned
  BY Zenon DEF Init, BlocksOwned
<1>8. \A p \in Nodes : kids[p] = << >> /\ Len(kids[p]) = 0 /\ head[p] = Null
  BY PathsFit, Zenon DEF Init, Nodes
<1>9. ListsMade
  <2>1. \A p \in Ptrs : label[p] = Null /\ parent[p] = Null
    BY Zenon DEF Init
  <2>2. QED
    BY <1>8, <2>1 DEF ListsMade, Nodes
<1>10. SiblingsLinked /\ OneCopyPerThread
  BY <1>8 DEF SiblingsLinked, OneCopyPerThread, Nodes, Created
<1>11. \A t \in Threads : HeldOK(held[t])
  BY Zenon DEF Init, HeldOK
<1>12. \A t \in Threads : op[t] = Idle
  BY Zenon DEF Init
<1>13. ASSUME NEW t \in Threads PROVE OpOK(t, op[t])
  <2>1. OpOK(t, Idle)
    <3>1. Climbing(Idle)
      BY <1>1, Zenon DEF Climbing
    <3>2. Searching(t, Idle)
      BY <1>1, Zenon DEF Searching
    <3>3. Creating(t, Idle)
      BY <1>1, Zenon DEF Creating
    <3>4. QED
      BY <1>1, <3>1, <3>2, <3>3, EmptyFits, Zenon DEF OpOK
  <2>2. QED
    BY <1>12, <2>1, Zenon
<1>14. QED
  BY <1>3, <1>4, <1>6, <1>7, <1>9, <1>10, <1>11, <1>13, Zenon DEF TInv

LEMMA TreeInvariant == Spec => []TInv
BY TreeInitially, TreeInductive, PTL DEF Spec

(* The tree that threads build without a lock is intact at every step:     *)
(* however their loads and compare-and-swaps interleave, blocks have one   *)
(* user, every published child is linked where it belongs, newest first,   *)
(* and a thread makes no second copy of a path (get_path, append).         *)
THEOREM TreeAlwaysSound == Spec => []TreeSound
<1>1. TInv => TreeSound
  BY Zenon DEF TInv, TreeSound
<1>2. QED
  BY <1>1, TreeInvariant, PTL

(* "tree nodes can only be added, but not moved or removed": no step       *)
(* changes the label or a link of a node that another thread can find.     *)
THEOREM TreeNodesFixed == Spec => NodesFixed
<1> DEFINE Fixed == \A p \in Ptrs \cup {Root} : \A i \in 1..Len(kids[p]) :
                      LET x == kids[p][i]
                      IN  label'[x] = label[x] /\ parent'[x] = p /\ next'[x] = next[x]
<1>1. TInv /\ [Next]_vars => [Fixed]_vars
  <2> SUFFICES ASSUME TInv, Next, NEW p \in Nodes, NEW i \in 1..Len(kids[p]),
                      NEW x, x = kids[p][i]
               PROVE  label'[x] = label[x] /\ parent'[x] = p /\ next'[x] = next[x]
    BY DEF Nodes
  <2>1. /\ x \in Ptrs /\ Published(x) /\ label[x] # Null /\ parent[x] = p /\ TypeOK /\ mG
        /\ x[2] < index[x[1]] /\ x[2] \in Nat
    <3>1. x \in Ptrs /\ Published(x) /\ TypeOK
      BY SMTT(30) DEF TInv, TypeOK, Nodes, Published
    <3>2. label[x] # Null /\ parent[x] = p
      BY ZenonT(60) DEF TInv, ListsMade
    <3>3. x[2] < index[x[1]] /\ x[2] \in Nat
      <4>1. x[2] \in Nat
        BY ONLY <3>1 DEF Ptrs
      <4>2. QED
        BY <3>1, <3>2, <4>1, Zenon DEF TInv, BlocksFilled
    <3>4. kids[p] # << >>
      BY EmptyFits, Zenon
    <3>5. mG
      BY <3>4, Zenon DEF TInv, NothingYet
    <3>6. QED
      BY <3>1, <3>2, <3>3, <3>5, Zenon
  <2>2. PICK t \in Threads : Step(t) \/ Request(t)
    BY Zenon DEF Next
  <2>3. CASE Request(t)
    <3>1. UNCHANGED <<label, parent, next>>
      BY <2>3, ZenonT(60) DEF Request, GetPath, GetPathOfNodes, RemoveFirst, ReplaceFirst, ReplaceAll, Start,
                  nodes
    <3>2. QED
      BY <2>1, <3>1, Zenon
  <2>4. CASE CreateNode(t)
    <3>1. PICK b, y, o : /\ b = m_nodeblock[t] /\ y = <<b, index[b]>> /\ o = op[t]
      BY Zenon
    <3>2. /\ label' = [label EXCEPT ![y] = Wanted(o)]
          /\ parent' = [parent EXCEPT ![y] = Here(o)]
          /\ next' = [next EXCEPT ![y] = head[Here(o)]]
      BY <2>4, <3>1, Zenon DEF CreateNode
    <3>3. x # y
      <4>1. o.pc \in {"copy_data", "create"} /\ OpOK(t, o)
        BY <2>4, <3>1, InCall, Zenon DEF CreateNode
      <4>2. b # Null
        BY <3>1, <4>1, ZenonT(60) DEF OpOK, Creating
      <4>3. index[b] \in Nat
        BY <2>1, <3>1, <4>2, Zenon DEF TypeOK
      <4>4. QED
        BY ONLY <2>1, <3>1, <4>3
    <3>4. QED
      BY <2>1, <3>2, <3>3, Zenon DEF TypeOK
  <2>5. CASE Append1(t)
    <3>1. PICK o : o = op[t]
      BY ZenonT(60)
    <3>2. o.new # x
      BY <2>1, <2>5, <3>1, NewNode DEF Append1
    <3>3. UNCHANGED <<label, parent>> /\ (next' = next \/ next' = [next EXCEPT ![o.new] = head[Here(o)]])
      BY <2>5, <3>1, Zenon DEF Append1
    <3>4. QED
      BY <2>1, <3>2, <3>3, Zenon DEF TypeOK
  <2>6. CASE PublishGlobal(t)
    <3>1. UNCHANGED <<label, parent, next>>
      BY <2>1, <2>6, Zenon DEF PublishGlobal, nodes
    <3>2. QED
      BY <2>1, <3>1, Zenon
  <2>7. CASE TakeBlock(t)
    <3>1. UNCHANGED <<label, parent, next>>
      BY <2>7, Zenon DEF TakeBlock, nodes
    <3>2. QED
      BY <2>1, <3>1, Zenon
  <2>8. CASE LoadGlobal(t) \/ Return(t)
    <3>1. UNCHANGED <<label, parent, next>>
      BY <2>8, Zenon DEF LoadGlobal, Return, nodes
    <3>2. QED
      BY <2>1, <3>1, Zenon
  <2>9. CASE FindParent(t) \/ Climb(t) \/ FirstChild(t)
    <3>1. UNCHANGED <<label, parent, next>>
      BY <2>9, Zenon DEF FindParent, Climb, FirstChild, nodes
    <3>2. QED
      BY <2>1, <3>1, Zenon
  <2>10. CASE Scan(t) \/ HaveFree(t) \/ PoolFull(t)
    <3>1. UNCHANGED <<label, parent, next>>
      BY <2>10, Zenon DEF Scan, HaveFree, PoolFull, nodes
    <3>2. QED
      BY <2>1, <3>1, Zenon
  <2>11. QED
    BY <2>2, <2>3, <2>4, <2>5, <2>6, <2>7, <2>8, <2>9, <2>10, ZenonT(60) DEF Step
<1>2. QED
  BY <1>1, TreeInvariant, PTL DEF Spec, NodesFixed

(* "Get a node block with n free entries": where a block has room for the  *)
(* longest path, the id of a node leads back to it, no node lies outside   *)
(* its block and no two nodes have the same id (MetadataTree::node).       *)
THEOREM IdsAlwaysFindNodes == MaxPath <= NodesPerBlock => (Spec => []IdsFindNodes)
<1> SUFFICES ASSUME MaxPath <= NodesPerBlock PROVE Spec => []IdsFindNodes
  BY Zenon
<1>1. TInv => IdsFindNodes
  <2> SUFFICES ASSUME TInv, NEW x \in Created PROVE NodeOf(Id(x)) = x
    BY Zenon DEF IdsFindNodes
  <2>1. x \in Ptrs /\ x[2] < index[x[1]]
    BY Zenon DEF Created, TInv, BlocksFilled
  <2>2. PICK b \in Blocks, i \in Nat : x = <<b, i>>
    BY <2>1 DEF Ptrs
  <2>3. i < index[b] /\ index[b] \in Nat /\ index[b] <= NodesPerBlock
    <3>1. i < index[b]
      <4>1. x[1] = b /\ x[2] = i
        BY <2>2, Zenon
      <4>2. QED
        BY <2>1, <4>1, Zenon
    <3>2. index[b] \in Nat /\ index[b] <= Capacity
      BY Zenon DEF TInv, TypeOK, BlocksFilled
    <3>3. Capacity = NodesPerBlock
      BY ONLY SizeAssumption, MaxPath <= NodesPerBlock DEF Capacity
    <3>4. QED
      BY <3>1, <3>2, <3>3, Zenon
  <2>4. b \in Nat /\ b < NumBlocks /\ NumBlocks \in Nat /\ NodesPerBlock \in Nat
    BY <2>2, SizeAssumption DEF Blocks
  <2>5. (b * NodesPerBlock + i) \div NodesPerBlock = b /\ (b * NodesPerBlock + i) % NodesPerBlock = i
    BY <2>3, <2>4
  <2>6. QED
    BY <2>2, <2>3, <2>4, <2>5 DEF NodeOf, Id
<1>2. QED
  BY <1>1, TreeInvariant, PTL
=============================================================================
