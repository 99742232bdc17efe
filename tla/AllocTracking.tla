---------------------------- MODULE AllocTracking ----------------------------
(***************************************************************************)
(* Memory regions: the malloc/free wrappers of the sysalloc service        *)
(* (src/services/sysalloc/SysAllocService.cpp) and the alloc service       *)
(* (src/services/alloc/AllocService.cpp) that keeps the regions in a splay *)
(* tree under g_tree_lock and resolves addresses against it.  The wrappers *)
(* call the C library first and Caliper second, and not at all when the    *)
(* thread is inside Caliper already.                                       *)
(***************************************************************************)
EXTENDS Integers, FiniteSets, FiniteSetsExt

CONSTANTS Keys, NoNode, AlThreads, RegionSizes, MaxRequests

-----------------------------------------------------------------------------
(* The splay tree of tracked memory regions                                *)
(* (src/services/alloc/SplayTree.hpp) with its parent links and its        *)
(* "handedness" (which child of its parent a node is).  A rotation does    *)
(* not update the grandparent's child link: the tree is a tree again only  *)
(* once the splay has carried the node to the root.  A node is named by    *)
(* its key; NoNode is the null pointer.                                    *)

Left == "left"
Right == "right"
Opposite(s) == IF s = Left THEN Right ELSE Left

EmptyTree == [root   |-> NoNode,
              parent |-> [k \in Keys |-> NoNode],
              child  |-> [k \in Keys |-> [s \in {Left, Right} |-> NoNode]],
              hand   |-> [k \in Keys |-> "na"]]

(* A defect: the subtree that changes sides keeps its handedness. *)
RotateHandKept(t, n, s) ==
  LET p == t.parent[n]
      g == t.parent[p]
      c == t.child[n][s]
  IN  [t EXCEPT
        !.parent = [k \in Keys |-> IF k = n THEN g ELSE IF k = p THEN n
                                   ELSE IF k = c THEN p ELSE @[k]],
        !.hand   = [k \in Keys |-> IF k = n THEN (IF g # NoNode THEN @[p] ELSE "na")
                                   ELSE IF k = p THEN s ELSE @[k]],
        !.child  = [@ EXCEPT ![p][Opposite(s)] = c, ![n][s] = p]]
(* rotate_left (s = Left) and rotate_right (s = Right). *)
Rotate(t, n, s) ==
  LET p == t.parent[n]
      g == t.parent[p]
      c == t.child[n][s]
  IN  [t EXCEPT
        !.parent = [k \in Keys |-> IF k = n THEN g ELSE IF k = p THEN n
                                   ELSE IF k = c THEN p ELSE @[k]],
        !.hand   = [k \in Keys |-> IF k = n THEN (IF g # NoNode THEN @[p] ELSE "na")
                                   ELSE IF k = p THEN s
                                   ELSE IF k = c THEN Opposite(s) ELSE @[k]],
        !.child  = [@ EXCEPT ![p][Opposite(s)] = c, ![n][s] = p]]

(* splay: one or two rotations per turn, until the node has no parent. *)
RECURSIVE Splay(_, _)
Splay(t, n) ==
  LET p == t.parent[n]
      first == Rotate(t, n, Opposite(t.hand[n]))
  IN  IF p = NoNode THEN [t EXCEPT !.root = n]
      ELSE IF t.parent[p] = NoNode THEN Splay(first, n)
      ELSE Splay(Rotate(first, n, Opposite(t.hand[p])), n)

(* STNode::insert and SplayTree::insert; an equal key replaces the value. *)
RECURSIVE InsertBelow(_, _, _)
InsertBelow(t, n, k) ==
  LET s == IF k < n THEN Left ELSE Right IN
  IF k = n THEN t
  ELSE IF t.child[n][s] # NoNode THEN InsertBelow(t, t.child[n][s], k)
  ELSE [t EXCEPT !.child[n][s] = k, !.parent[k] = n, !.hand[k] = s]

Insert(t, k) == IF t.root = NoNode THEN [t EXCEPT !.root = k]
                ELSE Splay(InsertBelow(t, t.root, k), k)

(* STNode::find with a three-way predicate, a function of the key; the tree *)
(* is not splayed by a find.                                                *)
RECURSIVE FindBelow(_, _, _)
FindBelow(t, n, cmp) ==
  IF n = NoNode \/ cmp[n] = 0 THEN n
  ELSE FindBelow(t, t.child[n][IF cmp[n] < 0 THEN Left ELSE Right], cmp)

Find(t, cmp) == FindBelow(t, t.root, cmp)

RECURSIVE FindMax(_, _)
FindMax(t, n) == IF t.child[n][Right] = NoNode THEN n ELSE FindMax(t, t.child[n][Right])

(* remove: splay the node, splay the maximum of its left tree to the root   *)
(* of that tree, and hang the right tree below it.                          *)
Detach(t, n) == [t EXCEPT !.parent[n] = NoNode, !.hand[n] = "na"]
Erase(t, n) == [t EXCEPT !.parent[n] = NoNode, !.hand[n] = "na",
                         !.child[n] = [s \in {Left, Right} |-> NoNode]]

RemoveKey(t, n) ==
  LET up == Splay(t, n)
      l  == up.child[n][Left]
      r  == up.child[n][Right]
      lt == Detach(up, l)
      mx == FindMax(lt, l)
      jt == [Splay(lt, mx) EXCEPT !.child[mx][Right] = r]
  IN  Erase(IF l # NoNode THEN (IF r = NoNode THEN jt ELSE [jt EXCEPT !.parent[r] = mx])
            ELSE IF r # NoNode THEN [Detach(up, r) EXCEPT !.root = r]
            ELSE [up EXCEPT !.root = NoNode], n)

(* The nodes of the tree below n. *)
RECURSIVE Below(_, _)
Below(t, n) == IF n = NoNode THEN {}
               ELSE {n} \cup Below(t, t.child[n][Left]) \cup Below(t, t.child[n][Right])

InTree(t) == Below(t, t.root)

(* Every node stands between its left and its right subtree, and the parent *)
(* link and the handedness of a node agree with the child links, so that    *)
(* the next splay rotates the right way.                                    *)
WellFormedTree(t) == \A n \in InTree(t) :
  /\ \A k \in Below(t, t.child[n][Left]) : k < n
  /\ \A k \in Below(t, t.child[n][Right]) : k > n
  /\ IF n = t.root THEN t.parent[n] = NoNode /\ t.hand[n] = "na"
     ELSE t.hand[n] \in {Left, Right} /\ t.parent[n] # NoNode
          /\ t.child[t.parent[n]][t.hand[n]] = n

-----------------------------------------------------------------------------
(* The wrappers, and the alloc service's use of the tree.                  *)

VARIABLES heap,      \* the C library's view: start address -> size, -1 when free
          regions,   \* g_tree: the splay tree
          rsize,     \* AllocInfo::total_size of each node
          treeLock,  \* holder of g_tree_lock, or NoThread
          apc,       \* thread -> what its wrapper does next
          activeMem, tracked,     \* g_active_mem, g_current_tracked
          hooked,    \* the gotcha bindings are active
          requests,  \* calls of the application so far
          lost       \* history: a region changed while no wrapper reported it in order

alVars == <<heap, regions, rsize, treeLock, apc, activeMem, tracked, hooked, requests, lost>>

NoThread == "nobody"
Idle == [op |-> "idle", addr |-> NoNode, size |-> 0, then |-> <<>>]

AlInit ==
  /\ heap = [a \in Keys |-> -1] /\ regions = EmptyTree /\ rsize = [a \in Keys |-> 0]
  /\ treeLock = NoThread /\ apc = [t \in AlThreads |-> Idle]
  /\ activeMem = 0 /\ tracked = 0 /\ hooked = TRUE /\ requests = 0 /\ lost = FALSE

(* The C library hands out any block that overlaps no other (external). *)
MemFits(h, a, s) ==
  /\ h[a] = -1 /\ a + s <= Max(Keys) + 1
  /\ \A b \in Keys \ {a} : h[b] # -1 => b + Max({h[b], 1}) <= a \/ a + Max({s, 1}) <= b

Request == requests < MaxRequests /\ requests' = requests + 1

(* A block that is taken again before the wrapper of its free reported it.  *)
AlPending(a) == \E t \in AlThreads : apc[t].op \in {"untrack", "freeing"} /\ apc[t].addr = a

(* A block whose malloc or realloc has not returned: nobody can free it.    *)
Coming(a) == \E t \in AlThreads : \/ apc[t].op = "track" /\ apc[t].addr = a
                                  \/ apc[t].then # <<>> /\ apc[t].then[1] = a

Returned(a) == ~Coming(a) /\ ~\E t \in AlThreads : apc[t].op = "record" /\ apc[t].addr = a

(* cali_malloc_wrapper / cali_calloc_wrapper: allocate, then track.         *)
Malloc(t, a, s) ==
  /\ apc[t] = Idle /\ Request /\ MemFits(heap, a, s)
  /\ heap' = [heap EXCEPT ![a] = s]
  /\ apc' = IF hooked THEN [apc EXCEPT ![t] = [Idle EXCEPT !.op = "track", !.addr = a, !.size = s]]
            ELSE apc
  /\ lost' = (lost \/ ~hooked \/ AlPending(a))
  /\ UNCHANGED <<regions, rsize, treeLock, activeMem, tracked, hooked>>

(* cali_free_wrapper: free, then untrack. *)
Free(t, a) ==
  /\ apc[t] = Idle /\ Request /\ heap[a] # -1 /\ Returned(a)
  /\ heap' = [heap EXCEPT ![a] = -1]
  /\ apc' = IF hooked THEN [apc EXCEPT ![t] = [Idle EXCEPT !.op = "untrack", !.addr = a]] ELSE apc
  /\ lost' = (lost \/ ~hooked)
  /\ UNCHANGED <<regions, rsize, treeLock, activeMem, tracked, hooked>>

(* cali_realloc_wrapper: the block may move; untrack the old, track the new. *)
Realloc(t, a, b, s) ==
  /\ apc[t] = Idle /\ Request /\ heap[a] # -1 /\ Returned(a) /\ hooked
  /\ LET freed == [heap EXCEPT ![a] = -1] IN
     /\ MemFits(freed, b, s)
     /\ heap' = [freed EXCEPT ![b] = s]
  /\ apc' = [apc EXCEPT ![t] = [op |-> "untrack", addr |-> a, size |-> 0, then |-> <<b, s>>]]
  /\ lost' = (lost \/ AlPending(b))
  /\ UNCHANGED <<regions, rsize, treeLock, activeMem, tracked, hooked>>

(* track_mem_cb: insert under the lock; an equal start address replaces the *)
(* region.  The snapshot is pushed after the lock is released.              *)
Track(t) ==
  LET a == apc[t].addr s == apc[t].size IN
  /\ apc[t].op = "track" /\ treeLock = NoThread
  /\ regions' = Insert(regions, a) /\ rsize' = [rsize EXCEPT ![a] = s]
  /\ activeMem' = activeMem + s /\ tracked' = tracked + 1
  /\ apc' = [apc EXCEPT ![t].op = "record", ![t].size = 0]
  /\ UNCHANGED <<heap, treeLock, hooked, requests, lost>>

HasStartAddress(a) == [k \in Keys |-> IF a < k THEN -1 ELSE IF a = k THEN 0 ELSE 1]

Continue(t) == IF apc[t].then = <<>> THEN Idle
               ELSE [Idle EXCEPT !.op = "track", !.addr = apc[t].then[1], !.size = apc[t].then[2]]

(* untrack_mem_cb: the lock is held from the lookup to the removal, while   *)
(* the snapshot of the free is pushed.                                      *)
Untrack(t) ==
  /\ apc[t].op = "untrack" /\ treeLock = NoThread
  /\ IF Find(regions, HasStartAddress(apc[t].addr)) # NoNode
     THEN treeLock' = t /\ apc' = [apc EXCEPT ![t].op = "freeing"]
     ELSE treeLock' = treeLock /\ apc' = [apc EXCEPT ![t] = Continue(t)]
  /\ UNCHANGED <<heap, regions, rsize, activeMem, tracked, hooked, requests, lost>>

UntrackEnd(t) ==
  LET a == apc[t].addr IN
  /\ apc[t].op = "freeing"
  /\ activeMem' = activeMem - rsize[a] /\ tracked' = tracked - 1
  /\ regions' = RemoveKey(regions, a) /\ rsize' = [rsize EXCEPT ![a] = 0]
  /\ treeLock' = NoThread /\ apc' = [apc EXCEPT ![t] = Continue(t)]
  /\ UNCHANGED <<heap, hooked, requests, lost>>

RecordEnd(t) ==
  /\ apc[t].op = "record" /\ apc' = [apc EXCEPT ![t] = Idle]
  /\ UNCHANGED <<heap, regions, rsize, treeLock, activeMem, tracked, hooked, requests, lost>>

(* Caliper itself allocates and frees while it makes a snapshot: the        *)
(* thread's siglock is held, sigsafe_instance() returns an empty object and *)
(* the wrappers report nothing.                                             *)
Inside(t) == apc[t].op \in {"record", "freeing"}
InnerMalloc(t, a, s) ==
  /\ Inside(t) /\ Request /\ MemFits(heap, a, s)
  /\ heap' = [heap EXCEPT ![a] = s] /\ lost' = TRUE
  /\ UNCHANGED <<regions, rsize, treeLock, apc, activeMem, tracked, hooked>>

InnerFree(t, a) ==
  /\ Inside(t) /\ Request /\ heap[a] # -1 /\ Returned(a)
  /\ heap' = [heap EXCEPT ![a] = -1] /\ lost' = TRUE
  /\ UNCHANGED <<regions, rsize, treeLock, apc, activeMem, tracked, hooked>>

(* clear_alloc_hooks at finish. *)
ClearHooks ==
  /\ hooked /\ hooked' = FALSE
  /\ UNCHANGED <<heap, regions, rsize, treeLock, apc, activeMem, tracked, requests, lost>>

AlNext ==
  \/ \E t \in AlThreads :
       \/ \E a \in Keys, s \in RegionSizes : Malloc(t, a, s) \/ InnerMalloc(t, a, s)
       \/ \E a \in Keys : Free(t, a) \/ InnerFree(t, a)
       \/ \E a, b \in Keys, s \in RegionSizes : Realloc(t, a, b, s)
       \/ Track(t) \/ Untrack(t) \/ UntrackEnd(t) \/ RecordEnd(t)
  \/ ClearHooks

AlSpec == AlInit /\ [][AlNext]_alVars

---------------------------------------------------------------------------

(* ContainsAddress and resolve_addresses: the region that an address of the *)
(* trigger is attributed to.                                                *)
ContainsAddress(addr) ==
  [k \in Keys |-> IF addr < k THEN -1 ELSE IF addr < k + rsize[k] THEN 0 ELSE 1]

Resolve(addr) == Find(regions, ContainsAddress(addr))

(* Whatever is inserted, replaced and removed, in any order, the splay tree *)
(* stays a search tree whose parent and handedness links agree.             *)
TreeWellFormed == WellFormedTree(regions)

SumSizes == LET add(a, n) == n + rsize[a] IN FoldSet(add, 0, InTree(regions))

(* g_active_mem and g_current_tracked never fall below what the tree holds, *)
(* whatever calls were missed: the subtractions of untrack_mem_cb do not    *)
(* wrap around.                                                             *)
CountersCover == activeMem >= SumSizes /\ tracked >= Cardinality(InTree(regions))

(* As long as every call is reported in order, the counters are exact and   *)
(* the tree holds the blocks of the C library and those whose free is being *)
(* reported.                                                                *)
TrackedExactly == ~lost =>
  /\ activeMem = SumSizes /\ tracked = Cardinality(InTree(regions))
  /\ \A a \in Keys : a \in InTree(regions) <=> AlPending(a) \/ (heap[a] # -1 /\ ~Coming(a))
  /\ \A a \in InTree(regions) : AlPending(a) \/ rsize[a] = heap[a]

(* ... and every address of a block whose malloc has returned resolves to   *)
(* that block, every other one to nothing or to a block being freed.        *)
ResolvesToOwner == ~lost => \A addr \in Keys :
  LET owner == {a \in Keys : heap[a] # -1 /\ a <= addr /\ addr < a + heap[a]}
      n == Resolve(addr)
  IN  /\ n # NoNode => n \in owner \/ AlPending(n)
      /\ \A a \in owner : n = a \/ Coming(a) \/ (n # NoNode /\ AlPending(n))

(* The allocation tracker is a map of the program's blocks: a search tree    *)
(* of exactly the blocks, counters that agree with it, and addresses that    *)
(* resolve to the block they are in (AllocService.cpp, SplayTree.hpp).       *)
AllocationsSound == TreeWellFormed /\ CountersCover /\ TrackedExactly /\ ResolvesToOwner
=============================================================================
