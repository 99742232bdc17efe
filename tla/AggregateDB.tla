---------------------------- MODULE AggregateDB ----------------------------
(***************************************************************************)
(* The on-line aggregation database of one thread                          *)
(* (src/services/aggregate/Aggregate.cpp).  A snapshot is turned into a    *)
(* key of at most DbKeyLen bytes; a trie with one entry per key byte      *)
(* leads to the counter and the kernels of the key.  Trie entries and      *)
(* kernels are numbered and live in blocks that are allocated on demand,   *)
(* but not in a signal handler: there a snapshot without room is dropped.  *)
(*                                                                         *)
(* A snapshot is [nodes, imm, vals]: its context tree nodes, its as-value  *)
(* entries (attribute -> value, 0 if absent) that may be part of the key   *)
(* and its values of the attributes that may be aggregated (0 if absent).  *)
(* Node ids and values are small, so each takes one byte of the key.       *)
(***************************************************************************)
EXTENDS Integers, Sequences, SequencesExt, FiniteSets

CONSTANTS Snapshots,       \* the snapshots that arrive
          Tree,            \* context tree: node -> [attr, data, parent]
          KeyNames,        \* the attributes named in aggregate.key, in order
          AggrLists,       \* settings of aggregate.attributes
          AttrTable,       \* attribute -> [asvalue, type, aggregatable]
          DbKeyLen,       \* MAX_KEYLEN
          BlockEntries,    \* ENTRIES_PER_BLOCK
          MaxBlocks,       \* MAX_BLOCKS
          MaxSnapshots     \* bound on the snapshots between two clears

VARIABLES keyed,     \* whether aggregate.key is set
          keyIds,    \* the key attributes that exist (s_key_attribute_ids)
          aggr,      \* s_aggr_attributes
          links,     \* the trie: triples <<entry, byte, child>>
          trieBlocks, kernelBlocks,   \* allocated blocks of m_trie and m_kernels
          counts,    \* TrieNode::count by entry
          kernelId,  \* TrieNode::k_id by entry, 0 for 0xFFFFFFFF
          kernels,   \* AggregateKernel by number
          numTrie, numKernel, dropped, skipped,
          overrun,   \* an index at the end of m_blocks was used
          accepted   \* history: key, cut and values of the snapshots not dropped

agVars == <<keyed, keyIds, aggr, links, trieBlocks, kernelBlocks, counts, kernelId, kernels,
            numTrie, numKernel, dropped, skipped, overrun, accepted>>

MaxId == (MaxBlocks + 1) * BlockEntries
NumAggr == Len(aggr)
Infinity == 99
Kernel0 == [min |-> Infinity, max |-> 0, sum |-> 0, n |-> 0]

(* init_aggregation_attributes: by default every attribute of class         *)
(* "class.aggregatable"; otherwise the ones named that exist and are        *)
(* numeric, or none.                                                        *)
Numeric == {"int", "uint", "double"}
AggregationAttributes(names) ==
  CASE names = <<>> -> SetToSeq({a \in DOMAIN AttrTable : AttrTable[a].aggregatable})
    [] names # <<>> /\ names[1] = "none" -> <<>>
    [] OTHER -> SelectSeq(names, LAMBDA a : a \in DOMAIN AttrTable /\ AttrTable[a].type \in Numeric)

AgEmpty ==
  /\ links = {} /\ counts = [e \in 0..MaxId |-> 0] /\ kernelId = [e \in 0..MaxId |-> 0]
  /\ kernels = [k \in 0..MaxId |-> Kernel0]
  /\ numTrie = 0 /\ numKernel = 0 /\ dropped = 0 /\ skipped = 0

AgInit ==
  /\ AgEmpty /\ trieBlocks = {0} /\ kernelBlocks = {0}
  /\ keyed \in BOOLEAN /\ keyIds = {} /\ overrun = FALSE /\ accepted = <<>>
  /\ \E names \in AggrLists : aggr = AggregationAttributes(names)

(* create_attribute_cb: a key attribute is known once it exists, if it is a *)
(* tree attribute or of a type a key can hold.                              *)
KeyTypes == {"int", "uint", "addr", "bool", "type"}
KeyCapable(a) == AttrTable[a].asvalue => AttrTable[a].type \in KeyTypes
CreateKeyAttribute(a) ==
  /\ keyed /\ ~overrun /\ a \notin keyIds /\ KeyCapable(a)
  /\ keyIds' = keyIds \cup {a}
  /\ UNCHANGED <<keyed, aggr, links, trieBlocks, kernelBlocks, counts, kernelId, kernels,
                 numTrie, numKernel, dropped, skipped, overrun, accepted>>

---------------------------------------------------------------------------
(* The nodes of the key.  With aggregate.key set, the key attributes' nodes *)
(* on the paths of the snapshot's nodes, outermost first, make one path,    *)
(* and make_tree_entry finds or creates its node: here the number that the  *)
(* path's data spell.  Without it, all nodes in the order of their ids.     *)
PathUp(n) ==
  LET P[k \in 0..Cardinality(DOMAIN Tree), x \in DOMAIN Tree \cup {0}] ==
        IF x = 0 \/ k = 0 THEN <<>> ELSE <<x>> \o P[k - 1, Tree[x].parent]
  IN  P[Cardinality(DOMAIN Tree), n]

KeyPath(s) ==
  LET all == FoldLeft(LAMBDA acc, n : acc \o PathUp(n), <<>>, s.nodes)
  IN  Reverse(SelectSeq(all, LAMBDA n : Tree[n].attr \in keyIds))

DbTreeEntry(path) == FoldLeft(LAMBDA acc, n : 10 * acc + Tree[n].data, 0, path)
KeyNodes(s) ==
  IF ~keyed THEN SortSeq(s.nodes, <)
  ELSE IF KeyPath(s) = <<>> THEN <<>> ELSE <<DbTreeEntry(KeyPath(s))>>

(* The key: 2 * num_nodes + (1 if there are immediate entries), the node    *)
(* ids, and for immediate entries a bit field and the values that still     *)
(* fit, in the order of aggregate.key.                                      *)
NodesThatFit(ns) == SubSeq(ns, 1, IF Len(ns) < DbKeyLen - 2 THEN Len(ns) ELSE DbKeyLen - 2)
DbKeyImms(s) == SelectSeq([k \in 1..Len(KeyNames) |-> k],
                LAMBDA k : keyed /\ KeyNames[k] \in keyIds /\ s.imm[KeyNames[k]] # 0)

ImmsThatFit(ns, s) ==
  LET room == DbKeyLen - 3 - Len(NodesThatFit(ns))
  IN  SubSeq(DbKeyImms(s), 1, IF Len(DbKeyImms(s)) < room THEN Len(DbKeyImms(s)) ELSE IF room > 0 THEN room ELSE 0)

BitField(ks) == FoldLeft(LAMBDA acc, k : acc + 2^(k - 1), 0, ks)
EncodeKey(s) ==
  LET ns == KeyNodes(s)  ks == ImmsThatFit(ns, s) IN
  <<2 * Len(ns) + IF ks = <<>> THEN 0 ELSE 1>> \o NodesThatFit(ns)
     \o (IF ks = <<>> THEN <<>> ELSE <<BitField(ks)>>)
     \o [i \in 1..Len(ks) |-> s.imm[KeyNames[ks[i]]]]

SkippedKeys(s) == (IF KeyNodes(s) = NodesThatFit(KeyNodes(s)) THEN 0 ELSE 1)
                  + Len(DbKeyImms(s)) - Len(ImmsThatFit(KeyNodes(s), s))

(* write_aggregated_snapshot: decode the key.  Reading on past the end of a *)
(* key finds zero bytes.                                                    *)
ByteAt(key, i) == IF i <= Len(key) THEN key[i] ELSE 0
DecodeKey(key) ==
  LET n  == key[1] \div 2
      ks == IF key[1] % 2 = 0 THEN <<>>
            ELSE SelectSeq([k \in 1..Len(KeyNames) |-> k],
                           LAMBDA k : (ByteAt(key, n + 2) \div 2^(k - 1)) % 2 = 1)
  IN  [nodes |-> [i \in 1..n |-> ByteAt(key, i + 1)],
       imms |-> [i \in 1..Len(ks) |-> <<KeyNames[ks[i]], ByteAt(key, n + 2 + i)>>]]

---------------------------------------------------------------------------

(* BlockAlloc::get: "ok", "null", or "overrun" for the index MAX_BLOCKS,    *)
(* which the check block > MAX_BLOCKS lets through.                         *)
BlockOf(id) == id \div BlockEntries
Got(blocks, id, alloc) ==
  CASE BlockOf(id) > MaxBlocks -> "null"
    [] BlockOf(id) = MaxBlocks -> "overrun"
    [] BlockOf(id) \in blocks \/ alloc -> "ok"
    [] OTHER -> "null"

WithBlock(blocks, id, got) == IF got = "ok" THEN blocks \cup {BlockOf(id)} ELSE blocks

(* find_entry: one step along the trie; a missing entry gets the next id. *)
Child(ls, e, b) == {l[3] : l \in {x \in ls : x[1] = e /\ x[2] = b}}

(* A defect: a new entry gets the id of the entry made last.               *)
TrieStepShared(w, b, alloc) ==
  IF w.got # "ok" THEN w
  ELSE LET old == Child(w.links, w.entry, b)
           id  == IF old = {} THEN w.num ELSE CHOOSE c \in old : TRUE
           got == Got(w.blocks, id, alloc)
       IN  [links |-> w.links \cup {<<w.entry, b, id>>}, num |-> IF old = {} THEN id + 1 ELSE w.num,
            blocks |-> WithBlock(w.blocks, id, got), entry |-> id, got |-> got]

TrieStep(w, b, alloc) ==
  IF w.got # "ok" THEN w
  ELSE LET old == Child(w.links, w.entry, b)
           id  == IF old = {} THEN w.num + 1 ELSE CHOOSE c \in old : TRUE
           got == Got(w.blocks, id, alloc)
       IN  [links |-> w.links \cup {<<w.entry, b, id>>}, num |-> IF old = {} THEN id ELSE w.num,
            blocks |-> WithBlock(w.blocks, id, got), entry |-> id, got |-> got]

TrieWalk(key, alloc) ==
  LET root == Got(trieBlocks, 0, alloc) IN
  FoldLeft(LAMBDA w, b : TrieStep(w, b, alloc),
           [links |-> links, num |-> numTrie, blocks |-> WithBlock(trieBlocks, 0, root),
            entry |-> 0, got |-> root], key)

(* The kernels of a new entry: NumAggr consecutive numbers. *)
FirstKernel(e) == IF kernelId[e] = 0 THEN numKernel + 1 ELSE kernelId[e]
KernelGets(first, alloc) == {Got(kernelBlocks, first + a, alloc) : a \in 0..(NumAggr - 1)}

(* AggregateKernel::add.  max starts at the smallest positive double. *)
KernelAdd(k, v) == [min |-> IF v < k.min THEN v ELSE k.min, max |-> IF v > k.max THEN v ELSE k.max,
              sum |-> k.sum + v, n |-> k.n + 1]
(* What a reader of the flushed records expects of a snapshot's key. *)
KeySpec(s) == [nodes |-> KeyNodes(s),
               imms |-> LET ks == DbKeyImms(s)
                        IN  [i \in 1..Len(ks) |-> <<KeyNames[ks[i]], s.imm[KeyNames[ks[i]]]>>]]

UpdateEntry(s, e, first) ==
  /\ counts' = [counts EXCEPT ![e] = @ + 1]
  /\ kernelId' = IF NumAggr = 0 THEN kernelId ELSE [kernelId EXCEPT ![e] = first]
  /\ kernelBlocks' = kernelBlocks \cup {BlockOf(first + a) : a \in 0..(NumAggr - 1)}
  /\ kernels' = [k \in 0..MaxId |->
       IF k \in first..(first + NumAggr - 1) /\ s.vals[aggr[k - first + 1]] # 0
       THEN KernelAdd(kernels[k], s.vals[aggr[k - first + 1]]) ELSE kernels[k]]
  /\ accepted' = Append(accepted, [key |-> KeySpec(s), cut |-> SkippedKeys(s) > 0, vals |-> s.vals])
  /\ UNCHANGED <<dropped, overrun>>

DropSnapshot(ov) ==
  /\ dropped' = dropped + 1 /\ overrun' = ov
  /\ UNCHANGED <<counts, kernelId, kernelBlocks, kernels, accepted>>

(* process_snapshot; in a signal handler nothing is allocated. *)
IsEmpty(s) ==
  /\ s.nodes = <<>>
  /\ \A x \in DOMAIN s.imm : s.imm[x] = 0
  /\ \A x \in DOMAIN s.vals : s.vals[x] = 0

DbProcessSnapshot(s, signal) ==
  /\ ~overrun /\ Len(accepted) + dropped < MaxSnapshots /\ ~IsEmpty(s)
  /\ \E w \in {TrieWalk(EncodeKey(s), ~signal)} : \E first \in {FirstKernel(w.entry)} :
       LET gets == KernelGets(first, ~signal) IN
       /\ links' = w.links /\ numTrie' = w.num /\ trieBlocks' = w.blocks
       /\ numKernel' = IF w.got = "ok" /\ kernelId[w.entry] = 0 THEN numKernel + NumAggr ELSE numKernel
       /\ IF w.got = "ok" /\ gets \subseteq {"ok"}
            THEN UpdateEntry(s, w.entry, first)
            ELSE DropSnapshot("overrun" \in (gets \cup {w.got}))
  /\ skipped' = skipped + SkippedKeys(s)
  /\ UNCHANGED <<keyed, keyIds, aggr>>

(* clear(): all blocks are freed. *)
ClearDB ==
  /\ ~overrun
  /\ links' = {} /\ trieBlocks' = {} /\ kernelBlocks' = {}
  /\ counts' = [e \in 0..MaxId |-> 0] /\ kernelId' = [e \in 0..MaxId |-> 0]
  /\ kernels' = [k \in 0..MaxId |-> Kernel0]
  /\ numTrie' = 0 /\ numKernel' = 0 /\ dropped' = 0 /\ skipped' = 0 /\ accepted' = <<>>
  /\ UNCHANGED <<keyed, keyIds, aggr, overrun>>

AgNext ==
  \/ \E s \in Snapshots, signal \in BOOLEAN : DbProcessSnapshot(s, signal)
  \/ \E a \in Range(KeyNames) : CreateKeyAttribute(a)
  \/ ClearDB

AgSpec == AgInit /\ [][AgNext]_agVars

---------------------------------------------------------------------------
(* flush / recursive_flush: the entries that hold a snapshot, with the key  *)
(* bytes on the way to them.                                                *)
PathTo ==
  LET P[e \in 0..MaxId] ==
        LET ups == {l \in links : l[3] = e} IN
        IF e = 0 \/ ups = {} THEN <<>>
        ELSE LET l == CHOOSE x \in ups : TRUE
             IN  IF l[1] < e THEN Append(P[l[1]], l[2]) ELSE <<>>
  IN  P

Flushed == {[key |-> DecodeKey(PathTo[e]), count |-> counts[e],
             stats |-> [a \in 1..NumAggr |-> kernels[kernelId[e] + a - 1]]] :
             e \in {x \in 1..numTrie : counts[x] > 0}}

Group(r) == {i \in 1..Len(accepted) : accepted[i].key = r.key}
DbValues(r, a) == {i \in Group(r) : accepted[i].vals[a] # 0}
TotalOf(r, a) == FoldLeft(LAMBDA acc, i : acc + accepted[i].vals[a], 0, SetToSeq(DbValues(r, a)))

(* Flushing gives one record for every key among the snapshots since the    *)
(* last clear that were not dropped, with their number and, for every       *)
(* aggregated attribute, their sum and minimum (and their maximum, if one   *)
(* of them is positive): no key shares an entry or a kernel with another,   *)
(* though snapshots were dropped in between and key attributes came late.   *)
(* Only keys that were cut off at MAX_KEYLEN are excepted.                  *)
FlushExact ==
  ~overrun => \A i \in 1..Len(accepted) :
    LET s == accepted[i] IN
    ~s.cut => \E r \in Flushed :
      /\ r.key = s.key /\ \A q \in Flushed : q.key = r.key => q = r
      /\ r.count = Cardinality(Group(s))
      /\ \A n \in 1..NumAggr : LET a == aggr[n]  vs == DbValues(s, a) IN
           /\ r.stats[n].sum = TotalOf(s, a) /\ r.stats[n].n = Cardinality(vs)
           /\ vs # {} => \E j \in vs : accepted[j].vals[a] = r.stats[n].min
           /\ \A j \in vs : r.stats[n].min <= accepted[j].vals[a]
           /\ (\E j \in vs : accepted[j].vals[a] > 0) =>
                /\ \E j \in vs : accepted[j].vals[a] = r.stats[n].max
                /\ \A j \in vs : r.stats[n].max >= accepted[j].vals[a]

(* The block tables are indexed past their end only when all MAX_BLOCKS     *)
(* blocks have been used up, however many entries were numbered for         *)
(* snapshots that were then dropped.                                        *)
BlocksUsedUp ==
  /\ overrun => numTrie >= MaxBlocks * BlockEntries
                \/ numKernel >= MaxBlocks * BlockEntries
  /\ trieBlocks \cup kernelBlocks \subseteq 0..(MaxBlocks - 1)

(* The database of a thread is exact within its limits: no key gets          *)
(* another's counts, and the blocks are used up before an index leaves them  *)
(* (Aggregate.cpp get_trienode, process_snapshot).                           *)
AggregationSound == FlushExact /\ BlocksUsedUp
=============================================================================
