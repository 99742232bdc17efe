----------------------------- MODULE MetadataDB -----------------------------
(***************************************************************************)
(* The metadata database of the reader library                             *)
(* (src/reader/CaliperMetadataDB.cpp).  Several threads read one data file *)
(* each and merge its node records into one shared tree; since a node gets *)
(* a new id there, each thread keeps an id map, which holds only the ids   *)
(* that changed.  Nodes are looked up and created under m_node_lock, the   *)
(* attribute names are entered under m_attribute_lock afterwards.          *)
(***************************************************************************)
EXTENDS Integers, Sequences, FiniteSets, SequencesExt

CONSTANTS Readers, Streams,    \* reader -> sequence of records
          Source,              \* the nodes of another database, to import from
          NewAttrs,            \* names of attributes that a query creates
          Globals,             \* <<attribute name, value>> pairs given to set_global
          AsValue, NoMerge,    \* attribute names with these properties
          MaxTree, MaxImports

VARIABLES nodes,     \* m_nodes: sequence of [attr, data, parent], id = index - 1
          names,     \* m_attributes: name -> id
          globals,   \* m_globals
          rpos, rpc, rnode,   \* reader: records done, step, the node it merged
          idmap,     \* reader -> its IdMap
          snaps,     \* reader -> history: entry lists passed on, with their record
          imported,  \* history: source id -> id
          crashed

mdVars == <<nodes, names, globals, rpos, rpc, rnode, idmap, snaps, imported, crashed>>

NoId == -1
NameAttr == 1
TypeAttr == 2
(* setup_bootstrap_nodes: the types and the attributes name, type (and prop). *)
Bootstrap == << [attr |-> TypeAttr, data |-> "string", parent |-> NoId],
                [attr |-> NameAttr, data |-> "cali.attribute.name", parent |-> 0],
                [attr |-> NameAttr, data |-> "cali.attribute.type", parent |-> 0] >>

NBoot == Len(Bootstrap)

NodeAt(ns, id) == ns[id + 1]
RECURSIVE HasTypeAbove(_, _)
HasTypeAbove(ns, id) == id # NoId /\ (NodeAt(ns, id).attr = TypeAttr \/ HasTypeAbove(ns, NodeAt(ns, id).parent))
(* Attribute::make_attribute: a name node below a type node. *)
IsAttribute(ns, id) == /\ id \in 0..(Len(ns) - 1)
                       /\ NodeAt(ns, id).attr = NameAttr /\ HasTypeAbove(ns, id)

(* map_id: ids that are not in the map stand for themselves. *)
MapId(m, id) == IF id \in DOMAIN m THEN m[id] ELSE id

(* The child of parent with this attribute and value; create_node.          *)
Children(ns, attr, data, parent) ==
  {i \in 0..(Len(ns) - 1) : NodeAt(ns, i) = [attr |-> attr, data |-> data, parent |-> parent]}

FindOrCreate(ns, attr, data, parent) ==
  LET c == Children(ns, attr, data, parent) IN
  IF c # {} THEN [nodes |-> ns, id |-> CHOOSE i \in c : TRUE]
  ELSE [nodes |-> Append(ns, [attr |-> attr, data |-> data, parent |-> parent]), id |-> Len(ns)]

(* make_tree_entry: a path of nodes below parent. *)
RECURSIVE MakeTreeEntry(_, _, _)
MakeTreeEntry(ns, path, parent) ==
  IF path = <<>> THEN [nodes |-> ns, id |-> parent]
  ELSE LET r == FindOrCreate(ns, Head(path)[1], Head(path)[2], parent)
       IN  MakeTreeEntry(r.nodes, Tail(path), r.id)

EnterName(nm, ns, id) == IF NodeAt(ns, id).data \in DOMAIN nm THEN nm
                         ELSE [n \in DOMAIN nm \cup {NodeAt(ns, id).data} |->
                                 IF n \in DOMAIN nm THEN nm[n] ELSE id]

MdInit ==
  /\ nodes = Bootstrap
  /\ names = [n \in {"cali.attribute.name", "cali.attribute.type"} |->
                IF n = "cali.attribute.name" THEN 1 ELSE 2]
  /\ globals = <<>>
  /\ rpos = [r \in Readers |-> 0] /\ rpc = [r \in Readers |-> "read"] /\ rnode = [r \in Readers |-> NoId]
  /\ idmap = [r \in Readers |-> <<>>] /\ snaps = [r \in Readers |-> <<>>]
  /\ imported = <<>> /\ crashed = FALSE

Next1(r) == rpc[r] = "read" /\ rpos[r] < Len(Streams[r]) /\ ~crashed
Current(r) == Streams[r][rpos[r] + 1]

(* merge_node_record and merge_node: map the ids, find or create the node.  *)
(* An invalid attribute or parent makes the inner merge_node return null,   *)
(* which the outer one dereferences.                                        *)
MergeNode(r) ==
  LET rec == Current(r)
      a   == MapId(idmap[r], rec.attr)
      p   == MapId(idmap[r], rec.parent)
      bad == ~IsAttribute(nodes, a) \/ p >= Len(nodes)
      res == FindOrCreate(nodes, a, rec.data, p)
  IN  /\ Next1(r) /\ rec.rec = "node"
      /\ IF bad THEN crashed' = TRUE /\ UNCHANGED <<nodes, rpc, rnode>>
         ELSE /\ nodes' = res.nodes /\ rnode' = [rnode EXCEPT ![r] = res.id] /\ crashed' = FALSE
              /\ rpc' = [rpc EXCEPT ![r] = IF a = NameAttr /\ Len(res.nodes) > Len(nodes)
                                           THEN "name" ELSE "map"]
      /\ UNCHANGED <<names, globals, rpos, idmap, snaps, imported>>
(* A new attribute is entered by its name, under the other lock.            *)
EnterAttribute(r) ==
  /\ rpc[r] = "name" /\ ~crashed
  /\ names' = EnterName(names, nodes, rnode[r]) /\ rpc' = [rpc EXCEPT ![r] = "map"]
  /\ UNCHANGED <<nodes, globals, rpos, rnode, idmap, snaps, imported, crashed>>
(* A defect: an id is entered only when it became larger. *)
MapIfLarger(m, id, n) == IF n <= id \/ id \in DOMAIN m THEN m
                         ELSE [i \in DOMAIN m \cup {id} |-> IF i = id THEN n ELSE m[i]]

MapIfChanged(m, id, n) == IF n = id \/ id \in DOMAIN m THEN m
                          ELSE [i \in DOMAIN m \cup {id} |-> IF i = id THEN n ELSE m[i]]

EnterId(r) ==
  /\ rpc[r] = "map" /\ ~crashed
  /\ idmap' = [idmap EXCEPT ![r] = MapIfChanged(@, Current(r).id, rnode[r])]
  /\ rpos' = [rpos EXCEPT ![r] = @ + 1] /\ rpc' = [rpc EXCEPT ![r] = "read"]
  /\ UNCHANGED <<nodes, names, globals, rnode, snaps, imported, crashed>>

(* merge_ctx_record_to_list: references that resolve, and the immediate     *)
(* entries whose attribute does.                                            *)
EntryList(r, rec) ==
  [i \in 1..Len(rec.refs) |-> [kind |-> "ref", id |-> MapId(idmap[r], rec.refs[i]), v |-> "none"]]
  \o [i \in 1..Len(rec.imms) |-> [kind |-> "imm", id |-> MapId(idmap[r], rec.imms[i][1]), v |-> rec.imms[i][2]]]

MdResolves(e) == IF e.kind = "ref" THEN e.id < Len(nodes) ELSE IsAttribute(nodes, e.id)
MdMergeSnapshot(r) ==
  /\ Next1(r) /\ Current(r).rec = "ctx"
  /\ snaps' = [snaps EXCEPT ![r] =
                 Append(@, <<rpos[r] + 1, SelectSeq(EntryList(r, Current(r)), MdResolves)>>)]
  /\ rpos' = [rpos EXCEPT ![r] = @ + 1]
  /\ UNCHANGED <<nodes, names, globals, rpc, rnode, idmap, imported, crashed>>
(* The globals of a file replace those of the files before. *)
MergeGlobals(r) ==
  /\ Next1(r) /\ Current(r).rec = "globals"
  /\ globals' = SelectSeq(EntryList(r, Current(r)), MdResolves)
  /\ rpos' = [rpos EXCEPT ![r] = @ + 1]
  /\ UNCHANGED <<nodes, names, rpc, rnode, idmap, snaps, imported, crashed>>

(* create_attribute, which the processing of the records calls.             *)
CreateAttribute(name) ==
  LET r == FindOrCreate(nodes, NameAttr, name, 0) IN
  /\ name \notin DOMAIN names /\ Len(nodes) < MaxTree /\ ~crashed
  /\ nodes' = r.nodes /\ names' = EnterName(names, r.nodes, r.id)
  /\ UNCHANGED <<globals, rpos, rpc, rnode, idmap, snaps, imported, crashed>>

(* recursive_merge_node: a node of another database, its attribute and its  *)
(* parents first.                                                           *)
RECURSIVE ImportFrom(_, _)
ImportFrom(ns, i) ==
  IF i < NBoot THEN [nodes |-> ns, id |-> i]
  ELSE LET n == NodeAt(Source, i)
           a == ImportFrom(ns, n.attr)
           p == IF n.parent = NoId THEN [nodes |-> a.nodes, id |-> NoId] ELSE ImportFrom(a.nodes, n.parent)
       IN  FindOrCreate(p.nodes, a.id, n.data, p.id)

NamesOf(ns, nm) ==       \* the new attribute nodes are entered one by one
  LET new == {i \in 0..(Len(ns) - 1) : NodeAt(ns, i).attr = NameAttr /\ NodeAt(ns, i).data \notin DOMAIN nm}
  IN  [n \in DOMAIN nm \cup {NodeAt(ns, i).data : i \in new} |->
         IF n \in DOMAIN nm THEN nm[n] ELSE CHOOSE i \in new : NodeAt(ns, i).data = n]

Import(i) ==
  LET r == ImportFrom(nodes, i) IN
  /\ Len(imported) < MaxImports /\ ~crashed
  /\ nodes' = r.nodes /\ imported' = Append(imported, <<i, r.id>>)
  /\ names' = NamesOf(r.nodes, names)
  /\ UNCHANGED <<globals, rpos, rpc, rnode, idmap, snaps, crashed>>

(* set_global: one entry per ASVALUE attribute; other values go into one    *)
(* branch of the tree, unless they are there or must not be merged.         *)
RECURSIVE OnPath(_, _, _, _)
OnPath(ns, id, attr, v) == id # NoId /\ (\/ NodeAt(ns, id).attr = attr /\ NodeAt(ns, id).data = v
                                         \/ OnPath(ns, NodeAt(ns, id).parent, attr, v))

Ref(id) == [kind |-> "ref", id |-> id, v |-> "none"]

SetGlobalRef(a, name, v) ==
  LET refs == {i \in DOMAIN globals : globals[i].kind = "ref"}
      first == CHOOSE i \in refs : \A j \in refs : i <= j
      below == IF refs = {} \/ name \in NoMerge THEN NoId ELSE globals[first].id
      r == MakeTreeEntry(nodes, <<<<a, v>>>>, below)
  IN  IF \E i \in refs : OnPath(nodes, globals[i].id, a, v) THEN UNCHANGED <<nodes, globals>>
      ELSE /\ nodes' = r.nodes
           /\ globals' = IF below = NoId THEN Append(globals, Ref(r.id))
                         ELSE [globals EXCEPT ![first] = Ref(r.id)]

SetGlobal(name, v) ==
  /\ name \in DOMAIN names /\ Len(nodes) < MaxTree /\ ~crashed
  /\ LET a == names[name]
         same == {i \in DOMAIN globals : globals[i].kind = "imm" /\ globals[i].id = a}
         e == [kind |-> "imm", id |-> a, v |-> v]
     IN  IF name \in AsValue
         THEN /\ globals' = IF same = {} THEN Append(globals, e)
                            ELSE [globals EXCEPT ![CHOOSE i \in same : \A j \in same : i <= j] = e]
              /\ UNCHANGED nodes
         ELSE SetGlobalRef(a, name, v)
  /\ UNCHANGED <<names, rpos, rpc, rnode, idmap, snaps, imported, crashed>>

MdNext ==
  \/ \E r \in Readers : MergeNode(r) \/ EnterAttribute(r) \/ EnterId(r) \/ MdMergeSnapshot(r) \/ MergeGlobals(r)
  \/ \E n \in NewAttrs : CreateAttribute(n)
  \/ \E i \in NBoot..(Len(Source) - 1) : Import(i)
  \/ \E g \in Globals : SetGlobal(g[1], g[2])

MdSpec == MdInit /\ [][MdNext]_mdVars

---------------------------------------------------------------------------
(* The path of a node: attribute names and values from the root.            *)
RECURSIVE Path(_, _)
Path(ns, id) == IF id = NoId THEN <<>>
                ELSE Append(Path(ns, NodeAt(ns, id).parent),
                            <<NodeAt(ns, NodeAt(ns, id).attr).data, NodeAt(ns, id).data>>)
(* What an id means in the file of reader r. *)
Defining(r, id) == CHOOSE i \in 1..Len(Streams[r]) : Streams[r][i].rec = "node" /\ Streams[r][i].id = id
InFile(r, id) == IF id < NBoot THEN NodeAt(Bootstrap, id)
                 ELSE LET rec == Streams[r][Defining(r, id)]
                      IN  [attr |-> rec.attr, data |-> rec.data, parent |-> rec.parent]
RECURSIVE FilePath(_, _)
FilePath(r, id) == IF id = NoId THEN <<>>
                   ELSE Append(FilePath(r, InFile(r, id).parent),
                               <<InFile(r, InFile(r, id).attr).data, InFile(r, id).data>>)

(* Merging keeps the meaning of every record: each reference of a snapshot  *)
(* leads to a node with the path that it has in its own file, and each      *)
(* value to an attribute of that name, whatever ids the other readers, the  *)
(* imports and the new attributes took in between.                          *)
MergeFaithful == \A r \in Readers : \A k \in DOMAIN snaps[r] :
  LET rec == Streams[r][snaps[r][k][1]]
      es  == snaps[r][k][2]
  IN  /\ Len(es) = Len(rec.refs) + Len(rec.imms)
      /\ \A i \in 1..Len(rec.refs) : Path(nodes, es[i].id) = FilePath(r, rec.refs[i])
      /\ \A i \in 1..Len(rec.imms) :
           NodeAt(nodes, es[Len(rec.refs) + i].id).data = InFile(r, rec.imms[i][1]).data
(* ... and so does the import from another database.                        *)
ImportFaithful == \A k \in DOMAIN imported :
  Path(nodes, imported[k][2]) = Path(Source, imported[k][1])

(* No node has two children with the same attribute and value, although     *)
(* readers, imports and set_global look for them at the same time.          *)
NodesUnique == \A i, j \in 1..Len(nodes) : nodes[i] = nodes[j] => i = j

(* Every attribute node is found by its name, once its reader entered it.   *)
NamesComplete == \A i \in 0..(Len(nodes) - 1) : NodeAt(nodes, i).attr = NameAttr =>
  \/ NodeAt(nodes, i).data \in DOMAIN names /\ NodeAt(nodes, names[NodeAt(nodes, i).data]).data = NodeAt(nodes, i).data
  \/ \E r \in Readers : rpc[r] = "name" /\ rnode[r] = i

(* How often the value occurs on the path up from a node. *)
RECURSIVE MdTimes(_, _, _, _)
MdTimes(ns, id, attr, v) == IF id = NoId THEN 0
  ELSE (IF NodeAt(ns, id).attr = attr /\ NodeAt(ns, id).data = v THEN 1 ELSE 0)
       + MdTimes(ns, NodeAt(ns, id).parent, attr, v)
(* "should be set only once" (test_metadb.cpp): a global value is not       *)
(* repeated in the branch of the globals, and an ASVALUE attribute has one. *)
GlobalsOnce == \A i, j \in DOMAIN globals :
  /\ globals[i].kind = "imm" /\ globals[j].kind = "imm" /\ globals[i].id = globals[j].id => i = j
  /\ globals[i].kind = "ref" => \A g \in Globals : g[1] \in DOMAIN names =>
       MdTimes(nodes, globals[i].id, names[g[1]], g[2]) <= 1

(* Files merged at the same time, imports and globals leave one database in  *)
(* which every node is there once, every name is found, and every record     *)
(* still means what it did (CaliperMetadataDB.cpp).                          *)
MetadataSound ==
  /\ MergeFaithful
  /\ ImportFaithful
  /\ NodesUnique
  /\ NamesComplete
  /\ GlobalsOnce
=============================================================================
