------------------------------ MODULE QueryTool ------------------------------
(***************************************************************************)
(* The command line tools over the reader library: cali-query (threads     *)
(* take the input files from a shared index and feed their records through *)
(* a processing chain built from the options), cali-graph and cali-stat    *)
(* (one thread).  The metadata database gives every distinct node an id    *)
(* (module MetadataDB); node and snapshot records then go down the chain.  *)
(***************************************************************************)
EXTENDS Integers, Sequences, FiniteSets, FiniteSetsExt, SequencesExt

CONSTANTS
    QtThreads,
    QtFiles,        \* a sequence of files, each a sequence of records
    QtNodes,        \* node key -> [attr, text, parent]; two node records with the
                    \* same key are the same node, parent 0 is the root
    IsAttrNode,     \* the keys that are attribute nodes
    IsGlobal,       \* the attribute nodes of global attributes
    QtRuns          \* [tool, list, globals, aggregate, select, reuse, max]: runs to check

VARIABLES
    qt,             \* the options, and how far main() is
    dbIds,          \* node key -> id in the metadata database, 0 for none
    index,          \* the next file, shared by the threads
    qtth,           \* the threads
    maxNode,        \* FilterDuplicateNodes::m_max_node of the chain
    down,           \* what went down the chain, per node key and per snapshot
    stat,           \* cali-stat: the counters of CaliStreamStat
    reuse,          \* cali-stat: attribute -> [nodes, data: text -> uses] of ReuseStat
    dot,            \* cali-graph: [nodes, edges] printed
    written         \* the records the formatter was given, the results printed

qtVars == <<qt, dbIds, index, qtth, maxNode, down, stat, reuse, dot, written>>

QtKeys == DOMAIN QtNodes
QtAttrs == {QtNodes[k].attr : k \in QtKeys}
QtTexts == {QtNodes[k].text : k \in QtKeys}

(* A node and its ancestors below the root.                                *)
QtPath[k \in QtKeys] ==
    {k} \cup IF QtNodes[k].parent = 0 THEN {} ELSE QtPath[QtNodes[k].parent]

QtInit ==
    /\ \E r \in QtRuns : qt = [opt |-> r, at |-> "process"]
    /\ dbIds = [k \in QtKeys |-> 0] /\ index = 1 /\ maxNode = 0
    /\ qtth = [t \in QtThreads |-> [at |-> "take", file |-> 0, pos |-> 0]]
    /\ down = [nodes |-> [k \in QtKeys |-> 0], repeats |-> [k \in QtKeys |-> 0],
               read |-> [f \in DOMAIN QtFiles |-> 0], snaps |-> 0]
    /\ stat = [nodes |-> 0, snaps |-> 0, refs |-> 0, vals |-> 0, total |-> 0,
               min |-> 99, max |-> 0, attrRefs |-> 0]
    /\ reuse = [a \in QtAttrs |-> [nodes |-> 0, data |-> [x \in QtTexts |-> 0]]]
    /\ dot = [nodes |-> {}, edges |-> {}]
    /\ written = [snaps |-> 0, attrs |-> {}, globals |-> {}, results |-> <<>>]

QtWorkers(o) == IF o.tool = "query" THEN QtThreads ELSE {CHOOSE t \in QtThreads : TRUE}

Advance(i) == i + 1

(* thread_fn: index++ is atomic. *)
TakeFile(t) ==
    /\ qt.at = "process" /\ qt.opt.tool = "query" /\ qtth[t].at = "take"
    /\ index' = Advance(index)
    /\ qtth' = [qtth EXCEPT ![t] = [at |-> IF index <= Len(QtFiles) THEN "read" ELSE "done",
                                    file |-> index, pos |-> 1]]
    /\ UNCHANGED <<qt, dbIds, maxNode, down, stat, reuse, dot, written>>

(* main of cali-stat and cali-graph: the loop over the arguments.           *)
NextArgument(t) ==
    /\ qt.at = "process" /\ qt.opt.tool # "query" /\ t \in QtWorkers(qt.opt) /\ qtth[t].at = "take"
    /\ index' = index + 1
    /\ qtth' = [qtth EXCEPT ![t] = [at |-> IF index <= Len(QtFiles) THEN "read" ELSE "done",
                                    file |-> index, pos |-> 1]]
    /\ UNCHANGED <<qt, dbIds, maxNode, down, stat, reuse, dot, written>>

Rec(t) == QtFiles[qtth[t].file][qtth[t].pos]
Reading(t) == qtth[t].at = "read" /\ qtth[t].pos <= Len(QtFiles[qtth[t].file])
NextRec(t) == [qtth EXCEPT ![t].at = "read", ![t].pos = @ + 1]

(* CsvReader::read returns; the next file. *)
EndOfFile(t) ==
    /\ qtth[t].at = "read" /\ ~Reading(t)
    /\ qtth' = [qtth EXCEPT ![t].at = "take"]
    /\ UNCHANGED <<qt, dbIds, index, maxNode, down, stat, reuse, dot, written>>

(* merge: the node is found or created, the record then goes down the chain. *)
MergeRecord(t) ==
    /\ Reading(t) /\ Rec(t).rec = "node"
    /\ dbIds' = IF dbIds[Rec(t).k] # 0 THEN dbIds
                ELSE [dbIds EXCEPT ![Rec(t).k] = Cardinality({k \in QtKeys : dbIds[k] # 0}) + 1]
    /\ qtth' = [qtth EXCEPT ![t].at = "filter"]
    /\ UNCHANGED <<qt, index, maxNode, down, stat, reuse, dot, written>>

(* A defect: the newest node is taken for a duplicate.                     *)
FilterDropsNewest(id, max) == id > max

(* FilterDuplicateNodes::operator(): only nodes that are older than the    *)
(* newest one seen are dropped.                                            *)
FilterPasses(id, max) == id >= max

(***************************************************************************)
(* cali-query and cali-graph hand the chain to CaliperMetadataDB::merge by *)
(* value (CaliperMetadataDB.h:76), so every record meets a copy of the     *)
(* filter as it was built, with m_max_node 0; cali-stat calls the one      *)
(* object.                                                                 *)
(***************************************************************************)
QtPasses(id) == FilterPasses(id, IF qt.opt.tool = "stat" THEN maxNode ELSE 0)

(* AttributeExtract::process_node makes a record of an attribute node.     *)
Extracts(k) == qt.opt.tool = "query" /\ qt.opt.list /\ ~qt.opt.globals /\ k \in IsAttrNode

(* CaliStreamStat::process_node.                                           *)
StatNode == [stat EXCEPT !.nodes = @ + 1]

(* ReuseStat::process_node: one more node of the attribute, and one more   *)
(* use of its value.                                                       *)
ReuseNode(k) ==
    [reuse EXCEPT ![QtNodes[k].attr] = [nodes |-> @.nodes + 1, data |-> [@.data EXCEPT ![QtNodes[k].text] = @ + 1]]]

(* DotPrinter::print_node: nothing for a node beyond --max-nodes.          *)
PrintNode(k, id) ==
    IF qt.opt.max >= 0 /\ id >= qt.opt.max THEN dot
    ELSE [nodes |-> dot.nodes \cup {k},
          edges |-> IF QtNodes[k].parent = 0 THEN dot.edges ELSE dot.edges \cup {<<QtNodes[k].parent, k>>}]

FilterNode(t) ==
    /\ qtth[t].at = "filter"
    /\ \E k \in {Rec(t).k} : \E id \in {dbIds[k]} :
       /\ maxNode' = IF qt.opt.tool = "stat" /\ QtPasses(id) THEN Max({id, maxNode}) ELSE maxNode
       /\ down' = [down EXCEPT !.nodes[k] = IF QtPasses(id) THEN @ + 1 ELSE @,
                               !.repeats[k] = IF id = maxNode THEN @ + 1 ELSE @,
                               !.read[qtth[t].file] = @ + 1]
       /\ stat' = IF QtPasses(id) /\ qt.opt.tool = "stat" THEN StatNode ELSE stat
       /\ reuse' = IF QtPasses(id) /\ qt.opt.tool = "stat" /\ qt.opt.reuse THEN ReuseNode(k) ELSE reuse
       /\ dot' = IF QtPasses(id) /\ qt.opt.tool = "graph" THEN PrintNode(k, id) ELSE dot
       /\ written' = IF QtPasses(id) /\ Extracts(k)
                     THEN [written EXCEPT !.attrs = @ \cup {k}] ELSE written
    /\ qtth' = NextRec(t)
    /\ UNCHANGED <<qt, dbIds, index>>

(* How many nodes with attribute a and value x the references of a         *)
(* snapshot and their ancestors are.                                       *)
UsesIn(r, a, x) ==
    FoldSeq(LAMBDA k, n : n + Cardinality({j \in QtPath[k] : QtNodes[j].attr = a /\ QtNodes[j].text = x}),
            0, r.refs)

(* CaliStreamStat::process_snapshot.                                       *)
StatSnapshot(r) ==
    LET n == Len(r.refs) + 2 * r.vals IN
    [stat EXCEPT !.snaps = @ + 1, !.refs = @ + Len(r.refs), !.vals = @ + r.vals,
                 !.total = @ + n, !.min = Min({@, n}), !.max = Max({@, n}),
                 !.attrRefs = @ + FoldSeq(LAMBDA k, m : m + Cardinality(QtPath[k]), 0, r.refs) + r.vals]

(* ReuseStat::process_snapshot: the values of attributes seen as nodes.    *)
ReuseSnapshot(r) ==
    [a \in QtAttrs |-> [reuse[a] EXCEPT !.data =
        [x \in QtTexts |-> IF reuse[a].nodes > 0 THEN @[x] + UsesIn(r, a, x) ELSE @[x]]]]

(* The chain for snapshots: nothing when globals or attributes are listed, *)
(* else through the record selector to the aggregator or the formatter.    *)
SnapSink(o) == IF o.tool = "graph" \/ o.globals \/ o.list THEN "none"
               ELSE IF o.tool = "stat" THEN "stat"
               ELSE IF o.aggregate THEN "aggregate" ELSE "format"

ProcessSnapshot(t) ==
    /\ Reading(t) /\ Rec(t).rec = "ctx"
    /\ down' = [down EXCEPT !.read[qtth[t].file] = @ + 1,
                            !.snaps = IF SnapSink(qt.opt) = "aggregate" THEN @ + 1 ELSE @]
    /\ stat' = IF SnapSink(qt.opt) = "stat" THEN StatSnapshot(Rec(t)) ELSE stat
    /\ reuse' = IF SnapSink(qt.opt) = "stat" /\ qt.opt.reuse THEN ReuseSnapshot(Rec(t)) ELSE reuse
    /\ written' = IF SnapSink(qt.opt) = "format" THEN [written EXCEPT !.snaps = @ + 1] ELSE written
    /\ qtth' = NextRec(t)
    /\ UNCHANGED <<qt, dbIds, index, maxNode, dot>>

(* After the threads are joined: the globals, if no selection was given    *)
(* (with one, nothing is written at all); else the aggregation result and  *)
(* the formatter are flushed.                                              *)
WriteOut ==
    /\ qt.at = "process" /\ qt.opt.tool = "query" /\ \A t \in QtThreads : qtth[t].at = "done"
    /\ qt' = [qt EXCEPT !.at = "written"]
    /\ written' = IF qt.opt.globals /\ ~qt.opt.select
                  THEN [written EXCEPT !.globals = {k \in IsGlobal : dbIds[k] # 0}]
                  ELSE IF qt.opt.globals THEN written
                  ELSE [written EXCEPT !.snaps = @ + down.snaps]
    /\ UNCHANGED <<dbIds, index, qtth, maxNode, down, stat, reuse, dot>>

(* CaliStreamStat::print_results: records, elements, and (if there is a    *)
(* snapshot) the sizes of snapshots and the attributes they refer to.      *)
StreamResults ==
    [records |-> stat.snaps + stat.nodes, elements |-> stat.total + 4 * stat.nodes,
     ofNodes |-> 4 * stat.nodes, ofRefs |-> stat.refs, ofVals |-> 2 * stat.vals,
     sizes |-> IF stat.snaps < 1 THEN <<>> ELSE <<stat.min, stat.max, stat.attrRefs>>]

(* ReuseStat::print_results: nodes, distinct values and uses by attribute. *)
ReuseResults ==
    [a \in {b \in QtAttrs : reuse[b].nodes > 0} |->
        [nodes |-> reuse[a].nodes, elem |-> Cardinality({x \in QtTexts : reuse[a].data[x] > 0}),
         uses |-> MapThenSumSet(LAMBDA x : reuse[a].data[x], QtTexts)]]

(* The end of main in cali-stat and cali-graph.                            *)
PrintResults ==
    /\ qt.at = "process" /\ qt.opt.tool # "query" /\ \A t \in QtWorkers(qt.opt) : qtth[t].at = "done"
    /\ qt' = [qt EXCEPT !.at = "written"]
    /\ written' = [written EXCEPT !.results =
          IF qt.opt.tool = "graph" THEN <<>>
          ELSE <<StreamResults>> \o IF qt.opt.reuse THEN <<ReuseResults>> ELSE <<>>]
    /\ UNCHANGED <<dbIds, index, qtth, maxNode, down, stat, reuse, dot>>

QtNext ==
    \/ \E t \in QtThreads :
          \/ TakeFile(t) \/ NextArgument(t) \/ EndOfFile(t)
          \/ MergeRecord(t) \/ FilterNode(t) \/ ProcessSnapshot(t)
    \/ WriteOut \/ PrintResults

QtSpec == QtInit /\ [][QtNext]_qtVars

AllRecords == UNION {{<<f, i>> : i \in DOMAIN QtFiles[f]} : f \in DOMAIN QtFiles}
CtxRecords == {p \in AllRecords : QtFiles[p[1]][p[2]].rec = "ctx"}

(***************************************************************************)
(* Every file is read once and by one thread, however the threads race for *)
(* the index (cali-query.cpp:380), and what is written is what the options *)
(* asked for: all snapshots, or all attributes, or all globals.            *)
(***************************************************************************)
QueryComplete ==
    /\ \A f \in DOMAIN QtFiles : down.read[f] <= Len(QtFiles[f])
    /\ qt.at = "written" =>
        /\ \A f \in DOMAIN QtFiles : down.read[f] = Len(QtFiles[f])
        /\ qt.opt.tool = "query" =>
              LET o == qt.opt  present == {k \in QtKeys : dbIds[k] # 0} IN
              /\ ~o.list /\ ~o.globals => written.snaps = Cardinality(CtxRecords)
              /\ o.list /\ ~o.globals => written.attrs = IsAttrNode \cap present
              /\ o.globals /\ ~o.select => written.globals = IsGlobal \cap present

SnapOf(p) == QtFiles[p[1]][p[2]]
Size(p) == Len(SnapOf(p).refs) + 2 * SnapOf(p).vals

(***************************************************************************)
(* The statistics printed are those of the merged stream: each node is     *)
(* counted once, plus once for every record that repeats the newest node   *)
(* (the only duplicate FilterDuplicateNodes lets through); the parts of    *)
(* the elements add up to the total; and the reuse of a value is the       *)
(* number of its nodes plus that of the snapshot references at or below    *)
(* one of them (cali-stat.cpp process_node, process_snapshot).             *)
(***************************************************************************)
StatsExact ==
    qt.at = "written" /\ qt.opt.tool = "stat" =>
        LET res == written.results[1]
            nodes == MapThenSumSet(LAMBDA k : down.nodes[k], QtKeys) IN
        /\ \A k \in QtKeys : down.nodes[k] = (IF dbIds[k] = 0 THEN 0 ELSE 1) + down.repeats[k]
        /\ res.records = nodes + Cardinality(CtxRecords)
        /\ res.elements = 4 * nodes + MapThenSumSet(Size, CtxRecords)
        /\ res.elements = res.ofNodes + res.ofRefs + res.ofVals
        /\ CtxRecords # {} => /\ res.sizes[1] = Min({Size(p) : p \in CtxRecords})
                              /\ res.sizes[2] = Max({Size(p) : p \in CtxRecords})
        /\ qt.opt.reuse => \A a \in DOMAIN written.results[2] :
              LET keys == {k \in QtKeys : QtNodes[k].attr = a}
                  refs == UNION {{<<p, i>> : i \in DOMAIN SnapOf(p).refs} : p \in CtxRecords}
                  below(k) == {q \in refs : k \in QtPath[SnapOf(q[1]).refs[q[2]]]} IN
              written.results[2][a].uses =
                  MapThenSumSet(LAMBDA k : down.nodes[k] + Cardinality(below(k)), keys)

(***************************************************************************)
(* The graph is closed and complete: every edge joins two nodes that are   *)
(* printed, and every node of the merged stream up to the limit is, with   *)
(* the edge to its parent (cali-graph.cpp print_node): ids grow from       *)
(* parent to child, also when nodes of several files are merged.           *)
(***************************************************************************)
GraphClosed ==
    qt.opt.tool = "graph" =>
        /\ \A e \in dot.edges : e[1] \in dot.nodes /\ e[2] \in dot.nodes
        /\ qt.at = "written" =>
              LET shown == {k \in QtKeys : dbIds[k] # 0 /\ (qt.opt.max < 0 \/ dbIds[k] < qt.opt.max)} IN
              dot.nodes = shown /\ dot.edges = {<<QtNodes[k].parent, k>> : k \in {j \in shown : QtNodes[j].parent # 0}}

(* The tools lose nothing of what their threads read: every file is in the   *)
(* result once, in listings, statistics and graphs alike.                    *)
ToolsSound == QueryComplete /\ StatsExact /\ GraphClosed
=============================================================================
