----------------------------- MODULE Formatters -----------------------------
(***************************************************************************)
(* The output formatters behind FormatProcessor, fed by the threads of     *)
(* cali-query, which share one formatter and one metadata database.        *)
(* Computing a record's text touches no shared state, so a formatter's     *)
(* step is what it does between two lock operations.  Text is abstracted:  *)
(* a printed value is the sequence of the values on its path, its width in *)
(* a table their number.                                                   *)
(***************************************************************************)
EXTENDS Integers, Sequences, FiniteSets, SequencesExt, FiniteSetsExt

CONSTANTS
    FmtThreads,  \* the reader threads
    FmtRecords,  \* FmtRecords[t]: the records thread t reads, in order;
                 \* an entry is [node |-> BOOLEAN, path |-> seq of <<attr, value>>]
    FmtConfigs,  \* [kind, selected (seq of names, <<>>: all), sort,
                 \*  columns: the attribute selection of the tree formatter]
    FmtGlobals,  \* the entries of the database's get_globals
    AttrNum,     \* attribute -> id
    Hidden, Global, Nested, Internal,  \* sets of attributes
    RankOf,      \* value -> its place in the order of its type
    TextWidth    \* value or attribute name -> the characters of its text

VARIABLES
    conf,        \* the configuration
    dbAttrs,     \* attributes in the database, oldest first
    fth,         \* per thread: record number, place, local variables
    sink,        \* the output: text, a table's rows, whether it is flushed
    table,       \* TableImpl: m_cols and m_rows
    hier,        \* JsonSplit: columns, Hierarchy::m_nodes; m_initialized
    stree,       \* SnapshotTree: its nodes below the root
    treeWidths,  \* TreeFormatter: widths of the path column and of the attributes seen
    fmOverlap      \* two threads were inside add_snapshot at a time

fmVars == <<conf, dbAttrs, fth, sink, table, hier, stree, treeWidths, fmOverlap>>

FmRec(t) == FmtRecords[t][fth[t].n]
RecordAttrs(rec) == UNION {{rec[i].path[k][1] : k \in DOMAIN rec[i].path} : i \in DOMAIN rec}
NewNames(seq, s) == s \o SelectSeq(seq, LAMBDA x : x \notin ToSet(s))

(* Attributes in the order a formatter meets them: entry by entry, from    *)
(* the leaf to the root.                                                   *)
RECURSIVE Met(_, _)
Met(rec, i) ==
    IF i > Len(rec) THEN <<>>
    ELSE LET names == Reverse([k \in DOMAIN rec[i].path |-> rec[i].path[k][1]])
             later == Met(rec, i + 1)
         IN  SelectSeq(names, LAMBDA x : TRUE) \o later
RECURSIVE Unique(_)
Unique(s) == IF s = <<>> THEN <<>>
             ELSE LET f == Unique(Front(s)) IN NewNames(<<Last(s)>>, f)

Attributes(rec) == Unique(Met(rec, 1))

(* The values of attribute a in the first entry that has it, root first    *)
ValuesIn(e, a) ==
    LET hit == SelectSeq(e.path, LAMBDA x : x[1] = a)
    IN  [k \in DOMAIN hit |-> hit[k][2]]

ValueOf(rec, a) ==
    LET with == {i \in DOMAIN rec : ValuesIn(rec[i], a) # <<>>}
    IN  IF with = {} THEN <<>> ELSE ValuesIn(rec[Min(with)], a)

FmIdle == [n |-> 1, pc |-> "idle", cols |-> <<>>, row |-> <<>>, todo |-> <<>>, node |-> 0]

Column(name, print, dir) ==
    [name |-> name, known |-> FALSE, width |-> 1, print |-> print, dir |-> dir]

(* TableImpl::configure                                                    *)
Configure(c) ==
    [cols |-> [i \in DOMAIN c.sort |-> Column(c.sort[i][1], FALSE, c.sort[i][2])]
              \o [i \in DOMAIN c.selected |-> Column(c.selected[i], TRUE, "None")],
     rows |-> <<>>]

FmInit ==
    /\ conf \in FmtConfigs
    /\ dbAttrs = <<>>
    /\ fth = [t \in FmtThreads |-> FmIdle]
    /\ sink = [out |-> <<>>, sorted |-> <<>>, lines |-> <<>>, doc |-> <<>>, done |-> FALSE]
    /\ table = Configure(conf)
    /\ hier = [init |-> FALSE, cols |-> <<>>, nodes |-> <<>>, rows |-> <<>>]
    /\ stree = <<>> /\ treeWidths = [path |-> 0, cols |-> [a \in DOMAIN AttrNum |-> 0]]
    /\ fmOverlap = FALSE

FmGoto(t, pc) == [fth EXCEPT ![t].pc = pc]
FmNextRec(t) == [fth EXCEPT ![t] = [FmIdle EXCEPT !.n = fth[t].n + 1]]

(* The reader merges a record's attributes before it is processed, then    *)
(* FormatProcessor hands it to the formatter that was created.             *)
ReadRecord(t) ==
    /\ fth[t].pc = "idle" /\ fth[t].n <= Len(FmtRecords[t])
    /\ dbAttrs' = NewNames(Attributes(FmRec(t)), dbAttrs)
    /\ fth' = FmGoto(t, conf.kind)
    /\ UNCHANGED <<conf, sink, table, hier, stree, treeWidths, fmOverlap>>

(***************************************************************************)
(* JsonFormatter, Expand and UserFormatter print a record in one locked    *)
(* write; the first record opens the JSON array.                           *)
(***************************************************************************)
JsonSelects(e, a) ==
    IF e.node
    THEN IF conf.selected # <<>> THEN a \in ToSet(conf.selected)
         ELSE a \notin Hidden /\ a \notin Global
    ELSE a \notin Hidden /\ (conf.selected # <<>> => a \in ToSet(conf.selected))

ExpandSelects(a) == conf.selected # <<>> => a \in ToSet(conf.selected)

(* One pair per attribute of an entry, by descending attribute id.         *)
Pairs(e, selected) ==
    LET chosen == {e.path[k][1] : k \in DOMAIN e.path} \cap selected
        nth(k) == CHOOSE a \in chosen :
                     Cardinality({b \in chosen : AttrNum[b] > AttrNum[a]}) = k - 1
    IN  [k \in 1..Cardinality(chosen) |-> <<nth(k), ValuesIn(e, nth(k))>>]

JsonPairs(rec) ==
    FlattenSeq([i \in DOMAIN rec |-> Pairs(rec[i], {a \in DOMAIN AttrNum : JsonSelects(rec[i], a)})])

ExpandPairs(rec) ==
    FlattenSeq([i \in DOMAIN rec |-> Pairs(rec[i], {a \in DOMAIN AttrNum : ExpandSelects(a)})])

(* UserFormatter::print: the selected names are the fields of the format   *)
UserFields(rec) == [k \in DOMAIN conf.selected |->
                        <<conf.selected[k], ValueOf(rec, conf.selected[k])>>]

Opening(out) == IF out = <<>> THEN "[" ELSE ","

JsonPrint(t) ==
    /\ fth[t].pc = "json"
    /\ sink' = IF JsonPairs(FmRec(t)) = <<>> THEN sink
               ELSE [sink EXCEPT !.out = @ \o <<<<<<Opening(@)>>>>, JsonPairs(FmRec(t))>>]
    /\ fth' = FmNextRec(t)
    /\ UNCHANGED <<conf, dbAttrs, table, hier, stree, treeWidths, fmOverlap>>

ExpandPrint(t) ==
    /\ fth[t].pc = "expand"
    /\ sink' = IF ExpandPairs(FmRec(t)) = <<>> THEN sink
               ELSE [sink EXCEPT !.out = Append(@, ExpandPairs(FmRec(t)))]
    /\ fth' = FmNextRec(t)
    /\ UNCHANGED <<conf, dbAttrs, table, hier, stree, treeWidths, fmOverlap>>

UserPrint(t) ==
    /\ fth[t].pc = "format"
    /\ sink' = [sink EXCEPT !.out = Append(@, UserFields(FmRec(t)))]
    /\ fth' = FmNextRec(t)
    /\ UNCHANGED <<conf, dbAttrs, table, hier, stree, treeWidths, fmOverlap>>

(***************************************************************************)
(* TableImpl::add: update_columns under m_col_lock, the row under          *)
(* m_row_lock, the new widths under m_col_lock again.                      *)
(***************************************************************************)
AutoColumns(rec) ==
    LET have == {table.cols[i].name : i \in {j \in DOMAIN table.cols : table.cols[j].dir = "None"}}
        new == SelectSeq(Attributes(rec), LAMBDA a : a \notin have \cup Internal)
    IN  IF conf.selected # <<>> THEN <<>>
        ELSE [i \in DOMAIN new |-> [Column(new[i], TRUE, "None") EXCEPT !.known = TRUE]]

UpdateColumns(t) ==
    /\ fth[t].pc = "table"
    /\ LET cols == table.cols \o AutoColumns(FmRec(t))
           seen == [i \in DOMAIN cols |-> [cols[i] EXCEPT
                       !.known = @ \/ cols[i].name \in ToSet(dbAttrs)]]
           row == [i \in DOMAIN seen |-> IF seen[i].known THEN ValueOf(FmRec(t), seen[i].name)
                                         ELSE <<>>]
       IN  /\ table' = [table EXCEPT !.cols = seen]
           /\ fth' = [fth EXCEPT ![t].pc = "row", ![t].row = row,
                         ![t].cols = [i \in DOMAIN seen |->
                             Max({seen[i].width, Len(row[i])})]]
    /\ UNCHANGED <<conf, dbAttrs, sink, hier, stree, treeWidths, fmOverlap>>

PushRow(t) ==
    /\ fth[t].pc = "row"
    /\ table' = IF \A i \in DOMAIN fth[t].row : fth[t].row[i] = <<>> THEN table
                ELSE [table EXCEPT !.rows = Append(@, [of |-> <<t, fth[t].n>>,
                                                       cells |-> fth[t].row])]
    /\ fth' = FmGoto(t, "widths")
    /\ UNCHANGED <<conf, dbAttrs, sink, hier, stree, treeWidths, fmOverlap>>

NewWidth(t, i) == Max({table.cols[i].width, fth[t].cols[i]})

UpdateWidths(t) ==
    /\ fth[t].pc = "widths"
    /\ table' = [table EXCEPT !.cols = [i \in DOMAIN table.cols |->
                    IF i \in DOMAIN fth[t].cols
                    THEN [table.cols[i] EXCEPT !.width = NewWidth(t, i)]
                    ELSE table.cols[i]]]
    /\ fth' = FmNextRec(t)
    /\ UNCHANGED <<conf, dbAttrs, sink, hier, stree, treeWidths, fmOverlap>>

(***************************************************************************)
(* JsonSplitFormatter: the columns are fixed when the first record comes.  *)
(* Hierarchy::get_id looks for a child without the lock and creates it     *)
(* under m_nodes_lock.  A node's id is its index in m_nodes.               *)
(***************************************************************************)
SplitColumns ==
    LET attrs == SelectSeq(dbAttrs, LAMBDA a : conf.selected # <<>> => a \in ToSet(conf.selected))
        plain == SelectSeq(attrs, LAMBDA a : a \notin Nested)
        path  == SelectSeq(attrs, LAMBDA a : a \in Nested)
    IN  [i \in DOMAIN plain |-> <<plain[i]>>] \o (IF path = <<>> THEN <<>> ELSE <<path>>)

StoredAsValue(a) ==
    \E t \in FmtThreads : \E n \in DOMAIN FmtRecords[t] : \E i \in DOMAIN FmtRecords[t][n] :
        ~FmtRecords[t][n][i].node /\ FmtRecords[t][n][i].path[1][1] = a

IsHierarchy(col) == col[1] \in Nested \/ ~StoredAsValue(col[1])

InitColumns(t) ==
    /\ fth[t].pc = "json-split"
    /\ hier' = IF hier.init THEN hier ELSE [hier EXCEPT !.init = TRUE, !.cols = SplitColumns]
    /\ fth' = FmGoto(t, "column")
    /\ UNCHANGED <<conf, dbAttrs, sink, table, stree, treeWidths, fmOverlap>>

(* The path of a record along the attributes of a column: the entries in   *)
(* order, each from leaf to root, all of it reversed.                      *)
PathAlong(rec, attrs) ==
    LET up(i) == LET hit == SelectSeq(rec[i].path, LAMBDA x : x[1] \in attrs)
                 IN  IF rec[i].node THEN Reverse([k \in DOMAIN hit |-> hit[k][2]]) ELSE <<>>
    IN  Reverse(FlattenSeq([i \in DOMAIN rec |-> up(i)]))

BeginColumn(t) ==
    /\ fth[t].pc = "column" /\ Len(fth[t].row) < Len(hier.cols)
    /\ LET col == hier.cols[Len(fth[t].row) + 1]
       IN  fth' = IF IsHierarchy(col)
                  THEN [fth EXCEPT ![t].pc = "walk", ![t].node = 0,
                                   ![t].todo = PathAlong(FmRec(t), ToSet(col))]
                  ELSE [fth EXCEPT ![t].row = Append(@, ValueOf(FmRec(t), col[1]))]
    /\ UNCHANGED <<conf, dbAttrs, sink, table, hier, stree, treeWidths, fmOverlap>>

ChildrenOf(nodes, p, label) == {i \in DOMAIN nodes : nodes[i].parent = p /\ nodes[i].label = label}

HierWalk(t) ==
    /\ fth[t].pc = "walk"
    /\ LET label == fth[t].todo[1]
           found == ChildrenOf(hier.nodes, fth[t].node, label)
       IN  fth' = IF fth[t].todo = <<>>
                  THEN [fth EXCEPT ![t].pc = "column", ![t].row = Append(@, <<fth[t].node>>)]
                  ELSE IF found = {} THEN FmGoto(t, "create")
                  ELSE [fth EXCEPT ![t].node = Max(found), ![t].todo = Tail(@)]
    /\ UNCHANGED <<conf, dbAttrs, sink, table, hier, stree, treeWidths, fmOverlap>>

(* A defect: the walk does not go on at the node it has created.           *)
HierCreateStays(t) ==
    /\ fth[t].pc = "create"
    /\ hier' = [hier EXCEPT !.nodes =
                   Append(@, [parent |-> fth[t].node, label |-> fth[t].todo[1]])]
    /\ fth' = [fth EXCEPT ![t].pc = "walk", ![t].todo = Tail(@)]
    /\ UNCHANGED <<conf, dbAttrs, sink, table, stree, treeWidths, fmOverlap>>

HierCreate(t) ==
    /\ fth[t].pc = "create"
    /\ hier' = [hier EXCEPT !.nodes =
                   Append(@, [parent |-> fth[t].node, label |-> fth[t].todo[1]])]
    /\ fth' = [fth EXCEPT ![t].pc = "walk", ![t].node = Len(hier.nodes) + 1,
                          ![t].todo = Tail(@)]
    /\ UNCHANGED <<conf, dbAttrs, sink, table, stree, treeWidths, fmOverlap>>

WriteRow(t) ==
    /\ fth[t].pc = "column" /\ Len(fth[t].row) = Len(hier.cols)
    /\ hier' = [hier EXCEPT !.rows = Append(@, [of |-> <<t, fth[t].n>>, cells |-> fth[t].row])]
    /\ fth' = FmNextRec(t)
    /\ UNCHANGED <<conf, dbAttrs, sink, table, stree, treeWidths, fmOverlap>>

(***************************************************************************)
(* TreeFormatter::add and SnapshotTree::add_snapshot, which no lock guards.*)
(* A record without path attributes is dropped; the node at the end of the *)
(* path is used if it is empty, else a sibling is made.                    *)
(***************************************************************************)
IsPathAttr(a) == IF conf.selected = <<>> THEN a \in Nested ELSE a \in ToSet(conf.selected)

TreePath(rec) ==
    LET up(i) == SelectSeq(Reverse(rec[i].path), LAMBDA x : IsPathAttr(x[1]))
    IN  Reverse(FlattenSeq([i \in DOMAIN rec |-> up(i)]))

InReportTree(t) == fth[t].pc \in {"descend", "append", "claim", "measure"}

AddSnapshot(t) ==
    /\ fth[t].pc = "tree"
    /\ IF TreePath(FmRec(t)) = <<>> THEN fth' = FmNextRec(t) /\ UNCHANGED fmOverlap
       ELSE /\ fth' = [fth EXCEPT ![t].pc = "descend", ![t].node = 0,
                                  ![t].todo = TreePath(FmRec(t))]
            /\ fmOverlap' = (fmOverlap \/ \E o \in FmtThreads : InReportTree(o))
    /\ UNCHANGED <<conf, dbAttrs, sink, table, hier, stree, treeWidths>>

Descend(t) ==
    /\ fth[t].pc = "descend"
    /\ LET found == ChildrenOf(stree, fth[t].node, fth[t].todo[1])
       IN  fth' = IF fth[t].todo = <<>> THEN FmGoto(t, "claim")
                  ELSE IF found = {} THEN FmGoto(t, "append")
                  ELSE [fth EXCEPT ![t].node = Max(found), ![t].todo = Tail(@)]
    /\ UNCHANGED <<conf, dbAttrs, sink, table, hier, stree, treeWidths, fmOverlap>>

AppendTreeNode(t) ==
    /\ fth[t].pc = "append"
    /\ stree' = Append(stree, [parent |-> fth[t].node, label |-> fth[t].todo[1],
                               rec |-> <<>>])
    /\ fth' = [fth EXCEPT ![t].pc = "descend", ![t].node = Len(stree) + 1, ![t].todo = Tail(@)]
    /\ UNCHANGED <<conf, dbAttrs, sink, table, hier, treeWidths, fmOverlap>>

Reusable(node) == node.rec = <<>>

ClaimNode(t) ==
    /\ fth[t].pc = "claim"
    /\ LET node == stree[fth[t].node]
       IN  /\ stree' = IF Reusable(node)
                       THEN [stree EXCEPT ![fth[t].node].rec = <<t, fth[t].n>>]
                       ELSE Append(stree, [node EXCEPT !.rec = <<t, fth[t].n>>])
           /\ fth' = [fth EXCEPT ![t].pc = "measure",
                                 ![t].node = IF Reusable(node) THEN @ ELSE Len(stree) + 1]
    /\ UNCHANGED <<conf, dbAttrs, sink, table, hier, treeWidths, fmOverlap>>

(* What add_snapshot keeps of a record besides its path: for every other   *)
(* attribute the value met first.                                          *)
NodeValue(rec, a) ==
    LET vals == ValueOf(rec, a) IN IF vals = <<>> \/ IsPathAttr(a) THEN <<>> ELSE <<Last(vals)>>

RECURSIVE Depth(_)
Depth(i) == IF i = 0 THEN 0 ELSE 1 + Depth(stree[i].parent)

WidthWith(old, cell, name) ==
    IF cell = <<>> THEN old ELSE Max({old, TextWidth[cell[1]], IF old = 0 THEN TextWidth[name] ELSE 0})

(* TreeFormatterImpl::add: the columns get wide enough for the new node.   *)
UpdateTreeWidths(t) ==
    /\ fth[t].pc = "measure"
    /\ LET node == fth[t].node
       IN  treeWidths' =
             [path |-> Max({treeWidths.path, TextWidth[stree[node].label[2]] + 2 * Depth(node)}),
              cols |-> [a \in DOMAIN AttrNum |->
                          WidthWith(treeWidths.cols[a], NodeValue(FmRec(t), a), a)]]
    /\ fth' = FmNextRec(t)
    /\ UNCHANGED <<conf, dbAttrs, sink, table, hier, stree, fmOverlap>>

(***************************************************************************)
(* flush.  The table is sorted once per sort column, in the order of the   *)
(* sort list; stable_sort keeps the order of equal rows.                   *)
(***************************************************************************)
Rank(cell) == IF cell = <<>> THEN 0 ELSE RankOf[cell[1]]

Before(rows, c, dir, i, j) ==
    LET a == Rank(rows[i].cells[c])
        b == Rank(rows[j].cells[c])
    IN  (IF dir = "Ascending" THEN a < b ELSE a > b) \/ (a = b /\ i < j)

StableSort(rows, c, dir) ==
    [k \in DOMAIN rows |-> rows[CHOOSE i \in DOMAIN rows :
        Cardinality({j \in DOMAIN rows : Before(rows, c, dir, j, i)}) = k - 1]]

RECURSIVE SortRows(_, _)
SortRows(rows, c) ==
    IF c > Len(table.cols) \/ table.cols[c].dir = "None" THEN rows
    ELSE SortRows(StableSort(rows, c, table.cols[c].dir), c + 1)

(* TreeFormatterImpl::flush: the attribute columns, by default those of    *)
(* the records that are neither hidden nor internal.                       *)
TreeColumns ==
    LET met == SetToSortSeq({a \in DOMAIN AttrNum : treeWidths.cols[a] > 0},
                            LAMBDA a, b : AttrNum[a] < AttrNum[b])
    IN  CASE conf.columns.selection = "Default" -> SelectSeq(met, LAMBDA a : a \notin Hidden \cup Internal)
          [] conf.columns.selection = "All" -> met
          [] conf.columns.selection = "List" -> SelectSeq(conf.columns.list, LAMBDA a : a \in ToSet(dbAttrs))
          [] OTHER -> <<>>

TreeLine(i, level) ==
    [level |-> level, label |-> stree[i].label,
     cells |-> [c \in DOMAIN TreeColumns |->
                  IF stree[i].rec = <<>> THEN <<>>
                  ELSE NodeValue(FmtRecords[stree[i].rec[1]][stree[i].rec[2]], TreeColumns[c])]]

(* The children of a node, the newest first.                               *)
ChildList(p) == Reverse(SelectSeq([i \in DOMAIN stree |-> i], LAMBDA i : stree[i].parent = p))

(* recursive_print_nodes: a line for each child, its own children below.   *)
RECURSIVE PrintNodes(_, _)
PrintNodes(p, level) ==
    FlattenSeq([k \in DOMAIN ChildList(p) |->
        <<TreeLine(ChildList(p)[k], level)>> \o PrintNodes(ChildList(p)[k], level + 1)])

(* write_globals: walking up from the leaf, a value goes before the ones   *)
(* its attribute has already.                                              *)
GlobalValues ==
    LET put(m, x) == [m EXCEPT ![x[1]] = <<x[2]>> \o @]
    IN  FoldLeft(LAMBDA m, e : IF e.node THEN FoldLeft(put, m, Reverse(e.path))
                               ELSE [m EXCEPT ![e.path[1][1]] = <<e.path[1][2]>>],
                 [a \in DOMAIN AttrNum |-> <<>>], FmtGlobals)

(* write_metadata of the split JSON output: titles, kinds, nodes, globals. *)
WriteMetadata ==
    [columns |-> [c \in DOMAIN hier.cols |->
                    [title |-> IF hier.cols[c][1] \in Nested THEN "path" ELSE hier.cols[c][1],
                     is_value |-> ~IsHierarchy(hier.cols[c])]],
     nodes |-> hier.nodes, globals |-> GlobalValues]

AllRead == \A t \in FmtThreads : fth[t].pc = "idle" /\ fth[t].n > Len(FmtRecords[t])

FlushFormatter ==
    /\ AllRead /\ ~sink.done
    /\ sink' = [out |-> IF conf.kind = "json" THEN Append(sink.out, <<<<"]">>>>) ELSE sink.out,
                sorted |-> IF conf.kind = "table" THEN SortRows(table.rows, 1) ELSE <<>>,
                lines |-> IF conf.kind = "tree" THEN PrintNodes(0, 0) ELSE <<>>,
                doc |-> IF conf.kind = "json-split" THEN <<WriteMetadata>> ELSE <<>>,
                done |-> TRUE]
    /\ UNCHANGED <<conf, dbAttrs, fth, table, hier, stree, treeWidths, fmOverlap>>

FmStep(t) ==
    \/ ReadRecord(t) \/ JsonPrint(t) \/ ExpandPrint(t) \/ UserPrint(t)
    \/ UpdateColumns(t) \/ PushRow(t) \/ UpdateWidths(t)
    \/ InitColumns(t) \/ BeginColumn(t) \/ HierWalk(t) \/ HierCreate(t) \/ WriteRow(t)
    \/ AddSnapshot(t) \/ Descend(t) \/ AppendTreeNode(t) \/ ClaimNode(t) \/ UpdateTreeWidths(t)

FmNext == (\E t \in FmtThreads : FmStep(t)) \/ FlushFormatter

FmSpec == FmInit /\ [][FmNext]_fmVars
-----------------------------------------------------------------------------
Everything == UNION {{<<t, n>> : n \in DOMAIN FmtRecords[t]} : t \in FmtThreads}
RecordOf(x) == FmtRecords[x[1]][x[2]]

(* The JSON array has a bracket, then records separated by single commas,  *)
(* then a bracket, whichever thread writes first, and every record with    *)
(* something to print is in it once.  (Without any such record the flush   *)
(* writes the closing bracket alone.)                                      *)
JsonWellFormed ==
    (sink.done /\ conf.kind = "json" /\ Len(sink.out) > 1) =>
        LET n == Cardinality({x \in Everything : JsonPairs(RecordOf(x)) # <<>>})
        IN  /\ Len(sink.out) = 2 * n + 1
            /\ sink.out[1] = <<<<"[">>>> /\ sink.out[2 * n + 1] = <<<<"]">>>>
            /\ \A k \in 2..n : sink.out[2 * k - 1] = <<<<",">>>>
            /\ \A x \in Everything : JsonPairs(RecordOf(x)) # <<>> =>
                  \E k \in 1..n : sink.out[2 * k] = JsonPairs(RecordOf(x))

(* What a hierarchy node stands for: the labels from the root to it.       *)
RECURSIVE Labels(_, _)
Labels(nodes, i) == IF i = 0 THEN <<>> ELSE Append(Labels(nodes, nodes[i].parent), nodes[i].label)

(* The split JSON document is consistent, although threads look up and     *)
(* create hierarchy nodes concurrently: every row has one cell per column, *)
(* the node number in a hierarchy cell leads through the node table to the *)
(* path of the record, a value cell holds the record's value, and the      *)
(* globals have their values from the outermost to the innermost.          *)
SplitRowsResolve ==
    (sink.done /\ conf.kind = "json-split") =>
        LET doc == sink.doc[1]
        IN  /\ \A r \in ToSet(hier.rows) :
                  /\ Len(r.cells) = Len(doc.columns)
                  /\ \A c \in DOMAIN doc.columns :
                        IF doc.columns[c].is_value
                        THEN r.cells[c] = ValueOf(RecordOf(r.of), doc.columns[c].title)
                        ELSE Labels(doc.nodes, r.cells[c][1])
                                = PathAlong(RecordOf(r.of), IF doc.columns[c].title = "path" THEN Nested
                                                            ELSE {doc.columns[c].title})
            /\ \A a \in DOMAIN AttrNum : doc.globals[a] = ValueOf(FmtGlobals, a)

(* A table row keeps its columns: the cell at a printed column's index is  *)
(* the record's value of that column's attribute, although other threads   *)
(* add columns meanwhile, and once all records are in, no cell is wider    *)
(* than its column.                                                        *)
TableFaithful ==
    \A r \in ToSet(table.rows) : \A c \in DOMAIN r.cells :
        /\ r.cells[c] # <<>> => r.cells[c] = ValueOf(RecordOf(r.of), table.cols[c].name)
        /\ (c \in DOMAIN r.cells /\ conf.selected = <<>>) =>
              \A a \in RecordAttrs(RecordOf(r.of)) \ Internal :
                  \E k \in DOMAIN r.cells : table.cols[k].name = a /\ r.cells[k] # <<>>
        /\ AllRead => Len(r.cells[c]) <= table.cols[c].width

(* The printed rows are ordered by the sort columns, the last one of the   *)
(* list counting most, and rows equal in all of them stay in the order     *)
(* they came in.                                                           *)
TableOrdered ==
    (sink.done /\ conf.kind = "table") =>
        LET cs == {c \in DOMAIN table.cols : table.cols[c].dir # "None"}
            rows == sink.sorted
            same(i, j, c) == Rank(rows[i].cells[c]) = Rank(rows[j].cells[c])
            inOrder(i, j, c) == IF table.cols[c].dir = "Ascending"
                                THEN Rank(rows[i].cells[c]) < Rank(rows[j].cells[c])
                                ELSE Rank(rows[i].cells[c]) > Rank(rows[j].cells[c])
            arrived(r) == CHOOSE k \in DOMAIN table.rows : table.rows[k] = r
        IN  \A i, j \in DOMAIN rows : i < j =>
               \/ \E c \in cs : inOrder(i, j, c) /\ \A d \in cs : d > c => same(i, j, d)
               \/ (\A c \in cs : same(i, j, c)) /\ arrived(rows[i]) < arrived(rows[j])

(* The snapshot tree keeps every record: one node per record that has a    *)
(* path, below nodes that spell its path, as long as the threads' calls of *)
(* add_snapshot do not overlap.                                              *)
TreeKeepsRecords ==
    (AllRead /\ conf.kind = "tree" /\ ~fmOverlap) =>
        \A x \in Everything :
            LET at == {i \in DOMAIN stree : stree[i].rec = x}
            IN  IF TreePath(RecordOf(x)) = <<>> THEN at = {}
                ELSE /\ Cardinality(at) = 1
                     /\ \A i \in at : Labels(stree, i) = TreePath(RecordOf(x))

(* The path of a printed line, as its indentation shows it.                *)
RECURSIVE LinePath(_, _)
LinePath(lines, i) ==
    IF lines[i].level = 0 THEN <<lines[i].label>>
    ELSE Append(LinePath(lines, Max({j \in 1..(i - 1) : lines[j].level = lines[i].level - 1})),
                lines[i].label)

CellsOf(x) == [c \in DOMAIN TreeColumns |-> NodeValue(RecordOf(x), TreeColumns[c])]

(* The printed tree can be read by its indentation: there is a line for    *)
(* every node, and a line of its own for every record with a path, below   *)
(* the lines that spell the path, with the record's values, none of them   *)
(* wider than its column (unless threads were in add_snapshot together).   *)
TreePrinted ==
    (sink.done /\ conf.kind = "tree" /\ ~fmOverlap) =>
        LET lines == sink.lines
            withPath == {x \in Everything : TreePath(RecordOf(x)) # <<>>}
            Same(x, y) == TreePath(RecordOf(x)) = TreePath(RecordOf(y)) /\ CellsOf(x) = CellsOf(y)
            Shows(i, x) == LinePath(lines, i) = TreePath(RecordOf(x)) /\ lines[i].cells = CellsOf(x)
        IN  /\ Len(lines) = Len(stree)
            /\ \A x \in withPath :
                  LET own == {i \in DOMAIN lines : Shows(i, x)}
                  IN  /\ Cardinality(own) >= Cardinality({y \in withPath : Same(x, y)})
                      /\ \A i \in own :
                            /\ 2 * lines[i].level + TextWidth[lines[i].label[2]] <= treeWidths.path
                            /\ \A c \in DOMAIN TreeColumns : lines[i].cells[c] # <<>> =>
                                  TextWidth[lines[i].cells[c][1]] <= treeWidths.cols[TreeColumns[c]]

(* Whichever formatter is used, and however threads feed it, the document    *)
(* is well-formed and shows the records it was given, with their values in   *)
(* the right places.                                                         *)
ReportFaithful ==
  /\ JsonWellFormed
  /\ SplitRowsResolve
  /\ TableFaithful
  /\ TableOrdered
  /\ TreeKeepsRecords
  /\ TreePrinted
=============================================================================
