----------------------------- MODULE CsvOutput -----------------------------
(***************************************************************************)
(* The output services: a flush (Caliper::flush_and_write) starts a new    *)
(* file in the recorder and a new query in the report service, hands both  *)
(* every snapshot record, and closes with the globals and the report.      *)
(* The recorder's CsvWriter writes every metadata node once, after the     *)
(* node's attribute and parent; cali-query lets several threads write      *)
(* records through one CsvWriter.                                          *)
(***************************************************************************)
EXTENDS Integers, Sequences, FiniteSets, SequencesExt

CONSTANTS CsvThreads,   \* threads that hand records to the writer
          CsvWork,      \* CsvWork[t]: the snapshot records t writes in a flush
          CsvGlobals,   \* the record of the global attributes
          AttrOfNode,     \* AttrOfNode[n]: attribute node of node n
          ParentNode,   \* ParentNode[n]: its parent, or 0
          FirstNode,    \* nodes below it are hard-coded and never written
          MaxRefs,      \* references a record has room for
          MaxWrites     \* bound on the number of flushes

VARIABLES file,         \* records of the current output file
          marked,       \* CsvWriterImpl::m_written_nodes
          stream,       \* OutputStream: [type, init]
          csvth,        \* csvth[t]: [todo, refs, stack]
          flush,        \* [on, done]
          report        \* Report::s_instance (if the query parses) and the reports printed

coVars == <<file, marked, stream, csvth, flush, report>>

(* A record of the file: the node it defines (0: a snapshot) and the nodes *)
(* it refers to.                                                           *)
RefsOf(snap) == SubSeq(snap.nodes, 1, IF Len(snap.nodes) > MaxRefs THEN MaxRefs ELSE Len(snap.nodes))
                \o SubSeq(snap.attrs, 1, IF Len(snap.attrs) > MaxRefs THEN MaxRefs ELSE Len(snap.attrs))

SnapRecord(snap) == [def |-> 0, refs |-> RefsOf(snap)]
NodeRecord(n) == [def |-> n, refs |-> <<AttrOfNode[n]>> \o
                     (IF ParentNode[n] = 0 THEN <<>> ELSE <<ParentNode[n]>>)]

Resting == [todo |-> <<>>, refs |-> <<>>, stack |-> <<>>]

CoInit ==
    /\ file = <<>> /\ marked = {}
    /\ stream = [type |-> "none", init |-> FALSE]
    /\ csvth = [t \in CsvThreads |-> Resting]
    /\ flush = [on |-> FALSE, done |-> 0]
    /\ \E ok \in BOOLEAN : report = [ok |-> ok, live |-> FALSE, recs |-> <<>>, printed |-> <<>>]

(* OutputStreamImpl::stream: the file is opened by the first write; if it  *)
(* cannot be, everything written is dropped.                               *)
Stream(rec) ==
    \E type \in IF stream.init THEN {stream.type} ELSE {stream.type, "none"} :
        /\ stream' = [type |-> type, init |-> TRUE]
        /\ file' = IF type = "none" THEN file ELSE Append(file, rec)

Step3(t, stack) == csvth' = [csvth EXCEPT ![t].stack = stack]
Above(t) == Front(csvth[t].stack)
Working(t, step) == csvth[t].stack # <<>> /\ Last(csvth[t].stack)[2] = step
Node3(t) == Last(csvth[t].stack)[1]
-----------------------------------------------------------------------------
(* Recorder::pre_flush_cb and Report::pre_write_cb                         *)
NewWriter == file' = <<>> /\ marked' = {} /\ stream' = [type |-> "file", init |-> FALSE]

(* A query that does not parse leaves the service without an instance.     *)
NewReport == report' = IF report.ok THEN [report EXCEPT !.live = TRUE, !.recs = <<>>] ELSE report

PreWrite ==
    /\ ~flush.on /\ flush.done < MaxWrites
    /\ NewWriter /\ NewReport
    /\ flush' = [flush EXCEPT !.on = TRUE]
    /\ csvth' = [t \in CsvThreads |->
                    [todo |-> CsvWork[t], stack |-> <<>>,
                     refs |-> IF CsvWork[t] = <<>> THEN <<>> ELSE RefsOf(Head(CsvWork[t]))]]

(* write_snapshot: first every node and attribute the record refers to ... *)
NextRef(t) ==
    /\ csvth[t].stack = <<>> /\ csvth[t].refs # <<>>
    /\ csvth' = [csvth EXCEPT ![t].refs = Tail(@), ![t].stack = <<<<Head(csvth[t].refs), "check">>>>]
    /\ UNCHANGED <<file, marked, stream, flush, report>>

(* A defect: a node is marked before its parents are written.              *)
CheckMarksNow(t) ==
    /\ Working(t, "check")
    /\ IF Node3(t) < FirstNode \/ Node3(t) \in marked
       THEN Step3(t, Above(t)) /\ UNCHANGED marked
       ELSE Step3(t, Append(Above(t), <<Node3(t), "attr">>)) /\ marked' = marked \cup {Node3(t)}
    /\ UNCHANGED <<file, stream, flush, report>>

(* recursive_write_node: known nodes are left out                          *)
Check(t) ==
    /\ Working(t, "check")
    /\ Step3(t, IF Node3(t) < FirstNode \/ Node3(t) \in marked THEN Above(t)
                ELSE Append(Above(t), <<Node3(t), "attr">>))
    /\ UNCHANGED <<file, marked, stream, flush, report>>

WriteAttr(t) ==
    /\ Working(t, "attr")
    /\ Step3(t, Above(t) \o <<<<Node3(t), "parent">>, <<AttrOfNode[Node3(t)], "check">>>>)
    /\ UNCHANGED <<file, marked, stream, flush, report>>

WriteParent(t) ==
    /\ Working(t, "parent")
    /\ Step3(t, Append(Above(t), <<Node3(t), "write">>) \o
                IF ParentNode[Node3(t)] = 0 THEN <<>> ELSE <<<<ParentNode[Node3(t)], "check">>>>)
    /\ UNCHANGED <<file, marked, stream, flush, report>>

WriteNode(t) ==
    /\ Working(t, "write")
    /\ Stream(NodeRecord(Node3(t)))
    /\ Step3(t, Append(Above(t), <<Node3(t), "mark">>))
    /\ UNCHANGED <<marked, flush, report>>

Mark(t) ==
    /\ Working(t, "mark")
    /\ marked' = marked \cup {Node3(t)}
    /\ Step3(t, Above(t))
    /\ UNCHANGED <<file, stream, flush, report>>

(* ... then the record itself; the report service gets it too.             *)
WriteCsvSnapshot(t) ==
    /\ csvth[t].stack = <<>> /\ csvth[t].refs = <<>> /\ csvth[t].todo # <<>>
    /\ Stream(SnapRecord(Head(csvth[t].todo)))
    /\ \E rest \in {Tail(csvth[t].todo)} :
       csvth' = [csvth EXCEPT ![t] = [todo |-> rest, stack |-> <<>>,
                    refs |-> IF rest = <<>> THEN <<>> ELSE RefsOf(Head(rest))]]
    /\ report' = [report EXCEPT !.recs = IF report.live THEN Append(@, Head(csvth[t].todo)) ELSE @]
    /\ UNCHANGED <<marked, flush>>

(* Recorder::post_write_cb and Report::post_write_cb: the globals' record  *)
(* and the report, once all records were handed over.                      *)
PostWrite ==
    /\ flush.on /\ \A t \in CsvThreads : csvth[t] = Resting
    /\ \E missing \in {(ToSet(CsvGlobals.attrs) \ marked) \ 0..(FirstNode - 1)} :
       /\ marked' = marked \cup missing
       /\ \E type \in IF stream.init THEN {stream.type} ELSE {stream.type, "none"} :
          /\ stream' = [type |-> type, init |-> TRUE]
          /\ file' = IF type = "none" THEN file
                     ELSE file \o SetToSeq({NodeRecord(n) : n \in missing})
                               \o <<SnapRecord(CsvGlobals)>>
    /\ report' = IF report.live THEN [report EXCEPT !.printed = Append(@, report.recs)] ELSE report
    /\ flush' = [on |-> FALSE, done |-> flush.done + 1]
    /\ UNCHANGED csvth

CoNext ==
    \/ PreWrite \/ PostWrite
    \/ \E t \in CsvThreads :
          \/ NextRef(t) \/ Check(t) \/ WriteAttr(t) \/ WriteParent(t)
          \/ WriteNode(t) \/ Mark(t) \/ WriteCsvSnapshot(t)

CoSpec == CoInit /\ [][CoNext]_coVars
-----------------------------------------------------------------------------
(* A file can be read front to back: whatever the order in which threads   *)
(* write, every record refers only to nodes defined earlier in the same    *)
(* file, in the files of later flushes as in that of the first.            *)
DefinedBeforeUse ==
    \A i \in DOMAIN file :
        ToSet(file[i].refs) \subseteq 0..(FirstNode - 1) \cup {file[j].def : j \in 1..(i - 1)}

(* The report of a flush is made from exactly the records of that flush.   *)
ReportsOneFlush ==
    \A i \in DOMAIN report.printed :
        \A s \in UNION {ToSet(CsvWork[t]) : t \in CsvThreads} :
            Cardinality({k \in DOMAIN report.printed[i] : report.printed[i][k] = s}) =
            Cardinality(UNION {{<<t, k>> : k \in {k \in DOMAIN CsvWork[t] : CsvWork[t][k] = s}} :
                               t \in CsvThreads})

(* What a flush writes is complete in itself: a file has its nodes before    *)
(* their uses, a report the records of its flush (CsvWriter.cpp,             *)
(* Recorder.cpp, Report.cpp).                                                *)
OutputSound == DefinedBeforeUse /\ ReportsOneFlush
=============================================================================
