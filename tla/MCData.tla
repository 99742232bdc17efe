------------------------------- MODULE MCData -------------------------------
(* Data at rest: values, record encodings, files and reports, the metadata of*)
(* the readers, queries, and the tools, each on a small instance.            *)
EXTENDS Encodings, MetadataDB, CsvOutput, CalQL, QueryTool, Formatters, TLC

VARIABLE part   \* the component this behaviour is about; the others rest

(* Variant values.                                                           *)
MCText == <<<<97, 98>>, <<97, 98, 97>>, <<97, 0>>>>
MCHalves == -3..3

(* Compressed records and buffers.                                           *)
MCNodeLists == {<<5>>, <<300, 2>>, <<1, 2, 3, 200>>}
MCImmLists == {<<<<7, <<1028, 20000>>>>>>, <<<<129, <<2, 1>>>>, <<8, <<3, 200>>>>>>}
MCNodeInfos == {[id |-> 3, attr |-> 8, parent |-> 400, type |-> 4, data |-> <<119, 200>>],
                [id |-> 100, attr |-> 300, parent |-> -1, type |-> 2, data |-> <<0, 1, 2, 3>>]}

(* The metadata database of the readers.                                     *)
MCNode(i, a, p, d) == [rec |-> "node", id |-> i, attr |-> a, parent |-> p, data |-> d]
MCStreams ==
    [r1 |-> << MCNode(3, 1, 0, "x"), MCNode(4, 3, -1, "a"),
               [rec |-> "ctx", refs |-> <<4>>, imms |-> <<<<3, "v">>>>] >>,
     r2 |-> << MCNode(3, 1, 0, "y"), MCNode(4, 1, 0, "x"), MCNode(5, 4, -1, "a"), MCNode(6, 3, 5, "b"),
               [rec |-> "ctx", refs |-> <<6, 5>>, imms |-> <<>>] >>,
     r3 |-> << [rec |-> "globals", refs |-> <<0>>, imms |-> <<>>], MCNode(4, 3, 9, "c") >>]
MCSource == Bootstrap \o << [attr |-> 1, data |-> "y", parent |-> 0],
                            [attr |-> 3, data |-> "b", parent |-> -1] >>
MCGlobals == {<<"g", "1">>, <<"x", "a">>}

(* The Caliper writer.                                                       *)
MCCsvWork == [w1 |-> <<[nodes |-> <<13, 14>>, attrs |-> <<>>], [nodes |-> <<>>, attrs |-> <<11>>]>>,
              w2 |-> <<[nodes |-> <<14>>, attrs |-> <<11, 12, 2>>]>>]
MCCsvGlobals == [nodes |-> <<>>, attrs |-> <<12>>]
MCAttrOfNode == 11 :> 3 @@ 12 :> 3 @@ 13 :> 12 @@ 14 :> 11
MCParentNode == 11 :> 1 @@ 12 :> 1 @@ 13 :> 0 @@ 14 :> 13

(* The query language and record selection.                                  *)
MCNone == [kinds |-> <<>>, where |-> <<>>, group |-> <<>>, order |-> <<>>, ops |-> <<>>, format |-> <<>>, text |-> <<>>]
MCCat(a, b) == [f \in DOMAIN MCNone |-> a[f] \o b[f]]
MCCond(o, a, v) == [op |-> o, attr |-> a, val |-> v]
MCCount == [op |-> "count", args |-> <<>>]
MCSum == [op |-> "sum", args |-> <<"t">>]
MCSelects ==
    {MCNone,
     [MCNone EXCEPT !.kinds = <<"star">>, !.text = <<"select", "*">>],
     [MCNone EXCEPT !.kinds = <<"names">>, !.ops = <<MCSum>>, !.text = <<"select", "f", ",", "sum", "(", "t", ")">>],
     [MCNone EXCEPT !.kinds = <<"star">>, !.ops = <<MCCount>>, !.text = <<"select", "*", ",", "count", "(", ")">>],
     [MCNone EXCEPT !.kinds = <<"star", "names">>, !.text = <<"select", "*", ",", "f">>],
     [MCNone EXCEPT !.kinds = <<"names", "star">>, !.text = <<"select", "f", ",", "*">>]}
MCAggregates ==
    {MCNone,
     [MCNone EXCEPT !.kinds = <<"aggregate">>, !.ops = <<MCCount>>, !.text = <<"aggregate", "count">>],
     [MCNone EXCEPT !.kinds = <<"aggregate">>, !.ops = <<MCCount, MCSum>>,
                    !.text = <<"aggregate", "count", "(", ")", ",", "sum", "(", "t", ")">>]}
MCWhere(c, t) == [MCNone EXCEPT !.kinds = <<"where">>, !.where = c, !.text = <<"where">> \o t]
MCWheres ==
    {MCNone,
     MCWhere(<<MCCond("Exist", "l", ""), MCCond("Equal", "f", "2")>>, <<"l", ",", "f", "=", "2">>),
     MCWhere(<<MCCond("NotEqual", "i", "1")>>, <<"not", "i", "=", "1">>),
     MCWhere(<<MCCond("NotExist", "l", "")>>, <<"not", "l">>),
     MCWhere(<<MCCond("LessThan", "i", "2")>>, <<"i", "<", "2">>),
     MCWhere(<<MCCond("LessOrEqual", "i", "2")>>, <<"not", "i", ">", "2">>)}
MCOthers ==
    {MCNone,
     [MCNone EXCEPT !.kinds = <<"group">>, !.group = <<"f", "l">>, !.text = <<"group", "by", "f", ",", "l">>],
     [MCNone EXCEPT !.kinds = <<"order", "format">>, !.order = <<<<"i", "Ascending">>>>, !.format = <<"table">>,
                    !.text = <<"order", "by", "i", "format", "table">>],
     [MCNone EXCEPT !.kinds = <<"order", "group">>, !.order = <<<<"i", "Descending">>, <<"f", "Ascending">>>>,
                    !.group = <<"f">>, !.text = <<"order", "by", "i", "desc", ",", "f", "group", "by", "f">>],
     [MCNone EXCEPT !.kinds = <<"format">>, !.format = <<"tree", "f">>, !.text = <<"format", "tree", "(", "f", ")">>]}
MCWell == {MCCat(a, b) : a \in MCAggregates \cup MCWheres \cup MCOthers, b \in MCSelects}
          \cup {MCCat(a, b) : a \in MCSelects \cup MCAggregates \cup MCOthers, b \in MCAggregates \cup MCWheres}
          \cup {MCCat(w, r) : w \in MCWheres, r \in MCOthers}
(* Ill-formed queries: a long query with one token left out.                *)
MCDropped(t) == {[MCNone EXCEPT !.text = RemoveAt(t, i)] : i \in 1..Len(t)}
MCQueries == MCWell \cup UNION {MCDropped(q.text) : q \in {x \in MCWell : Len(x.text) > 11}}
MCNoOption == [select |-> <<>>, attributes |-> <<>>, aggregate |-> <<>>, key |-> <<>>, sort |-> <<>>,
               format |-> "", fmtArgs |-> <<>>]
MCSelOption(n, a, o, v) == [neg |-> n, attr |-> a, op |-> o, val |-> v]
MCOptions ==
    {MCNoOption,
     [MCNoOption EXCEPT !.select = <<MCSelOption(FALSE, "l", "", ""), MCSelOption(TRUE, "f", "=", "2"),
                                     MCSelOption(FALSE, "i", "=", "")>>],
     [MCNoOption EXCEPT !.aggregate = <<[op |-> "count", args |-> <<>>], [op |-> "sum", args |-> <<>>]>>,
                        !.key = <<"f">>, !.format = "tree"],
     [MCNoOption EXCEPT !.attributes = <<"f">>, !.sort = <<"i">>,
                        !.select = <<MCSelOption(FALSE, "i", "<", "2")>>]}
MCRecords == << << <<<<"f", "1">>, <<"f", "2">>>>, <<<<"i", "1">>>> >>,
                << <<<<"f", "1">>, <<"l", "1">>>>, <<<<"i", "2">>>> >>,
                << <<<<"l", "1">>, <<"f", "2">>>> >>, << <<<<"i", "3">>>> >> >>
MCOpArgs == "count" :> {0} @@ "sum" :> {1}
MCFmtArgs == "table" :> {0} @@ "tree" :> {0, 1} @@ "format" :> {1, 2}
MCNum == "1" :> 1 @@ "2" :> 2 @@ "3" :> 3

(* Cali-query, cali-stat and cali-graph.                                     *)
MCQtNodes == [k \in 1..4 |-> [attr |-> IF k < 3 THEN "name" ELSE "f", text |-> IF k = 4 THEN 3 ELSE k,
                             parent |-> IF k = 4 THEN 3 ELSE 0]]
MCQtNode(k) == [rec |-> "node", k |-> k, refs |-> <<>>, vals |-> 0]
MCQtSnap(r, v) == [rec |-> "ctx", k |-> 1, refs |-> r, vals |-> v]
MCQtFiles == <<<<MCQtNode(1), MCQtNode(2), MCQtSnap(<<1, 2>>, 0)>>,
               <<MCQtNode(2), MCQtSnap(<<2>>, 2), MCQtNode(3), MCQtNode(4), MCQtSnap(<<4, 3>>, 0)>>,
               <<MCQtNode(1), MCQtNode(3), MCQtNode(4), MCQtSnap(<<4>>, 1)>>>>
MCQtRun(tl, l, g, a, s) == [tool |-> tl, list |-> l, globals |-> g, aggregate |-> a, select |-> s,
                            reuse |-> FALSE, max |-> -1]
MCQtRuns == {[MCQtRun("stat", FALSE, FALSE, FALSE, FALSE) EXCEPT !.reuse = u] : u \in BOOLEAN}
            \cup {[MCQtRun("graph", FALSE, FALSE, FALSE, FALSE) EXCEPT !.max = x] : x \in {-1, 4}}
            \cup {MCQtRun("query", FALSE, FALSE, a, FALSE) : a \in BOOLEAN}
            \cup {MCQtRun("query", TRUE, FALSE, FALSE, FALSE)}
            \cup {MCQtRun("query", FALSE, TRUE, FALSE, s) : s \in BOOLEAN}

(* The report formatters.                                                    *)
MCRef(p) == [node |-> TRUE, path |-> p]
MCVal(a, v) == [node |-> FALSE, path |-> <<<<a, v>>>>]
MCFmtRecords ==
    [t1 |-> << <<MCRef(<<<<"f", "v1">>, <<"h", "v1">>, <<"f", "v2">>, <<"f", "v2">>>>), MCVal("i", "v1")>>,
               <<MCRef(<<<<"f", "v1">>>>), MCVal("i", "v2")>>, <<MCVal("i", "v1")>> >>,
     t2 |-> << <<MCRef(<<<<"f", "v1">>, <<"f", "v3">>>>), MCVal("j", "v1")>>,
               <<MCRef(<<<<"f", "v1">>>>), MCRef(<<<<"h", "v2">>>>), MCVal("i", "v2")>> >>]
MCFmtGlobals == <<MCRef(<<<<"f", "v1">>, <<"h", "v3">>, <<"f", "v2">>>>), MCVal("j", "v3")>>
MCFmtCol(k, s, o, c) == [kind |-> k, selected |-> s, sort |-> o, columns |-> c]
MCFmt(k, s, o) == MCFmtCol(k, s, o, [selection |-> "Default", list |-> <<>>])
MCFmtConfigs ==
    {MCFmt(k, s, <<>>) : k \in {"json", "expand", "json-split"}, s \in {<<>>, <<"f", "i">>}}
    \cup {MCFmtCol("tree", <<>>, <<>>, [selection |-> s, list |-> <<>>]) : s \in {"Default", "All", "None"}}
    \cup {MCFmtCol("tree", <<"f", "i">>, <<>>, [selection |-> "List", list |-> <<"h", "j">>])}
    \cup {MCFmt("format", <<"i", "f">>, <<>>)}
    \cup {MCFmt("table", s, o) : s \in {<<>>, <<"f", "i">>},
                                 o \in {<<>>, <<<<"i", "Descending">>, <<"f", "Ascending">>>>}}
MCAttrNum == [f |-> 11, h |-> 12, i |-> 13, j |-> 14]
MCRank == [v1 |-> 1, v2 |-> 2, v3 |-> 3]
MCTextWidth == [v1 |-> 2, v2 |-> 7, v3 |-> 1, f |-> 3, h |-> 4, i |-> 1, j |-> 2]

-----------------------------------------------------------------------------
Init ==
    /\ part \in {"variants", "codec", "metadata", "writer", "calql", "tools", "formatters"}
    /\ VnInit
    /\ RcInit /\ (part # "codec" => Len(rec.buf) = 9)
    /\ MdInit
    /\ CoInit /\ (part # "writer" => report.ok)
    /\ QlInit /\ (part # "calql" => source = [q |-> MCNone, opt |-> MCNoOption])
    /\ QtInit /\ (part # "tools" => qt.opt = MCQtRun("stat", FALSE, FALSE, FALSE, FALSE))
    /\ FmInit /\ (part # "formatters" => conf = MCFmt("json", <<>>, <<>>))

(* Every component but the one that "part" names keeps its state.           *)
Rest(p) ==
    /\ UNCHANGED part
    /\ p # "variants" => UNCHANGED vnVars
    /\ p # "codec" => UNCHANGED rcVars
    /\ p # "metadata" => UNCHANGED mdVars
    /\ p # "writer" => UNCHANGED coVars
    /\ p # "calql" => UNCHANGED qlVars
    /\ p # "tools" => UNCHANGED qtVars
    /\ p # "formatters" => UNCHANGED fmVars

Next ==
    \/ part = "variants" /\ VnNext /\ Rest("variants")
    \/ part = "codec" /\ RcNext /\ Rest("codec")
    \/ part = "metadata" /\ MdNext /\ Rest("metadata")
    \/ part = "writer" /\ CoNext /\ Rest("writer")
    \/ part = "calql" /\ QlNext /\ Rest("calql")
    \/ part = "tools" /\ QtNext /\ Rest("tools")
    \/ part = "formatters" /\ FmNext /\ Rest("formatters")

vars == <<part, vnVars, rcVars, mdVars, coVars, qlVars, qtVars, fmVars>>

Spec == Init /\ [][Next]_vars
=============================================================================
