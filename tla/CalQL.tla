------------------------------- MODULE CalQL -------------------------------
(***************************************************************************)
(* From a query to the records it lets through.  CalQLParser reads the     *)
(* query text word by word and fills a QuerySpec, QueryArgsParser adds     *)
(* what the command line says, and QueryProcessor sends each record that   *)
(* RecordSelector passes to the aggregator or to the formatter.            *)
(*                                                                         *)
(* The text is a sequence of tokens: words (read_word) and the separators  *)
(* read_char meets.  A position Len + 1 is the end of the text not yet     *)
(* noticed, Bad the stream after it was: is.good() is then FALSE.          *)
(***************************************************************************)
EXTENDS Integers, Sequences, SequencesExt

CONSTANTS
    Queries,     \* what queries say, and their texts
    Options,     \* command lines
    QRecords,    \* the records of the input
    OpArgs,      \* aggregation function -> set of allowed argument counts
    FmtArgs,     \* formatter -> set of allowed argument counts
    NumOf        \* numeral -> number

VARIABLES
    source,      \* the query and the command line
    parse,       \* CalQLParserImpl: where it is, position, error, spec
    passed       \* records that reached the aggregator or the formatter

qlVars == <<source, parse, passed>>

Separators == {",", ";", "=", "<", ">", "(", ")"}
Keywords == {"aggregate", "format", "group", "select", "order", "where"}

text == source.q.text
Bad == Len(text) + 2
Good(p) == p # Bad

(***************************************************************************)
(* util::read_word and util::read_char.                                    *)
(***************************************************************************)
Peek(p) == IF p > Len(text) THEN "eof" ELSE text[p]

Word(p) == IF p > Len(text) \/ Peek(p) \in Separators THEN "" ELSE text[p]

PastWord(p) ==
    IF Word(p) = "" THEN (IF p > Len(text) THEN Bad ELSE p)
    ELSE IF p = Len(text) THEN Bad ELSE p + 1

(* read_char followed by unget                                             *)
Unget(p) == IF p > Len(text) THEN Bad ELSE p

(* What an argument list yields when it is not closed: nothing             *)
NoArgs(p, err) == [args |-> <<>>, pos |-> Unget(p), err |-> err]

RECURSIVE ArgsFrom(_, _)
ArgsFrom(p, acc) ==
    LET w == Word(p)
        c == Peek(PastWord(p))
        more == IF w = "" THEN acc ELSE Append(acc, w)
    IN  CASE c = "," -> ArgsFrom(PastWord(p) + 1, more)
          [] c = ")" -> [args |-> more, pos |-> PastWord(p) + 1, err |-> FALSE]
          [] OTHER   -> NoArgs(PastWord(p), TRUE)

ParseArglist(p) ==
    IF Good(p) /\ Peek(p) = "(" THEN ArgsFrom(p + 1, <<>>) ELSE NoArgs(p, FALSE)

EmptySpec == [ops |-> <<>>, opsSel |-> "None", key |-> <<>>, keySel |-> "Default",
              attrs |-> <<>>, attrSel |-> "Default",
              filter |-> <<>>, filterSel |-> "None",
              sort |-> <<>>, sortSel |-> "None",
              fmt |-> "", fmtArgs |-> <<>>, fmtOpt |-> "Default"]

QlInit ==
    /\ \E q \in Queries, o \in Options : source = [q |-> q, opt |-> o]
    /\ parse = [at |-> "clause", pos |-> 1, error |-> FALSE, spec |-> EmptySpec]
    /\ passed = [aggregator |-> <<>>, formatter |-> <<>>, next |-> 1]

Finish(spec, err, p) ==
    parse' = [at |-> IF err THEN "failed" ELSE "clause", pos |-> p,
              error |-> err, spec |-> spec]

(* The end of a list item: `while (!error && is.good() && c == ',')`       *)
NextItem(spec, err, p) ==
    IF ~err /\ Peek(p) = ","
    THEN parse' = [parse EXCEPT !.pos = p + 1, !.spec = spec]
    ELSE Finish(spec, err, Unget(p))

(***************************************************************************)
(* parse and parse_clause_from_word.  A keyword that parse_sort has read   *)
(* already is waiting as parse.at = "keyword" at its own position.         *)
(***************************************************************************)
ParseClauseFromWord(p) ==
    LET w == Word(p)
        by == w \in {"group", "order"}
        p1 == PastWord(p)
    IN  IF w \notin Keywords \/ (by /\ Word(p1) # "by")
        THEN Finish(parse.spec, TRUE, p1)
        ELSE parse' = [parse EXCEPT !.at = w, !.pos = IF by THEN PastWord(p1) ELSE p1]

ParseWord ==
    /\ parse.at = "clause"
    /\ Good(parse.pos) /\ Word(parse.pos) # ""
    /\ ParseClauseFromWord(parse.pos)
    /\ UNCHANGED <<source, passed>>

ParseKeyword ==
    /\ parse.at = "keyword"
    /\ ParseClauseFromWord(parse.pos)
    /\ UNCHANGED <<source, passed>>

ParseEnd ==
    /\ parse.at = "clause"
    /\ ~Good(parse.pos) \/ Word(parse.pos) = ""
    /\ parse' = [parse EXCEPT !.at = "parsed"]
    /\ UNCHANGED <<source, passed>>

AddOp(spec, w, args) ==
    [spec EXCEPT !.opsSel = "List", !.ops = Append(@, [op |-> w, args |-> args])]

ValidOp(w, n) == w \in DOMAIN OpArgs /\ n \in OpArgs[w]

ParseAggregate ==
    /\ parse.at = "aggregate"
    /\ LET w == Word(parse.pos)
           a == ParseArglist(PastWord(parse.pos))
           bad == a.err \/ ~ValidOp(w, Len(a.args))
       IN  NextItem(IF ~ValidOp(w, Len(a.args)) THEN parse.spec
                    ELSE AddOp(parse.spec, w, a.args), bad, a.pos)
    /\ UNCHANGED <<source, passed>>

ParseFormat ==
    /\ parse.at = "format"
    /\ LET w == Word(parse.pos)
           a == ParseArglist(PastWord(parse.pos))
           ok == w \in DOMAIN FmtArgs /\ Len(a.args) \in FmtArgs[w]
       IN  Finish(IF ~ok THEN parse.spec
                  ELSE [parse.spec EXCEPT !.fmtOpt = "User", !.fmt = w,
                                          !.fmtArgs = a.args],
                  ~ok \/ a.err, a.pos)
    /\ UNCHANGED <<source, passed>>

ParseGroupby ==
    /\ parse.at = "group"
    /\ LET w == Word(parse.pos)
       IN  NextItem(IF w = "" THEN parse.spec
                    ELSE [parse.spec EXCEPT !.keySel = "List", !.key = Append(@, w)],
                    FALSE, PastWord(parse.pos))
    /\ UNCHANGED <<source, passed>>

(***************************************************************************)
(* parse_select; the names of the aggregation attributes join the list     *)
(* once the whole SELECT clause is read, unless all attributes are chosen. *)
(***************************************************************************)
OpName(o) == <<o.op>> \o o.args

SelectAll(spec) == [spec EXCEPT !.attrSel = "All"]

SelectName(spec, w) == [spec EXCEPT !.attrSel = "List", !.attrs = Append(@, <<w>>)]

SelectOps(spec) ==
    IF spec.opsSel = "List" /\ spec.attrSel # "All"
    THEN [spec EXCEPT !.attrSel = "List",
                      !.attrs = @ \o [i \in DOMAIN spec.ops |-> OpName(spec.ops[i])]]
    ELSE spec

SelectDone(spec, err, p) ==
    IF ~err /\ Peek(p) = "," THEN NextItem(spec, err, p)
    ELSE Finish(IF err THEN spec ELSE SelectOps(spec), err, Unget(p))

ParseSelect ==
    /\ parse.at = "select"
    /\ LET w == Word(parse.pos)
           p == Unget(PastWord(parse.pos))
           a == ParseArglist(p)
       IN  \/ /\ w = "*"
              /\ SelectDone(SelectAll(parse.spec), FALSE, parse.pos + 1)
           \/ /\ w # "*" /\ Peek(p) = "("
              /\ IF ValidOp(w, Len(a.args)) /\ ~a.err
                 THEN SelectDone(AddOp(parse.spec, w, a.args), FALSE, a.pos)
                 ELSE SelectDone(parse.spec, TRUE, a.pos)
           \/ /\ w # "*" /\ Peek(p) # "("
              /\ IF w = "" THEN SelectDone(parse.spec, TRUE, p)
                 ELSE SelectDone(SelectName(parse.spec, w), FALSE, p)
    /\ UNCHANGED <<source, passed>>

ParseSort ==
    /\ parse.at = "order"
    /\ LET w == Word(parse.pos)
           p1 == PastWord(parse.pos)
           k == Word(p1)
           dir == IF k = "desc" THEN "Descending" ELSE "Ascending"
           spec == [parse.spec EXCEPT !.sortSel = "List",
                                      !.sort = Append(@, <<w, dir>>)]
       IN  \/ w = "" /\ Finish(parse.spec, TRUE, p1)
           \/ w # "" /\ k \in {"asc", "desc"} /\ NextItem(spec, FALSE, PastWord(p1))
           \/ w # "" /\ k = "" /\ NextItem(spec, FALSE, PastWord(p1))
           \/ /\ w # "" /\ k \notin {"", "asc", "desc"}
              /\ parse' = [parse EXCEPT !.at = "keyword", !.pos = p1, !.spec = spec]
    /\ UNCHANGED <<source, passed>>

(***************************************************************************)
(* parse_filter_clause and parse_where.                                    *)
(***************************************************************************)
CondOp(c, neg) ==
    CASE c = "=" -> IF neg THEN "NotEqual" ELSE "Equal"
      [] c = "<" -> IF neg THEN "GreaterOrEqual" ELSE "LessThan"
      [] c = ">" -> IF neg THEN "LessOrEqual" ELSE "GreaterThan"
      [] OTHER   -> IF neg THEN "NotExist" ELSE "Exist"

AddCond(spec, op, attr, val) ==
    [spec EXCEPT !.filterSel = "List",
                 !.filter = Append(@, [op |-> op, attr |-> attr, val |-> val])]

ParseWhere ==
    /\ parse.at = "where"
    /\ LET neg == Word(parse.pos) = "not"
           p == IF neg THEN PastWord(parse.pos) ELSE parse.pos
           w == Word(p)
           p1 == PastWord(p)
           c == Peek(p1)
           v == Word(p1 + 1)
       IN  \/ /\ w = ""
              /\ Finish(parse.spec, TRUE, p1)
           \/ /\ w # "" /\ c \in {"=", "<", ">"}
              /\ IF v = "" THEN Finish(parse.spec, TRUE, p1 + 1)
                 ELSE NextItem(AddCond(parse.spec, CondOp(c, neg), w, v), FALSE,
                               PastWord(p1 + 1))
           \/ /\ w # "" /\ c \notin {"=", "<", ">"}
              /\ NextItem(AddCond(parse.spec, CondOp("", neg), w, ""), FALSE, Unget(p1))
    /\ UNCHANGED <<source, passed>>

(***************************************************************************)
(* QueryArgsParser::parse_args.  Without a query the lists start with      *)
(* other selections; a filter string replaces the query's filter, names of *)
(* attributes, aggregations and sort keys join those of the query.         *)
(***************************************************************************)
WellFormed(s) == s.attr # "" /\ (s.op # "" => s.val # "")

(* RecordSelector's parse_clause knows '=' only; other operators test for  *)
(* existence.                                                              *)
SelectorCond(s) ==
    [op |-> CondOp(IF s.op = "=" THEN "=" ELSE "", s.neg), attr |-> s.attr, val |-> s.val]

SelectorParse(strings) ==
    LET ok == SelectSeq(strings, WellFormed)
    IN  [i \in DOMAIN ok |-> SelectorCond(ok[i])]

ArgsFilter(spec, o) ==
    IF o.select = <<>> THEN spec
    ELSE [spec EXCEPT !.filterSel = "List", !.filter = SelectorParse(o.select)]

ArgsAttributes(spec, o) ==
    IF o.attributes = <<>> THEN spec
    ELSE [spec EXCEPT !.attrSel = "List",
                      !.attrs = @ \o [i \in DOMAIN o.attributes |-> <<o.attributes[i]>>]]

ArgsAggregate(spec, o) ==
    IF o.aggregate = <<>> THEN spec
    ELSE [spec EXCEPT !.opsSel = "List",
                      !.ops = @ \o SelectSeq(o.aggregate,
                                      LAMBDA f : ValidOp(f.op, Len(f.args))),
                      !.keySel = IF o.key = <<>> THEN "Default"
                                 ELSE IF o.key = <<"none">> THEN "None" ELSE "List",
                      !.key = IF o.key = <<"none">> THEN @ ELSE @ \o o.key]

ArgsSort(spec, o) ==
    IF o.sort = <<>> THEN spec
    ELSE [spec EXCEPT !.sortSel = "List",
                      !.sort = @ \o [i \in DOMAIN o.sort |-> <<o.sort[i], "Ascending">>]]

ArgsFormat(spec, o) ==
    IF o.format = "" THEN spec
    ELSE [spec EXCEPT !.fmtOpt = "User", !.fmt = o.format,
                      !.fmtArgs = IF o.fmtArgs = <<>> THEN @ ELSE o.fmtArgs]

FormatterFed(spec, o) ==
    o.format = "" \/ \E n \in FmtArgs[o.format] : Len(spec.fmtArgs) >= n

ParseArgs ==
    /\ parse.at = "parsed"
    /\ LET o == source.opt
           noQuery == [EmptySpec EXCEPT !.filterSel = "Default", !.keySel = "None",
                                        !.sortSel = "Default"]
           spec == ArgsFormat(ArgsSort(ArgsAggregate(ArgsAttributes(ArgsFilter(
                       IF text = <<>> THEN noQuery ELSE parse.spec, o), o), o), o), o)
       IN  IF FormatterFed(spec, o)
           THEN parse' = [parse EXCEPT !.at = "records", !.spec = spec]
           ELSE parse' = [parse EXCEPT !.at = "failed", !.error = TRUE, !.spec = spec]
    /\ UNCHANGED <<source, passed>>

(***************************************************************************)
(* RecordSelectorImpl::pass: every condition is looked up, but the switch  *)
(* has no case for the four comparisons.                                   *)
(***************************************************************************)
HaveMatch(rec, c, withValue) ==
    \E i \in DOMAIN rec : \E k \in DOMAIN rec[i] :
        rec[i][k][1] = c.attr /\ (withValue => rec[i][k][2] = c.val)

Passes(rec, c) ==
    LET exists == HaveMatch(rec, c, FALSE)
        equals == HaveMatch(rec, c, TRUE)
    IN  CASE c.op = "Exist"    -> exists
          [] c.op = "NotExist" -> ~exists
          [] c.op = "Equal"    -> equals
          [] c.op = "NotEqual" -> ~equals
          [] OTHER             -> TRUE

Filters(spec) == IF spec.filterSel = "List" THEN spec.filter ELSE <<>>

(* A defect: one clause is enough.                                         *)
PassAny(rec, spec) ==
    Filters(spec) = <<>> \/ \E i \in DOMAIN Filters(spec) : Passes(rec, Filters(spec)[i])

Pass(rec, spec) == \A i \in DOMAIN Filters(spec) : Passes(rec, Filters(spec)[i])

(***************************************************************************)
(* QueryProcessorImpl::process_record.                                     *)
(***************************************************************************)
ProcessRecord ==
    /\ parse.at = "records" /\ passed.next <= Len(QRecords)
    /\ LET n == passed.next
           to == IF ~Pass(QRecords[n], parse.spec) THEN "none"
                 ELSE IF parse.spec.opsSel # "None" THEN "aggregator" ELSE "formatter"
       IN  passed' = [aggregator |-> IF to = "aggregator"
                                     THEN Append(passed.aggregator, n) ELSE passed.aggregator,
                      formatter  |-> IF to = "formatter"
                                     THEN Append(passed.formatter, n) ELSE passed.formatter,
                      next |-> n + 1]
    /\ UNCHANGED <<source, parse>>

QlNext ==
    \/ ParseWord \/ ParseKeyword \/ ParseEnd
    \/ ParseAggregate \/ ParseFormat \/ ParseGroupby \/ ParseSelect \/ ParseSort
    \/ ParseWhere \/ ParseArgs \/ ProcessRecord

QlSpec == QlInit /\ [][QlNext]_qlVars
-----------------------------------------------------------------------------
(* A query is written clause by clause, its record holding what the        *)
(* clauses say and their kinds in order.  A text that no query is written  *)
(* as has no kinds.                                                        *)
Intended == source.q
Written == Intended.kinds # <<>>

PlainOptions ==
    /\ source.opt.format = ""
    /\ \A f \in DOMAIN source.opt \ {"format"} : source.opt[f] = <<>>

(* The parser reads back what was written: when it accepts the text of a   *)
(* query, every condition, grouping attribute, sort key, aggregation and   *)
(* format of the query is in the QuerySpec, in order and nothing else is;  *)
(* and it does accept it.  A keyword that follows a sort list without a    *)
(* separator starts the next clause.                                       *)
SpecMeansQuery ==
    (Written /\ PlainOptions) =>
        /\ ~parse.error
        /\ parse.at = "records" =>
              /\ parse.spec.filter = Intended.where
              /\ parse.spec.key = Intended.group
              /\ parse.spec.sort = Intended.order
              /\ parse.spec.ops = Intended.ops
              /\ <<parse.spec.fmt>> \o parse.spec.fmtArgs
                    = IF Intended.format = <<>> THEN <<"">> ELSE Intended.format

(* No clause of kind k comes before one of kind l. *)
NeverBefore(k, l) ==
    \A i, j \in DOMAIN Intended.kinds :
        Intended.kinds[i] = k /\ Intended.kinds[j] = l => j < i

(* What a query that selects or aggregates prints: every aggregation's     *)
(* result is among the printed attributes unless all are, in whichever     *)
(* order SELECT and the other clauses come.  (An AGGREGATE clause behind   *)
(* a SELECT clause comes too late for that, and a name behind `*` undoes   *)
(* the `*`.)                                                               *)
AggregationsPrinted ==
    (Written /\ PlainOptions /\ parse.at = "records") =>
        /\ (NeverBefore("star", "names") /\ "star" \in ToSet(Intended.kinds))
              => parse.spec.attrSel = "All"
        /\ (NeverBefore("names", "aggregate") /\ parse.spec.attrSel = "List")
              => \A i \in DOMAIN parse.spec.ops :
                    \E j \in DOMAIN parse.spec.attrs :
                        parse.spec.attrs[j] = OpName(parse.spec.ops[i])

(* What a condition asks of a record.                                      *)
Holds(rec, c) ==
    LET some(test(_)) == \E i \in DOMAIN rec : \E k \in DOMAIN rec[i] :
                            rec[i][k][1] = c.attr /\ test(rec[i][k][2])
    IN  CASE c.op = "Exist"          -> some(LAMBDA v : TRUE)
          [] c.op = "NotExist"       -> ~some(LAMBDA v : TRUE)
          [] c.op = "Equal"          -> some(LAMBDA v : v = c.val)
          [] c.op = "NotEqual"       -> ~some(LAMBDA v : v = c.val)
          [] c.op = "LessThan"       -> some(LAMBDA v : NumOf[v] < NumOf[c.val])
          [] c.op = "GreaterThan"    -> some(LAMBDA v : NumOf[v] > NumOf[c.val])
          [] c.op = "LessOrEqual"    -> ~some(LAMBDA v : NumOf[v] > NumOf[c.val])
          [] c.op = "GreaterOrEqual" -> ~some(LAMBDA v : NumOf[v] < NumOf[c.val])

Tested == {"Exist", "NotExist", "Equal", "NotEqual"}

(* The conditions in force: the filter string of the command line if there *)
(* is one, else the WHERE clauses.                                         *)
InForce ==
    IF source.opt.select # <<>>
    THEN LET ok == SelectSeq(source.opt.select, WellFormed)
         IN  [i \in DOMAIN ok |-> [op |-> CondOp(ok[i].op, ok[i].neg),
                                   attr |-> ok[i].attr, val |-> ok[i].val]]
    ELSE Intended.where

(* Exactly the records that match all conditions go on, each once and in   *)
(* order, and to one place: the aggregator as soon as any aggregation was  *)
(* asked for.  Stated for conditions on presence and equality.             *)
PassedExactly ==
    (Written /\ parse.at = "records" /\ passed.next > Len(QRecords)
       /\ \A i \in DOMAIN InForce : InForce[i].op \in Tested) =>
        LET want == SelectSeq([n \in DOMAIN QRecords |-> n],
                       LAMBDA n : \A i \in DOMAIN InForce : Holds(QRecords[n], InForce[i]))
        IN  /\ passed.aggregator \o passed.formatter = want
            /\ passed.aggregator # <<>> => parse.spec.ops # <<>>
            /\ passed.formatter # <<>> => parse.spec.ops = <<>>

(* A query does what its text says: it is read as written, its results are   *)
(* printed, and exactly the records it asks for go through                   *)
(* (CalQLParser.cpp, QueryProcessor.cpp, RecordSelector.cpp).                *)
QuerySound == SpecMeansQuery /\ AggregationsPrinted /\ PassedExactly
=============================================================================
