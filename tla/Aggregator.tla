----------------------------- MODULE Aggregator -----------------------------
(***************************************************************************)
(* The off-line aggregator (reader/Aggregator.cpp): records are grouped by *)
(* a key and every group keeps one kernel per aggregation operator. The    *)
(* operators below are the code of one aggregator; the state machine is    *)
(* cali-query, whose threads add records to one aggregator concurrently.   *)
(*                                                                         *)
(* An attribute is <<prefix, name>>: <<"", "x">> is the attribute x of the *)
(* input, <<"min", "x">> the result attribute min#x. A record is a path of *)
(* <<attribute, value>> pairs from the root and a sequence of immediate    *)
(* pairs. Numbers of a double attribute are even integers, so that 1 can   *)
(* stand for the smallest positive double.                                 *)
(***************************************************************************)
EXTENDS Integers, Sequences, FiniteSets, SequencesExt, FiniteSetsExt

CONSTANTS
    AggThreads,  \* threads of cali-query that read input files
    Records,     \* the records the files can hold
    KeyAttrs,    \* aggregation key, a sequence of attributes; <<>> selects all
    Kernels,     \* aggregation operators: a sequence of [op, args]
    AttrType,    \* type of each input attribute
    AttrId,      \* id of each input attribute
    NestedNames, \* attributes with the nested property
    MaxKeyLen,   \* MAX_KEYLEN
    ImmLen,      \* encoded length of one immediate entry of a key
    MaxAdds      \* bound on the number of records read

Huge == 1000000
Tiny == 1

-----------------------------------------------------------------------------
(* Kernels *)

\* The attributes an operator reads or writes.
Attr(p, k) == <<p, k.args[1][2]>>
Percent(k) == <<k.args[1][2], k.args[2][2]>>

ValuesOf(list, a) == LET s == SelectSeq(list.imms, LAMBDA e : e[1] = a)
                     IN  [i \in DOMAIN s |-> s[i][2]]

SumSeq(s) == FoldLeft(LAMBDA x, y : x + y, 0, s)

LeastOf(x, s)    == FoldLeft(LAMBDA a, b : IF b < a THEN b ELSE a, x, s)
GreatestOf(x, s) == FoldLeft(LAMBDA a, b : IF b > a THEN b ELSE a, x, s)

NewKernel == [n |-> 0, sum |-> 0, sum2 |-> 0, min |-> Huge, max |-> 0, used |-> FALSE]

\* CountKernel::aggregate: a record that carries a count stands for that many.
Count(k, ks, list) ==
    LET c == ValuesOf(list, <<"", "count">>)
    IN  [ks EXCEPT !.n = @ + (IF c = <<>> THEN 1 ELSE c[1])]

\* SumKernel::aggregate: only the first entry of the attribute counts.
SumOf(k, ks, list) ==
    LET v == ValuesOf(list, k.args[1])
    IN  IF v = <<>> THEN ks
        ELSE [ks EXCEPT !.n = @ + 1,
                        !.sum = IF AttrType[k.args[1]] = "string" THEN @ ELSE @ + v[1]]

\* numeric_limits<T>::min() of the type: for double it is positive.
MaxStart(type) == CASE type = "double" -> Tiny [] type = "int" -> -Huge [] OTHER -> 0

\* StatisticsKernel::aggregate
Statistics(k, ks, list) ==
    LET type == AttrType[k.args[1]]
        v    == ValuesOf(list, k.args[1])
        max0 == IF ks.used THEN ks.max ELSE MaxStart(type)
    IN  IF type = "string" THEN ks
        ELSE [ks EXCEPT
                !.used = TRUE,
                !.n    = @ + Len(v) + SumSeq(ValuesOf(list, Attr("count", k))),
                !.sum  = @ + SumSeq(v) + SumSeq(ValuesOf(list, Attr("sum", k))),
                !.min  = LeastOf(@, v \o ValuesOf(list, Attr("min", k))),
                !.max  = GreatestOf(max0, v \o ValuesOf(list, Attr("max", k)))]

\* PercentageKernel::aggregate
Percentage(k, ks, list) ==
    [ks EXCEPT
       !.sum  = @ + SumSeq(ValuesOf(list, k.args[1])) + SumSeq(ValuesOf(list, Attr("pc.sum", k))),
       !.sum2 = @ + SumSeq(ValuesOf(list, k.args[2]))
                  + SumSeq(ValuesOf(list, <<"pc.sum", k.args[2][2]>>))]

\* What PercentTotalKernel::aggregate adds to its own sum and to the total.
Share(k, list) == SumSeq(ValuesOf(list, k.args[1])) + SumSeq(ValuesOf(list, Attr("pct.sum", k)))

\* The kernels that update themselves under their lock.
Aggregate(k, ks, list) ==
    CASE k.op = "count"      -> Count(k, ks, list)
      [] k.op = "sum"        -> SumOf(k, ks, list)
      [] k.op = "statistics" -> Statistics(k, ks, list)
      [] k.op = "percentage" -> Percentage(k, ks, list)
      [] OTHER               -> ks

\* append_result of the five kernels; a quotient is the pair of its operands.
AppendResult(k, ks, total) ==
    CASE k.op = "count" /\ ks.n > 0 -> << <<<<"", "count">>, ks.n>> >>
      [] k.op = "sum" /\ ks.n > 0   -> << <<k.args[1], ks.sum>> >>
      [] k.op = "statistics" /\ ks.n > 0 ->
           << <<Attr("avg", k), <<ks.sum, ks.n>>>>, <<Attr("sum", k), ks.sum>>,
              <<Attr("min", k), ks.min>>, <<Attr("max", k), ks.max>>,
              <<Attr("count", k), ks.n>> >>
      [] k.op = "percentage" /\ ks.sum2 > 0 ->
           << <<Attr("pc.sum", k), ks.sum>>, <<<<"pc.sum", k.args[2][2]>>, ks.sum2>>,
              <<Percent(k), <<ks.sum, ks.sum2>>>> >>
      [] k.op = "percent_total" /\ total > 0 ->
           << <<Attr("pct.sum", k), ks.sum>>, <<Attr("percent_total", k), <<100 * ks.sum, total>>>> >>
      [] OTHER -> <<>>

-----------------------------------------------------------------------------
(* Keys and groups *)

\* A new aggregator: AggregatorImpl and configure.
NewAggregator ==
    [todo |-> KeyAttrs, ids |-> <<>>, all |-> KeyAttrs = <<>>,
     groups |-> <<>>, total |-> [i \in DOMAIN Kernels |-> 0]]

AttrsOf(list) == {e[1] : e \in Range(list.path) \cup Range(list.imms)}

\* update_key_attribute_ids: names of attributes that exist by now become ids.
UpdateKeyIds(ag, known) ==
    [ag EXCEPT !.ids  = @ \o SelectSeq(ag.todo, LAMBDA a : a \in known),
               !.todo = SelectSeq(@, LAMBDA a : a \notin known)]

IsNested(e) == e[1] \in NestedNames

\* The key path: selected nodes, nested ones last, the others grouped by
\* attribute, each in their original order.
KeyPathOf(ag, list) ==
    LET sel    == SelectSeq(list.path, LAMBDA e : ag.all \/ e[1] \in Range(ag.ids))
        plain  == SelectSeq(sel, LAMBDA e : ~IsNested(e))
        byAttr == [i \in DOMAIN plain |-> <<AttrId[plain[i][1]], -i, plain[i]>>]
        sorted == SortSeq(byAttr, LAMBDA x, y : x[1] < y[1] \/ (x[1] = y[1] /\ x[2] < y[2]))
        back   == [i \in DOMAIN sorted |-> sorted[i][3]]
    IN  Reverse(back) \o SelectSeq(sel, IsNested)

\* A defect: as the entries come in the record, not normalised.
KeyImmsUnordered(ag, list) == SelectSeq(list.imms, LAMBDA e : e[1] \in Range(ag.ids))

\* The immediates of the key in the order of the key ids.
KeyImms(ag, list) ==
    FoldLeft(LAMBDA s, a : s \o SelectSeq(list.imms, LAMBDA e : e[1] = a), <<>>, ag.ids)

\* pack_key: entries that do not fit the key buffer are left out.
PackKey(path, imms) ==
    LET nodeLen == IF path = <<>> THEN 0 ELSE 1
        fit     == Cardinality({n \in 1..Len(imms) : n * ImmLen + nodeLen + 1 < MaxKeyLen})
    IN  [path |-> path, imms |-> SubSeq(imms, 1, fit)]

KeyOf(ag, list) == PackKey(KeyPathOf(ag, list), KeyImms(ag, list))

\* find_trienode: the kernels of a group are made with its trie node.
KernelsAt(a, key) ==
    IF key \in DOMAIN a.groups THEN a.groups[key] ELSE [i \in DOMAIN Kernels |-> NewKernel]

IsTotal(i) == Kernels[i].op = "percent_total"

SumsAt(a, key) == [i \in DOMAIN Kernels |-> KernelsAt(a, key)[i].sum]

\* process: the kernels of the record's group that update under their lock.
ProcessLocked(a, key, list) ==
    [a EXCEPT !.groups = (key :> [i \in DOMAIN Kernels |->
                                    Aggregate(Kernels[i], KernelsAt(a, key)[i], list)]) @@ @]

\* PercentTotalKernel::aggregate: m_sum becomes what was read plus the share.
AddShares(a, key, list, read) ==
    [a EXCEPT
       !.groups[key] = [i \in DOMAIN Kernels |->
           IF IsTotal(i) THEN [@[i] EXCEPT !.sum = read[i] + Share(Kernels[i], list)] ELSE @[i]],
       !.total = [i \in DOMAIN Kernels |->
           IF IsTotal(i) THEN @[i] + Share(Kernels[i], list) ELSE @[i]]]

\* process by a single thread.
Process(a, key, list) == AddShares(ProcessLocked(a, key, list), key, list, SumsAt(a, key))

\* flush: one record per group, the key entries and the results.
FlushGroup(ag, key) ==
    [path |-> key.path,
     imms |-> FoldLeft(LAMBDA s, i : s \o AppendResult(Kernels[i], ag.groups[key][i], ag.total[i]),
                       key.imms, [i \in DOMAIN Kernels |-> i])]

Flush(ag) == {FlushGroup(ag, key) : key \in DOMAIN ag.groups}

-----------------------------------------------------------------------------
(* cali-query *)

VARIABLES
    ag,       \* the aggregator
    known,    \* attributes in the metadata database
    adding,   \* adding[t]: the record thread t adds and the sums it has read
    added,    \* the records read so far, in the order their reading began
    raced     \* two threads were inside one group's unlocked kernel at once

aggVars == <<ag, known, adding, added, raced>>

NotAdding == [list |-> <<>>]

AggInit ==
    /\ ag = NewAggregator /\ known = {<<"", "count">>}
    /\ adding = [t \in AggThreads |-> NotAdding]
    /\ added = <<>> /\ raced = FALSE

\* A thread reads a record, whose attributes are in the database by then,
\* and runs process() up to the read of m_sum in the unlocked kernels.
AddBegin(t, r) ==
    /\ adding[t] = NotAdding /\ Len(added) < MaxAdds
    /\ known' = known \cup AttrsOf(r)
    /\ \E a \in {UpdateKeyIds(ag, known')} : \E key \in {KeyOf(a, r)} :
         /\ ag' = ProcessLocked(a, key, r)
         /\ adding' = [adding EXCEPT ![t] = [list |-> r, key |-> key, read |-> SumsAt(a, key)]]
         /\ raced' = (raced \/ \E u \in AggThreads : adding[u] # NotAdding /\ adding[u].key = key)
    /\ added' = Append(added, r)

AddEnd(t) ==
    /\ adding[t] # NotAdding
    /\ ag' = AddShares(ag, adding[t].key, adding[t].list, adding[t].read)
    /\ adding' = [adding EXCEPT ![t] = NotAdding]
    /\ UNCHANGED <<known, added, raced>>

AggNext ==
    \/ \E t \in AggThreads : \/ \E r \in Records : AddBegin(t, r)
                             \/ AddEnd(t)

AggSpec == AggInit /\ [][AggNext]_aggVars

-----------------------------------------------------------------------------
(* What a query promises, computed from the records alone *)

Selected(a) == KeyAttrs = <<>> \/ a \in Range(KeyAttrs)

\* The group a record belongs to: for every selected attribute, the values it
\* has in the record; for nested attributes, their common order as well.
GroupOf(r) ==
    [nested |-> SelectSeq(r.path, LAMBDA e : Selected(e[1]) /\ IsNested(e)),
     plain  |-> [a \in {x \in DOMAIN AttrId : Selected(x)} \ NestedNames |->
                   SelectSeq(r.path, LAMBDA e : e[1] = a)],
     imms   |-> [a \in Range(KeyAttrs) |-> SelectSeq(r.imms, LAMBDA e : e[1] = a)]]

Members(recs, g) == SelectSeq(recs, LAMBDA r : GroupOf(r) = g)

Fold(recs, f(_)) == SumSeq([i \in DOMAIN recs |-> f(recs[i])])

CountOf(r)  == LET c == ValuesOf(r, <<"", "count">>) IN IF c = <<>> THEN 1 ELSE c[1]
FirstOf(r, a) == LET v == ValuesOf(r, a) IN IF v = <<>> THEN 0 ELSE v[1]
AllValues(recs, a) == UNION {Range(ValuesOf(recs[i], a)) : i \in DOMAIN recs}

Has(list, a, v) == ValuesOf(list, a) = <<v>>

\* The results of one operator over the records of a group.
Expected(k, list, recs, all) ==
    LET a    == k.args[1]
        vals == AllValues(recs, a)
        sum(rs, x) == Fold(rs, LAMBDA r : SumSeq(ValuesOf(r, x)))
    IN  CASE k.op = "count" -> Has(list, <<"", "count">>, Fold(recs, CountOf))
          [] k.op = "sum"   -> vals # {} => Has(list, a, Fold(recs, LAMBDA r : FirstOf(r, a)))
          [] k.op = "statistics" -> vals # {} =>
               /\ Has(list, Attr("sum", k), sum(recs, a))
               /\ Has(list, Attr("count", k), Fold(recs, LAMBDA r : Len(ValuesOf(r, a))))
               /\ Has(list, Attr("min", k), Min(vals))
               /\ (AttrType[a] # "double" \/ Max(vals) > 0) => Has(list, Attr("max", k), Max(vals))
          [] k.op = "percentage" ->
               sum(recs, k.args[2]) > 0 =>
                 Has(list, Percent(k), <<sum(recs, a), sum(recs, k.args[2])>>)
          [] k.op = "percent_total" ->
               sum(all, a) > 0 =>
                 Has(list, Attr("percent_total", k), <<100 * sum(recs, a), sum(all, a)>>)

\* The records written for `recs`: one for each group, with exact results.
Exact(out, recs) ==
    /\ \A i \in DOMAIN recs : Cardinality({l \in out : GroupOf(l) = GroupOf(recs[i])}) = 1
    /\ \A l \in out : LET ms == Members(recs, GroupOf(l))
                      IN  ms # <<>> /\ \A i \in DOMAIN Kernels : Expected(Kernels[i], l, ms, recs)

KeyFits(r) == LET n == IF GroupOf(r).nested = <<>> /\ r.path = <<>> THEN 0 ELSE 1
              IN  Fold(KeyAttrs, LAMBDA a : Len(ValuesOf(r, a))) * ImmLen + n + 1 < MaxKeyLen

\* Whatever the order in which the threads read the records, and although key
\* attributes become known only while reading, a flush writes one record per
\* group of records with equal key values, and every operator's result is that
\* of exactly the group's records. Two known weaknesses are excluded: a key
\* that does not fit its 32-byte buffer, and percent_total, whose sum two
\* threads may update at once without the lock the kernel declares.
FlushIsExact ==
    /\ \A t \in AggThreads : adding[t] = NotAdding
    /\ \A i \in DOMAIN added : KeyFits(added[i])
    /\ ~raced \/ ~\E i \in DOMAIN Kernels : IsTotal(i)
    => Exact(Flush(ag), added)

\* Aggregating the records a flush wrote gives the same records again: keys are
\* normalised and the kernels understand their own results.
FlushIsIdempotent ==
    (\A t \in AggThreads : adding[t] = NotAdding) /\ ~raced =>
        LET empty == UpdateKeyIds(NewAggregator, known)
            again == FoldSet(LAMBDA l, g : Process(g, KeyOf(empty, l), l), empty, Flush(ag))
        IN  Flush(again) = Flush(ag)

(* What the aggregator flushes is the aggregation of what was added, by      *)
(* whichever threads, and stays so when it is aggregated again, as ranks do  *)
(* with each other's results.                                                *)
AggregatorSound == FlushIsExact /\ FlushIsIdempotent
=============================================================================
