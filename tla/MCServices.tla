----------------------------- MODULE MCServices -----------------------------
(* The annotation objects and the services that process annotation events    *)
(* and snapshots, each on a small instance.                                  *)
EXTENDS AnnotationObjects, AggregateThreads, EventServices, Validator, AggregateDB,
        AllocTracking, SymbolLookup, TLC

VARIABLE part   \* the component this behaviour is about; the others rest

(* The aggregate service.                                                    *)
MCTree == 1 :> [attr |-> "f", data |-> 1, parent |-> 0] @@ 2 :> [attr |-> "g", data |-> 2, parent |-> 1]
       @@ 3 :> [attr |-> "f", data |-> 2, parent |-> 2] @@ 4 :> [attr |-> "g", data |-> 1, parent |-> 0]
MCImm(x, y) == [i |-> x, d |-> y, f |-> 0]
MCVals(x, y) == [t |-> x, u |-> y]
MCSnaps == {[nodes |-> <<3>>, imm |-> MCImm(0, 0), vals |-> MCVals(2, 0)],
            [nodes |-> <<2>>, imm |-> MCImm(1, 5), vals |-> MCVals(1, 3)],
            [nodes |-> <<3, 4>>, imm |-> MCImm(2, 0), vals |-> MCVals(3, 0)],
            [nodes |-> <<4, 1, 2, 3>>, imm |-> MCImm(0, 0), vals |-> MCVals(0, -1)],
            [nodes |-> <<>>, imm |-> MCImm(0, 0), vals |-> MCVals(0, 0)]}
MCKeyNames == <<"f", "i", "d">>
MCAggrLists == {<<>>, <<"u", "s", "none">>, <<"none">>}
MCAttrTable == "f" :> [asvalue |-> FALSE, type |-> "string", aggregatable |-> FALSE]
            @@ "g" :> [asvalue |-> FALSE, type |-> "int", aggregatable |-> FALSE]
            @@ "i" :> [asvalue |-> TRUE, type |-> "int", aggregatable |-> FALSE]
            @@ "d" :> [asvalue |-> TRUE, type |-> "double", aggregatable |-> FALSE]
            @@ "s" :> [asvalue |-> TRUE, type |-> "string", aggregatable |-> FALSE]
            @@ "t" :> [asvalue |-> TRUE, type |-> "uint", aggregatable |-> TRUE]
            @@ "u" :> [asvalue |-> TRUE, type |-> "double", aggregatable |-> TRUE]

(* Callpath, symbollookup and instlookup.                                    *)
MCSymbols == [x1 |-> [func |-> "f1", file |-> "a.c", line |-> "1", mod |-> "app"],
              x2 |-> [func |-> "f2", file |-> "b.c", line |-> "2", mod |-> "lib"]]
MCCode == [x1 |-> [op |-> "mov", reads |-> "8", writes |-> "0"],
           x3 |-> [op |-> "add", reads |-> "4", writes |-> "4"]]
MCLookups == {[names |-> {}, want |-> {"functions", "sourceloc"}],
              [names |-> {"pc"}, want |-> {"functions", "file", "module"}],
              [names |-> {"callpath", "gone"}, want |-> {"sourceloc", "line"}]}
MCStacks == {<<>>, <<"c1", "x1", "x2", "x3">>, <<"c1", "x3", "c1", "x1">>, <<"x2">>}

-----------------------------------------------------------------------------
Init ==
    /\ part \in {"objects", "dbthreads", "events", "validator", "aggregation", "alloc",
              "symbols"}
    /\ AoInit /\ (part # "objects" => handles["u1"] = 1)
    /\ AtInit
    /\ EvInit /\ (part # "events" => info)
    /\ VaInit
    /\ AgInit /\ (part # "aggregation" => ~keyed /\ aggr = AggregationAttributes(<<>>))
    /\ AlInit
    /\ LkInit /\ (part # "symbols" => lk.skip = 0 /\ lk.names = {})

(* Every component but the one that "part" names keeps its state.           *)
Rest(p) ==
    /\ UNCHANGED part
    /\ p # "objects" => UNCHANGED aoVars
    /\ p # "dbthreads" => UNCHANGED atVars
    /\ p # "events" => UNCHANGED evVars
    /\ p # "validator" => UNCHANGED vaVars
    /\ p # "aggregation" => UNCHANGED agVars
    /\ p # "alloc" => UNCHANGED alVars
    /\ p # "symbols" => UNCHANGED lkVars

Next ==
    \/ part = "objects" /\ AoNext /\ Rest("objects")
    \/ part = "dbthreads" /\ AtNext /\ Rest("dbthreads")
    \/ part = "events" /\ EvNext /\ Rest("events")
    \/ part = "validator" /\ VaNext /\ Rest("validator")
    \/ part = "aggregation" /\ AgNext /\ Rest("aggregation")
    \/ part = "alloc" /\ AlNext /\ Rest("alloc")
    \/ part = "symbols" /\ LkNext /\ Rest("symbols")

vars == <<part, aoVars, atVars, evVars, vaVars, agVars, alVars, lkVars>>

Spec == Init /\ [][Next]_vars
=============================================================================
