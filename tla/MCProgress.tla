----------------------------- MODULE MCProgress -----------------------------
(* What must eventually happen: the parts of Caliper whose calls wait for    *)
(* one another, under the fairness of the threads and ranks that run them.   *)
EXTENDS Lifecycle, Trace, MpiAggregation, TLC

VARIABLE part   \* the component this behaviour is about; the others rest

(* The record aggregator.                                                    *)
MCAttr(n) == <<"", n>>
MCRecs ==
    { [path |-> <<<<MCAttr("f"), 1>>, <<MCAttr("p"), 1>>>>,
       imms |-> <<<<MCAttr("x"), 2>>, <<MCAttr("k"), 1>>, <<MCAttr("j"), 1>>>>],
      [path |-> <<<<MCAttr("p"), 1>>, <<MCAttr("f"), 1>>>>,
       imms |-> <<<<MCAttr("j"), 1>>, <<MCAttr("k"), 1>>, <<MCAttr("x"), -4>>, <<MCAttr("y"), 3>>>>],
      [path |-> <<<<MCAttr("f"), 1>>>>,
       imms |-> <<<<MCAttr("k"), 1>>, <<MCAttr("y"), 2>>, <<MCAttr("z"), 4>>, <<MCAttr("w"), 1>>>>],
      [path |-> <<>>,
       imms |-> <<<<MCAttr("j"), 2>>, <<MCAttr("k"), 1>>, <<MCAttr("k"), 2>>, <<MCAttr("count"), 3>>,
                  <<MCAttr("z"), 2>>, <<MCAttr("v"), 1>>, <<MCAttr("w"), 2>>>>] }
MCKeys == <<MCAttr("f"), MCAttr("p"), MCAttr("k"), MCAttr("j")>>
MCKernels == << [op |-> "count", args |-> <<>>], [op |-> "sum", args |-> <<MCAttr("y")>>],
                [op |-> "statistics", args |-> <<MCAttr("x")>>],
                [op |-> "percentage", args |-> <<MCAttr("v"), MCAttr("w")>>],
                [op |-> "percent_total", args |-> <<MCAttr("z")>>] >>
MCType == [a \in {MCAttr(n) : n \in {"f", "p", "x", "y", "z", "k", "j", "v", "w"}} |->
              IF a = MCAttr("x") THEN "double" ELSE "int"]
MCId == MCAttr("f") :> 1 @@ MCAttr("p") :> 2 @@ MCAttr("k") :> 3 @@ MCAttr("j") :> 4
MCNested == {MCAttr("f")}

(* Aggregation across MPI ranks.                                             *)
MCRec1 == [path |-> <<<<MCAttr("f"), 1>>, <<MCAttr("p"), 1>>>>,
           imms |-> <<<<MCAttr("x"), 2>>, <<MCAttr("k"), 1>>>>]
MCRec2 == [path |-> <<<<MCAttr("p"), 1>>, <<MCAttr("f"), 1>>>>,
           imms |-> <<<<MCAttr("x"), -4>>, <<MCAttr("k"), 1>>>>]
MCRec3 == [path |-> <<<<MCAttr("f"), 2>>>>, imms |-> <<<<MCAttr("y"), 2>>>>]
MCRanks == 0 :> <<>> @@ 1 :> <<MCRec2, MCRec3>> @@ 2 :> <<MCRec1>>

-----------------------------------------------------------------------------
Init ==
    /\ part \in {"lifecycle", "trace", "aggregator", "mpi"}
    /\ LcInit
    /\ TrInit /\ (part # "trace" => policy = "grow")
    /\ AggInit
    /\ MpInit /\ (part # "mpi" => mode = "report")

(* Every component but the one that "part" names keeps its state.           *)
Rest(p) ==
    /\ UNCHANGED part
    /\ p # "lifecycle" => UNCHANGED lcVars
    /\ p # "trace" => UNCHANGED trVars
    /\ p # "aggregator" => UNCHANGED aggVars
    /\ p # "mpi" => UNCHANGED mpVars

Next ==
    \/ part = "lifecycle" /\ LcNext /\ Rest("lifecycle")
    \/ part = "trace" /\ TrNext /\ Rest("trace")
    \/ part = "aggregator" /\ AggNext /\ Rest("aggregator")
    \/ part = "mpi" /\ MpNext /\ Rest("mpi")

vars == <<part, lcVars, trVars, aggVars, mpVars>>

Fairness ==
    /\ \A t \in Workers : /\ SF_lcVars(part = "lifecycle" /\ InLibrary(t))
                            /\ WF_lcVars(part = "lifecycle" /\ InHandler(t))
    /\ \A t \in Tracers : WF_trVars(part = "trace" /\ TrStep(t))
    /\ WF_mpVars(part = "mpi" /\ MpNext)

Spec == Init /\ [][Next]_vars /\ Fairness
=============================================================================
