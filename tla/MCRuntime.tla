------------------------------ MODULE MCRuntime ------------------------------
(* The start, configuration and C interface of the runtime, and the services *)
(* that bind MPI, OpenMP, CUDA and the hardware counters, each on a small instance.*)
EXTENDS Startup, CInterface, RuntimeConfig, MpiTracing, HardwareCounters, Ompt, Cupti, TLC

VARIABLE part   \* the component this behaviour is about; the others rest

(* How the runtime comes up.                                                 *)
MCStLists == [mpirt |-> <<"mpi", "mpireport">>, extra |-> <<"event", "tool">>]
MCStDefault == <<"event", "trace", "recorder">>
MCStEnable == {<<"event", "trace">>, <<"recorder", "mpi", "event">>, <<"event", "tool", "event">>,
               <<"trace", "trace", "none">>, <<>>}
MCStAttrs == [s \in {"mpi", "mpireport", "event", "tool", "trace", "recorder"} |->
                IF s \in {"mpi", "event"} THEN {s} ELSE {}]

(* Runtime configuration.                                                    *)
MCConfigSets == [config |-> {"PROFILE", "FILE"}, services |-> {"ENABLE"}, other |-> {"A", "B"}]
MCDefaults == [PROFILE |-> <<"default">>, FILE |-> <<"f1">>, ENABLE |-> <<>>,
               A |-> <<"a0">>, B |-> <<"b0">>]
MCConfigFiles ==
    [f1 |-> <<<<"set", "A", <<"a1">>>>,
              <<"group", "p1">>, <<"set", "B", <<"b1">>>>,
              <<"set", "ENABLE", <<"event", "trace", "recorder">>>>,
              <<"group", "p2">>, <<"set", "A", <<"a2">>>>>>,
     f2 |-> <<<<"group", "mpi">>, <<"set", "B", <<"b2">>>>>>]
MCBuiltin == <<<<"group", "mpi">>, <<"set", "ENABLE", <<"event", "aggregate", "report">>>>,
               <<"group", "serial">>, <<"set", "ENABLE", <<"recorder">>>>>>
MCEnv == [B |-> <<"be">>]
MCPresets == {<<"A", <<"ap">>>>, <<"FILE", <<"f2">>>>, <<"ENABLE", <<"textlog">>>>}
MCSettings == {<<"PROFILE", <<"p1">>>>, <<"PROFILE", <<"p1", "p2", "no">>>>,
               <<"PROFILE", <<"mpi">>>>, <<"PROFILE", <<"serial">>>>, <<"PROFILE", <<"api">>>>,
               <<"ENABLE", <<"debug">>>>, <<"B", <<"bs">>>>}
MCApiProfiles == {<<"api", "A", <<"aa">>>>, <<"p2", "B", <<"ba">>>>}

(* Perf_event sampling.                                                      *)
MCPfmConfigs ==
    {[events |-> 2, known |-> TRUE, periods |-> 2, attrs |-> <<"addr", "id", "time">>],
     [events |-> 1, known |-> TRUE, periods |-> 1, attrs |-> <<"ip", "bogus">>],
     [events |-> 1, known |-> FALSE, periods |-> 1, attrs |-> <<"ip">>],
     [events |-> 2, known |-> TRUE, periods |-> 1, attrs |-> <<"ip">>]}

(* The OpenMP tools service.                                                 *)
MCConstructs == <<"parallel">>
MCOmConfigs == {[mapping |-> m, events |-> TRUE, states |-> m] : m \in BOOLEAN}

(* CUPTI callbacks and event sampling.                                       *)
MCCuConfigs ==
    {[domains |-> <<"runtime", "bogus", "sync">>, sampling |-> TRUE, apis |-> {"u1"}, ctxs |-> {}],
     [domains |-> <<"runtime", "driver", "nvtx">>, sampling |-> FALSE, apis |-> {"u1"}, ctxs |-> {1}],
     [domains |-> <<"none">>, sampling |-> TRUE, apis |-> {}, ctxs |-> {1, 2}]}

(* The PAPI service.                                                         *)
MCEventCodes == [cyc |-> 1, cycles |-> 1, ins |-> 2, bad |-> 0, l1 |-> 3]
MCEventLists == {<<>>, <<"bad">>, <<"cyc", "ins", "cycles">>, <<"cyc", "bad", "cycles", "l1">>,
                 <<"cyc", "ins", "l1">>}

-----------------------------------------------------------------------------
Init ==
    /\ part \in {"startup", "cinterface", "config", "mpitracing", "libpfm", "ompt", "cupti",
              "papi"}
    /\ StInit /\ (part # "startup" => stEnabled = <<"event", "trace">> /\ stMpi = [init |-> FALSE, rank |-> 0])
    /\ CiInit
    /\ RfInit
    /\ MtInit
    /\ PfInit /\ (part # "libpfm" => ~pfm.config.known)
    /\ OmInit /\ (part # "ompt" => om.mapping)
    /\ CuInit /\ (part # "cupti" => cu.apis = {})
    /\ PaInit /\ (part # "papi" => papi.list = <<>>)

(* Every component but the one that "part" names keeps its state.           *)
Rest(p) ==
    /\ UNCHANGED part
    /\ p # "startup" => UNCHANGED stVars
    /\ p # "cinterface" => UNCHANGED ciVars
    /\ p # "config" => UNCHANGED rcfVars
    /\ p # "mpitracing" => UNCHANGED mtVars
    /\ p # "libpfm" => UNCHANGED pfVars
    /\ p # "ompt" => UNCHANGED omVars
    /\ p # "cupti" => UNCHANGED cuVars
    /\ p # "papi" => UNCHANGED paVars

Next ==
    \/ part = "startup" /\ StNext /\ Rest("startup")
    \/ part = "cinterface" /\ CiNext /\ Rest("cinterface")
    \/ part = "config" /\ RfNext /\ Rest("config")
    \/ part = "mpitracing" /\ MtNext /\ Rest("mpitracing")
    \/ part = "libpfm" /\ PfNext /\ Rest("libpfm")
    \/ part = "ompt" /\ OmNext /\ Rest("ompt")
    \/ part = "cupti" /\ CuNext /\ Rest("cupti")
    \/ part = "papi" /\ PaNext /\ Rest("papi")

vars == <<part, stVars, ciVars, rcfVars, mtVars, pfVars, omVars, cuVars, paVars>>

Spec == Init /\ [][Next]_vars
=============================================================================
