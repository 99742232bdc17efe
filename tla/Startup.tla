------------------------------- MODULE Startup -------------------------------
(***************************************************************************)
(* How the runtime comes up (Caliper.cpp GlobalData::init, Services.cpp,   *)
(* api.cpp, mpi/mpi-rt/setup_mpi.cpp, Log.cpp): library constructors add   *)
(* lists of services and init hooks; the constructor of the global data    *)
(* then runs the hooks, registers the enabled services, and creates the    *)
(* attributes of the annotation interface.  Registration itself belongs to *)
(* the services: here a service creates its attributes, listens for new    *)
(* ones from then on, and logs that it is registered.                      *)
(***************************************************************************)
EXTENDS Naturals, Sequences, SequencesExt, FiniteSets

CONSTANTS
    StLists,       \* name of a list -> the services in it, in order
    StDefault,     \* the services of libcaliper itself
    StEnable,      \* the values of CALI_SERVICES_ENABLE to check
    StAttrs,       \* service -> the attributes it creates when registered
    ApiAttrs,      \* the attributes of init_api_attributes
    ClassAttrs     \* those created before: key, version, attribute classes

VARIABLES
    stPhase,       \* how far GlobalData::init is
    svcLists,      \* s_services_list, head first: the names of lists
    initHooks,     \* s_init_hooks, head first
    stMpi,         \* [init, rank]: external
    stLeft,        \* names still to be found, of the enable list
    stWalk,        \* what is left of the walk over the lists
    stLog,         \* LogImpl: [verbosity, prefixes, lines]
    stServices,    \* the services registered, in order, each with the attributes heard
    stAdded,       \* history: list or "hook" -> the phase in which it was added
    stEnabled      \* history: the enable list

stVars == <<stPhase, svcLists, initHooks, stMpi, stLeft, stWalk, stLog, stServices, stAdded, stEnabled>>

StInit ==
    /\ stPhase = "before" /\ svcLists = <<>> /\ initHooks = <<>>
    /\ stMpi \in [init : BOOLEAN, rank : {0, 1}]
    /\ stLeft = <<>> /\ stWalk = <<>>
    /\ stLog = [verbosity |-> 1, prefixes |-> 0, lines |-> <<>>]
    /\ stServices = <<>> /\ stAdded = <<>>
    /\ stEnabled \in StEnable

ServicesIn(l) == IF l = "default" THEN StDefault ELSE StLists[l]

(* Log(level).stream() << ...                                              *)
LogLine(lg, level, text) ==
    IF lg.verbosity >= level THEN [lg EXCEPT !.lines = Append(@, <<level, text>>)] ELSE lg

(* Caliper::is_initialized.                                                *)
StReady == stPhase = "ready"

(* History: when something was added.                                      *)
Added(x) == [y \in DOMAIN stAdded \cup {x} |-> IF y = x THEN stPhase ELSE stAdded[y]]

(* Caliper::add_services, from the constructor of a library, which may be  *)
(* loaded at any time: the list becomes the head, or is refused.           *)
AddServices(l) ==
    /\ l \notin DOMAIN stAdded
    /\ stAdded' = Added(l)
    /\ IF StReady THEN stLog' = LogLine(stLog, 0, "refused") /\ UNCHANGED svcLists
                  ELSE svcLists' = <<l>> \o svcLists /\ UNCHANGED stLog
    /\ UNCHANGED <<stPhase, initHooks, stMpi, stLeft, stWalk, stServices, stEnabled>>

(* mpirt_constructor's second half, Caliper::add_init_hook.                *)
AddInitHook ==
    /\ "hook" \notin DOMAIN stAdded
    /\ stAdded' = Added("hook")
    /\ IF StReady THEN stLog' = LogLine(stLog, 0, "refused") /\ UNCHANGED initHooks
                  ELSE initHooks' = <<"setup_mpi">> \o initHooks /\ UNCHANGED stLog
    /\ UNCHANGED <<stPhase, svcLists, stMpi, stLeft, stWalk, stServices, stEnabled>>

(* setup_mpi: ranks other than 0 stop logging.                             *)
SetupMpi(lg) ==
    IF ~stMpi.init THEN lg
    ELSE [lg EXCEPT !.prefixes = @ + 1, !.verbosity = IF stMpi.rank > 0 THEN 0 ELSE @]

(* run_init_hooks.                                                         *)
RunInitHooks(lg) == FoldLeft(LAMBDA g, h : SetupMpi(g), lg, initHooks)

(* The attributes as, created one after the other: every service that is   *)
(* registered hears of them.                                               *)
Announce(svcs, as) == [i \in DOMAIN svcs |-> [svcs[i] EXCEPT !.heard = @ \cup as]]

(* init_attribute_classes, after the key and version attributes.           *)
InitClasses(svcs) == Announce(svcs, ClassAttrs)

(* GlobalData::init up to register_services, which takes the enable list.  *)
(* No service is there yet to hear of the key, version and class           *)
(* attributes.                                                             *)
StartInit ==
    /\ stPhase = "before"
    /\ stPhase' = "services"
    /\ stLog' = RunInitHooks(stLog)
    /\ stServices' = InitClasses(stServices)
    /\ svcLists' = <<"default">> \o svcLists
    /\ stLeft' = stEnabled
    /\ stWalk' = FlattenSeq([i \in DOMAIN svcLists' |-> ServicesIn(svcLists'[i])])
    /\ UNCHANGED <<initHooks, stMpi, stAdded, stEnabled>>

TakeName(names, s) == RemoveFirst(names, s)

(* register_services, the next entry of the lists: registered if its name  *)
(* is still among those to be found.  The services registered before hear  *)
(* of its attributes.                                                      *)
RegisterNext ==
    /\ stPhase = "services" /\ stWalk # <<>>
    /\ stWalk' = Tail(stWalk)
    /\ \E s \in {Head(stWalk)} :
       IF \E i \in DOMAIN stLeft : stLeft[i] = s
       THEN /\ stLeft' = TakeName(stLeft, s)
            /\ stServices' = Append(Announce(stServices, StAttrs[s]), [name |-> s, heard |-> {}])
            /\ stLog' = LogLine(stLog, 1, "registered")
       ELSE UNCHANGED <<stLeft, stServices, stLog>>
    /\ UNCHANGED <<stPhase, svcLists, initHooks, stMpi, stAdded, stEnabled>>

(* A defect: the services miss the attributes of the interface.            *)
ApiUnheard(svcs) == svcs

(* init_api_attributes.                                                    *)
InitApi(svcs) == Announce(svcs, ApiAttrs)

(* The end of register_services and of init: names that were not found are *)
(* reported, the interface's attributes are created, and the runtime is    *)
(* published.                                                              *)
FinishInit ==
    /\ stPhase = "services" /\ stWalk = <<>>
    /\ stServices' = InitApi(stServices)
    /\ stLog' = LogLine(FoldLeft(LAMBDA g, n : LogLine(g, 0, "not found"), stLog, stLeft), 1, "initialized")
    /\ stPhase' = "ready"
    /\ UNCHANGED <<svcLists, initHooks, stMpi, stLeft, stWalk, stAdded, stEnabled>>

StNext ==
    \/ \E l \in DOMAIN StLists : AddServices(l)
    \/ AddInitHook \/ StartInit \/ RegisterNext \/ FinishInit

StSpec == StInit /\ [][StNext]_stVars
-----------------------------------------------------------------------------
TimesIn(seq, x) == Cardinality({i \in DOMAIN seq : seq[i] = x})
OfferedIn == FlattenSeq([i \in DOMAIN svcLists |->
    IF svcLists[i] = "default" \/ stAdded[svcLists[i]] = "before" THEN ServicesIn(svcLists[i]) ELSE <<>>])

StNames == [i \in DOMAIN stServices |-> stServices[i].name]

(* A service is registered as often as it is enabled and offered,          *)
(* whichever is less, by the lists that were added before initialization   *)
(* began; a name is reported as not found once for each time it is enabled *)
(* beyond that.  A list added while services are being registered is       *)
(* accepted and never looked at (Services.cpp:101-112, Caliper.cpp:1429).  *)
ServicesRegistered ==
    StReady => \A n \in ToSet(stEnabled) \cup ToSet(StNames) :
        LET e == TimesIn(stEnabled, n)  o == TimesIn(OfferedIn, n) IN
        /\ TimesIn(StNames, n) = IF e < o THEN e ELSE o
        /\ TimesIn(stLeft, n) = e - TimesIn(StNames, n)

(* Every service hears of the attributes of the annotation interface and   *)
(* of those of all services registered after it (GlobalData::init): the    *)
(* attributes it has to look for itself are those created before.          *)
LaterAttributesHeard ==
    StReady => \A i \in DOMAIN stServices :
        stServices[i].heard = ApiAttrs \cup UNION {StAttrs[stServices[j].name] : j \in (i + 1)..Len(stServices)}

(* With the MPI runtime library loaded in time and MPI initialized, ranks  *)
(* other than 0 log errors only, from the first service on, and the rank   *)
(* is put before the messages once (setup_mpi.cpp:84-91).                  *)
QuietRanks ==
    stPhase # "before" /\ stMpi.init /\ "hook" \in DOMAIN stAdded /\ stAdded["hook"] = "before" =>
        /\ stLog.prefixes = 1
        /\ stMpi.rank > 0 => \A i \in DOMAIN stLog.lines : stLog.lines[i][1] = 0

(* In whatever order libraries load, lists are added and MPI starts,         *)
(* initialization registers what is enabled, tells services of what comes    *)
(* later, and quiets the ranks.                                              *)
StartupSound == ServicesRegistered /\ LaterAttributesHeard /\ QuietRanks
=============================================================================
