-------------------------------- MODULE Cupti --------------------------------
(***************************************************************************)
(* The CUDA service (services/cupti): Cupti.cpp turns CUPTI callbacks into *)
(* regions and snapshots; CuptiEventSampling.cpp keeps one event group per *)
(* CUDA context and reads the newest one in every snapshot.  CUPTI itself  *)
(* is external: it calls back on the threads that use CUDA, for the        *)
(* domains the service enabled, and may refuse any request.                *)
(***************************************************************************)
EXTENDS Naturals, Sequences, FiniteSets

CONSTANTS
    CuThreads,
    Contexts,       \* CUDA contexts, each created at most once
    CuConfigs,      \* [domains: a sequence of names, sampling: BOOLEAN, and which
                    \*  threads call the API, which contexts the program creates]
    Functions,      \* API functions
    Symbols,        \* kernel symbols; NoSymbol among them
    NoSymbol,
    MaxCuCalls, MaxSnaps    \* bounds

ASSUME CuptiAssumption ==
    CuConfigs \subseteq [domains : Seq(STRING), sampling : BOOLEAN,
                        apis : SUBSET CuThreads, ctxs : SUBSET Contexts]

VARIABLES
    cu,             \* subscribed, domains, attrs (attributes created), sampling, finished
    samplingInfo,           \* m_sampling_info: a sequence of contexts, newest last
    groups,         \* the event groups that exist and are enabled, by context
    contexts,       \* context -> "none", "alive", "gone"
    cuth,           \* the threads
    cuRaced           \* m_sampling_info was changed by one thread under another's feet

cuVars == <<cu, samplingInfo, groups, contexts, cuth, cuRaced>>

ApiDomains == {"runtime", "driver", "nvtx"}
KnownDomains == ApiDomains \cup {"resource", "sync", "none"}

(***************************************************************************)
(* register_callback_domains: event sampling needs resource callbacks,     *)
(* unknown names are skipped, "none" enables nothing.                      *)
(***************************************************************************)
DomainNames(c) ==
    IF c.sampling /\ ~\E i \in DOMAIN c.domains : c.domains[i] = "resource"
    THEN Append(c.domains, "resource") ELSE c.domains

CuInit ==
    /\ \E c \in CuConfigs :
           cu = [up |-> "off", names |-> c.domains, domains |-> {}, attrs |-> FALSE,
                 sampling |-> c.sampling, apis |-> c.apis, ctxs |-> c.ctxs, ok |-> FALSE, snaps |-> 0, pushed |-> 0]
    /\ samplingInfo = <<>> /\ groups = {} /\ cuRaced = FALSE
    /\ contexts = [x \in Contexts |-> "none"]
    /\ cuth = [t \in CuThreads |->
                  [at |-> "run", ctx |-> 0, idx |-> 0, calls |-> <<>>,
                   path |-> <<>>, symbol |-> NoSymbol, made |-> 0]]

(* cuptiservice_initialize; CUPTI may refuse the n-th domain, and then the *)
(* service is not registered although the first n - 1 domains call back.   *)
Initialize(n) ==
    LET names == DomainNames([domains |-> cu.names, sampling |-> cu.sampling])
        taken == {names[i] : i \in 1..n} \cap (KnownDomains \ {"none"}) IN
    /\ cu.up = "off" /\ n \in 0..Len(names)
    /\ cu' = [cu EXCEPT !.up = "subscribed", !.domains = taken, !.ok = n = Len(names)]
    /\ UNCHANGED <<samplingInfo, groups, contexts, cuth, cuRaced>>

(* post_init_cb is only connected when registration went through. *)
PostInit ==
    /\ cu.up = "subscribed" /\ cu.ok /\ ~cu.attrs
    /\ cu' = [cu EXCEPT !.attrs = TRUE]
    /\ UNCHANGED <<samplingInfo, groups, contexts, cuth, cuRaced>>

Subscribed(d) == cu.up = "subscribed" /\ d \in cu.domains

Running(t) == cuth[t].at = "run"

(***************************************************************************)
(* handle_callback and handle_nvtx, entering: the symbol is set, then the  *)
(* region begun; both fail quietly while the attributes do not exist.      *)
(***************************************************************************)
Enter(t, d, f, k) ==
    /\ Running(t) /\ t \in cu.apis /\ cuth[t].made < MaxCuCalls
    /\ d = "driver" \/ ~\E i \in DOMAIN cuth[t].calls : cuth[t].calls[i].d # "nvtx"
    /\ d = "driver" => \A i \in DOMAIN cuth[t].calls : cuth[t].calls[i].d # "driver"
    /\ d = "nvtx" => k = NoSymbol
    /\ LET seen == Subscribed(d) /\ cu.attrs IN
       cuth' = [cuth EXCEPT
                ![t].made = @ + 1,
                ![t].calls = Append(@, [d |-> d, f |-> f, k |-> k, seen |-> seen]),
                ![t].path = IF seen THEN Append(@, <<d, f>>) ELSE @,
                ![t].symbol = IF seen /\ k # NoSymbol THEN k ELSE @]
    /\ UNCHANGED <<cu, samplingInfo, groups, contexts, cuRaced>>

(* Caliper::end takes the innermost entry of the attribute off the path.   *)
EndOf(path, d) ==
    LET is == {i \in DOMAIN path : path[i][1] = d}
        j == CHOOSE i \in is : \A m \in is : m <= i IN
    IF is = {} THEN path
    ELSE [i \in 1..Len(path) - 1 |-> IF i < j THEN path[i] ELSE path[i + 1]]

EndSymbol(t, call) == IF call.k # NoSymbol THEN NoSymbol ELSE cuth[t].symbol

(* handle_callback and handle_nvtx, leaving: the region is ended, then the symbol. *)
CuExit(t) ==
    /\ Running(t) /\ cuth[t].calls # <<>>
    /\ LET call == cuth[t].calls[Len(cuth[t].calls)]
           heard == Subscribed(call.d) /\ cu.attrs IN
       cuth' = [cuth EXCEPT
                ![t].calls = SubSeq(@, 1, Len(@) - 1),
                ![t].path = IF heard THEN EndOf(@, call.d) ELSE @,
                ![t].symbol = IF heard THEN EndSymbol(t, call) ELSE @]
    /\ UNCHANGED <<cu, samplingInfo, groups, contexts, cuRaced>>

(* handle_resource and handle_synchronize end in one snapshot that names   *)
(* the device, the context and the event (handle_context_event,            *)
(* handle_stream_event); a failing id query leaves it out.                 *)
PushEvent(t) ==
    /\ cuth' = [cuth EXCEPT ![t].at = "run"]
    /\ \E n \in IF cu.attrs /\ cu.pushed < MaxSnaps THEN {0, 1} ELSE {0} :
           cu' = [cu EXCEPT !.pushed = @ + n]

(* handle_synchronize, and the stream events of handle_resource. *)
StreamEvent(t) ==
    /\ Running(t)
    /\ Subscribed("sync") \/ Subscribed("resource")
    /\ PushEvent(t)
    /\ UNCHANGED <<samplingInfo, groups, contexts, cuRaced>>

(* A context is created; enable_sampling_for_context creates, fills and    *)
(* enables its event group, any of which CUPTI may refuse.                 *)
CreateContext(t, x) ==
    /\ Running(t) /\ x \in cu.ctxs /\ contexts[x] = "none"
    /\ contexts' = [contexts EXCEPT ![x] = "alive"]
    /\ IF ~Subscribed("resource")
       THEN UNCHANGED <<groups, cuth>>
       ELSE IF cu.sampling
       THEN \/ groups' = groups \cup {x} /\ cuth' = [cuth EXCEPT ![t].at = "push", ![t].ctx = x]
            \/ UNCHANGED groups /\ cuth' = [cuth EXCEPT ![t].at = "event"]
       ELSE UNCHANGED groups /\ cuth' = [cuth EXCEPT ![t].at = "event"]
    /\ UNCHANGED <<cu, samplingInfo, cuRaced>>

(* Somebody is between two steps of disable_sampling_for_context.          *)
Removing(t) == cuth[t].at \in {"cleanup", "erase"}

(* The new group enters m_sampling_info under m_sampling_mtx.              *)
PushInfo(t) ==
    /\ cuth[t].at = "push"
    /\ samplingInfo' = Append(samplingInfo, cuth[t].ctx)
    /\ cuth' = [cuth EXCEPT ![t].at = "event"]
    /\ cuRaced' = (cuRaced \/ \E u \in CuThreads : Removing(u))
    /\ UNCHANGED <<cu, groups, contexts>>

ContextEvent(t) ==
    /\ cuth[t].at = "event"
    /\ PushEvent(t)
    /\ UNCHANGED <<samplingInfo, groups, contexts, cuRaced>>

(* The first of these positions, 0 when there is none.                     *)
FirstOf(is) == IF is = {} THEN 0 ELSE CHOOSE i \in is : \A j \in is : i <= j

(* A context is destroyed; disable_sampling_for_context looks its entry up *)
(* without the lock.                                                       *)
DestroyContext(t, x) ==
    /\ Running(t) /\ contexts[x] = "alive"
    /\ \A u \in CuThreads : cuth[u].at = "push" => cuth[u].ctx # x
    /\ contexts' = [contexts EXCEPT ![x] = "gone"]
    /\ LET is == {i \in DOMAIN samplingInfo : samplingInfo[i] = x} IN
       cuth' = [cuth EXCEPT
                ![t].at = IF ~Subscribed("resource") THEN "run"
                          ELSE IF cu.sampling /\ is # {} THEN "cleanup" ELSE "event",
                ![t].ctx = x,
                ![t].idx = FirstOf(is)]
    /\ UNCHANGED <<cu, samplingInfo, groups, cuRaced>>

(* A defect: the group of a destroyed context stays.                       *)
CleanupGroupNot(x) == groups

(* cleanup_cupti_event_group; CUPTI accepts both requests here.            *)
CleanupGroup(x) == groups \ {x}

Cleanup(t) ==
    /\ cuth[t].at = "cleanup"
    /\ groups' = CleanupGroup(cuth[t].ctx)
    /\ cuth' = [cuth EXCEPT ![t].at = "erase"]
    /\ UNCHANGED <<cu, samplingInfo, contexts, cuRaced>>

EraseAt(s, j) == [i \in 1..Len(s) - 1 |-> IF i < j THEN s[i] ELSE s[i + 1]]

EraseInfo(t) ==
    /\ cuth[t].at = "erase"
    /\ samplingInfo' = IF cuth[t].idx <= Len(samplingInfo) THEN EraseAt(samplingInfo, cuth[t].idx) ELSE samplingInfo
    /\ cuth' = [cuth EXCEPT ![t].at = "event"]
    /\ cuRaced' = (cuRaced \/ \E u \in CuThreads \ {t} : Removing(u))
    /\ UNCHANGED <<cu, groups, contexts>>

ReadFrom == samplingInfo[Len(samplingInfo)]

(* EventSampling::snapshot: the newest group is taken under the lock ...   *)
SnapshotPick(t) ==
    /\ Running(t) /\ cu.ok /\ cu.sampling /\ cu.up = "subscribed" /\ cu.snaps < MaxSnaps
    /\ samplingInfo # <<>>
    /\ cuth' = [cuth EXCEPT ![t].at = "read", ![t].ctx = ReadFrom]
    /\ cu' = [cu EXCEPT !.snaps = @ + 1]
    /\ cuRaced' = (cuRaced \/ \E u \in CuThreads : Removing(u))
    /\ UNCHANGED <<samplingInfo, groups, contexts>>

(* ... and read after it was let go. *)
SnapshotRead(t) ==
    /\ cuth[t].at = "read"
    /\ cuth' = [cuth EXCEPT ![t].at = "run"]
    /\ UNCHANGED <<cu, samplingInfo, groups, contexts, cuRaced>>

(* finish_cb: stop_all, then unsubscribe. *)
CuFinish ==
    /\ cu.up = "subscribed" /\ cu.ok
    /\ groups' = groups \ {samplingInfo[i] : i \in DOMAIN samplingInfo}
    /\ samplingInfo' = <<>>
    /\ cu' = [cu EXCEPT !.up = "finished"]
    /\ cuRaced' = (cuRaced \/ \E u \in CuThreads : cuth[u].at # "run")
    /\ UNCHANGED <<contexts, cuth>>

CuNext ==
    \/ \E n \in 0..Len(cu.names) + 1 : Initialize(n)
    \/ PostInit \/ CuFinish
    \/ \E t \in CuThreads :
          \/ CuExit(t) \/ StreamEvent(t) \/ PushInfo(t) \/ ContextEvent(t) \/ Cleanup(t)
          \/ EraseInfo(t) \/ SnapshotPick(t) \/ SnapshotRead(t)
          \/ \E d \in ApiDomains, f \in Functions, k \in Symbols : Enter(t, d, f, k)
          \/ \E x \in Contexts : CreateContext(t, x) \/ DestroyContext(t, x)

CuSpec == CuInit /\ [][CuNext]_cuVars

(***************************************************************************)
(* Every enabled event group can still be found and is there to be read:   *)
(* as long as no thread used m_sampling_info while another removed from it *)
(* without the lock (CuptiEventSampling.cpp:282-295), the groups in CUPTI  *)
(* are those of the list and of the threads that are adding or removing    *)
(* one, each context has one entry, and a listed context is alive or       *)
(* being destroyed.                                                        *)
(***************************************************************************)
GroupsTracked ==
    ~cuRaced =>
        /\ groups \subseteq {samplingInfo[i] : i \in DOMAIN samplingInfo}
                            \cup {cuth[t].ctx : t \in {u \in CuThreads : cuth[u].at = "push"}}
        /\ \A i, j \in DOMAIN samplingInfo : samplingInfo[i] = samplingInfo[j] => i = j
        /\ \A i \in DOMAIN samplingInfo :
              samplingInfo[i] \in groups \/ \E t \in CuThreads : cuth[t].at = "erase" /\ cuth[t].ctx = samplingInfo[i]

(***************************************************************************)
(* The regions a thread is in are the CUDA calls and NVTX ranges whose     *)
(* beginning the service heard of, in order, and (when runtime and driver  *)
(* calls are not both captured) the kernel symbol is the one of the open   *)
(* call that has one.  A driver call inside a runtime call ends the symbol *)
(* of both (Cupti.cpp:302), so nothing is said about the symbol then.      *)
(***************************************************************************)
RegionsMatchCalls ==
    cu.up = "subscribed" =>
        \A t \in CuThreads :
            LET calls == cuth[t].calls
                path == cuth[t].path
                named == {k \in 1..Len(calls) : calls[k].seen /\ calls[k].k # NoSymbol} IN
            /\ \E f \in [1..Len(path) -> 1..Len(calls)] :
                  /\ \A i, j \in 1..Len(path) : i < j => f[i] < f[j]
                  /\ \A k \in 1..Len(calls) : calls[k].seen <=> \E i \in 1..Len(path) : f[i] = k
                  /\ \A i \in 1..Len(path) : path[i] = <<calls[f[i]].d, calls[f[i]].f>>
            /\ ~({"runtime", "driver"} \subseteq cu.domains) =>
                  IF named = {} THEN cuth[t].symbol = NoSymbol
                  ELSE \E k \in named : cuth[t].symbol = calls[k].k

(* What the CUPTI service keeps agrees with CUDA: the event groups with the  *)
(* contexts, the open regions with the calls (CuptiEventSampling.cpp,        *)
(* Cupti.cpp).                                                               *)
CuptiSound == GroupsTracked /\ RegionsMatchCalls
=============================================================================
