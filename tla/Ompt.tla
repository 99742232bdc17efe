-------------------------------- MODULE Ompt --------------------------------
(***************************************************************************)
(* The OpenMP tools service (services/ompt/OmptService.cpp): the OpenMP    *)
(* runtime calls back when a thread starts or ends, and when it enters or  *)
(* leaves a parallel region, a barrier or its idle loop.  The service maps *)
(* OpenMP threads to Caliper scopes and keeps the open constructs in       *)
(* "ompt.region".  The runtime (external) pairs begin and end callbacks of *)
(* a thread properly; the control callback comes from any thread.          *)
(***************************************************************************)
EXTENDS Naturals, Sequences, FiniteSets

CONSTANTS
    OmThreads,      \* OpenMP thread ids
    Initial,        \* the id of the initial thread
    Constructs,     \* <<"idle", "barrier", "parallel">>, in the order of event_callbacks
    RunStates,      \* the states enumerated at registration
    OmConfigs,      \* [mapping, events, state]: environment_mapping, capture_events, ...
    MaxDepth, MaxControls, MaxLives    \* bounds

ASSUME OmptAssumption ==
    /\ Initial \in OmThreads /\ Constructs \in Seq(STRING)
    /\ \A i \in 1..Len(Constructs) : Constructs[i] \notin {"thread", "control"}
    /\ OmConfigs \subseteq [mapping : BOOLEAN, events : BOOLEAN, states : BOOLEAN]

VARIABLES
    om,             \* enable_ompt, perm_off, finished, and the configuration
    threadEnv,      \* thread_env: thread id -> scope, 0 for none
    scopes,         \* scope -> its blackboard; scope 1 is the default scope
    omth            \* the OpenMP threads: what each is doing

omVars == <<om, threadEnv, scopes, omth>>

Default == 1

EmptyScope == [live |-> TRUE, tid |-> 0, state |-> "none", region |-> <<>>]

EnvOf(t) == threadEnv[t]

(***************************************************************************)
(* get_thread_scope, installed as the thread scope callback when the       *)
(* environment is mapped; otherwise Caliper uses the default scope.        *)
(***************************************************************************)
GetThreadScope(t) == IF om.mapping /\ EnvOf(t) # 0 THEN EnvOf(t) ELSE Default

OmInit ==
    /\ \E c \in OmConfigs :
           om = [enabled |-> TRUE, permOff |-> FALSE, finished |-> FALSE,
                 mapping |-> c.mapping, events |-> c.events, states |-> c.states,
                 up |-> FALSE, cbs |-> {}, controls |-> 0, paused |-> FALSE]
    /\ threadEnv = [t \in OmThreads |-> 0]
    /\ scopes = <<EmptyScope>>
    /\ omth = [t \in OmThreads |->
                  [at |-> "out", ctx |-> 0, in |-> <<>>, lives |-> 0, state |-> "none"]]

(* basic_callbacks and event_callbacks of register_ompt_callbacks, in order. *)
Callbacks ==
    <<<<"thread", "begin">>, <<"thread", "end">>, <<"control", "any">>>>
    \o (IF ~om.events THEN <<>>
        ELSE [i \in 1..2 * Len(Constructs) |->
                 <<Constructs[(i + 1) \div 2], IF i % 2 = 1 THEN "begin" ELSE "end">>])

(* ompt_initialize_real: the runtime may refuse a callback; those set      *)
(* before it stay set, although the log says "interface disabled".  Only   *)
(* when all are set does the service ask for states and the thread id.     *)
OmptInitialize(n) ==
    /\ ~om.up /\ n \in 0..Len(Callbacks)
    /\ om' = [om EXCEPT !.up = TRUE, !.cbs = {Callbacks[i] : i \in 1..n},
                        !.states = @ /\ n = Len(Callbacks)]
    /\ scopes' = IF n = Len(Callbacks)
                 THEN [scopes EXCEPT ![GetThreadScope(Initial)].tid = Initial] ELSE scopes
    /\ UNCHANGED <<threadEnv, omth>>

Calls(c, w) == <<c, w>> \in om.cbs

(* cb_event_thread_begin, first half: the initial thread takes the default *)
(* scope, every other one creates its own.                                 *)
ThreadBegin(t) ==
    /\ om.up /\ omth[t].at = "out" /\ omth[t].lives < (IF t = Initial THEN 1 ELSE MaxLives)
    /\ LET new == Calls("thread", "begin") /\ om.mapping /\ t # Initial IN
       /\ scopes' = IF new THEN Append(scopes, EmptyScope) ELSE scopes
       /\ omth' = [omth EXCEPT ![t].at = IF Calls("thread", "begin") THEN "insert" ELSE "run",
                               ![t].lives = @ + 1, ![t].in = <<>>,
                               ![t].ctx = IF new THEN Len(scopes) + 1 ELSE Default]
    /\ UNCHANGED <<om, threadEnv>>

(* map::insert leaves an existing entry alone. *)
InsertEnv(t) == IF om.mapping /\ EnvOf(t) = 0
                THEN [threadEnv EXCEPT ![t] = omth[t].ctx] ELSE threadEnv

(* cb_event_thread_begin, second half: the map entry, then the thread id   *)
(* in whatever scope the callback finds.                                   *)
ThreadKnown(t) ==
    /\ omth[t].at = "insert"
    /\ threadEnv' = InsertEnv(t)
    /\ LET s == IF om.mapping THEN threadEnv'[t] ELSE GetThreadScope(t) IN
       scopes' = [scopes EXCEPT ![s].tid = t]
    /\ omth' = [omth EXCEPT ![t].at = "run"]
    /\ UNCHANGED om

Recording == om.enabled /\ ~om.finished

(* cb_event_{parallel,idle,wait_barrier}_begin *)
BeginConstruct(t, c) ==
    /\ omth[t].at = "run" /\ Len(omth[t].in) < MaxDepth
    /\ Len(scopes[GetThreadScope(t)].region) < 2 * MaxDepth    \* bound
    /\ omth' = [omth EXCEPT ![t].in = Append(@, c)]
    /\ scopes' = IF Recording /\ Calls(c, "begin")
                 THEN [scopes EXCEPT ![GetThreadScope(t)].region = Append(@, c)]
                 ELSE scopes
    /\ UNCHANGED <<om, threadEnv>>

PopRegion(s) == IF s = <<>> THEN s ELSE SubSeq(s, 1, Len(s) - 1)

(* cb_event_{parallel,idle,wait_barrier}_end *)
EndConstruct(t) ==
    /\ omth[t].at = "run" /\ omth[t].in # <<>>
    /\ omth' = [omth EXCEPT ![t].in = PopRegion(@)]
    /\ scopes' = IF Recording /\ Calls(omth[t].in[Len(omth[t].in)], "end")
                 THEN [scopes EXCEPT ![GetThreadScope(t)].region = PopRegion(@)]
                 ELSE scopes
    /\ UNCHANGED <<om, threadEnv>>

(* cb_event_control: 1 start, 2 pause, 4 off for good. *)
Control(cmd) ==
    /\ Calls("control", "any") /\ om.controls < MaxControls
    /\ om' = [om EXCEPT
              !.controls = @ + 1,
              !.permOff = @ \/ cmd = 4,
              !.enabled = CASE cmd = 1 -> @ \/ ~om.permOff
                            [] cmd \in {2, 4} -> FALSE
                            [] OTHER -> @,
              !.paused = @ \/ cmd \in {2, 4}]
    /\ UNCHANGED <<threadEnv, scopes, omth>>

(* A defect: the released scope stays in the map.                          *)
EraseNone(t) == threadEnv

EraseEnv(t) == [threadEnv EXCEPT ![t] = 0]

(* cb_event_thread_end, first half: look up and erase under the lock.      *)
OmThreadEnd(t) ==
    /\ omth[t].at = "run" /\ omth[t].in = <<>>
    /\ IF om.finished \/ ~om.mapping \/ EnvOf(t) = 0 \/ ~Calls("thread", "end")
       THEN /\ omth' = [omth EXCEPT ![t].at = "out", ![t].ctx = 0]
            /\ UNCHANGED threadEnv
       ELSE /\ omth' = [omth EXCEPT ![t].at = "release", ![t].ctx = EnvOf(t)]
            /\ threadEnv' = EraseEnv(t)
    /\ UNCHANGED <<om, scopes>>

(* cb_event_thread_end, second half: release_scope tells the services that *)
(* the scope is gone (its memory stays).                                   *)
OmReleaseScope(t) ==
    /\ omth[t].at = "release"
    /\ scopes' = [scopes EXCEPT ![omth[t].ctx].live = FALSE]
    /\ omth' = [omth EXCEPT ![t].at = "out", ![t].ctx = 0]
    /\ UNCHANGED <<om, threadEnv>>

(* The runtime moves the thread to another state (external). *)
RuntimeState(t, s) ==
    /\ omth[t].at = "run" /\ s # omth[t].state
    /\ omth' = [omth EXCEPT ![t].state = s]
    /\ UNCHANGED <<om, threadEnv, scopes>>

(* snapshot_cb stores the runtime state in the scope before pull_snapshot  *)
(* copies the blackboard; a state that was not enumerated is not stored.   *)
Snapshot(t) ==
    /\ om.states /\ omth[t].at = "run"
    /\ omth[t].state \in RunStates
    /\ scopes' = [scopes EXCEPT ![GetThreadScope(t)].state = omth[t].state]
    /\ UNCHANGED <<om, threadEnv, omth>>

(* finish_cb *)
OmFinish ==
    /\ ~om.finished
    /\ om' = [om EXCEPT !.finished = TRUE]
    /\ UNCHANGED <<threadEnv, scopes, omth>>

OmNext ==
    \/ \E t \in OmThreads :
          \/ ThreadBegin(t) \/ ThreadKnown(t) \/ OmThreadEnd(t) \/ OmReleaseScope(t)
          \/ Snapshot(t) \/ EndConstruct(t)
          \/ \E i \in 1..Len(Constructs) : BeginConstruct(t, Constructs[i])
          \/ \E s \in RunStates : RuntimeState(t, s)
    \/ \E cmd \in {1, 2, 4} : Control(cmd)
    \/ \E n \in 0..Len(Callbacks) : OmptInitialize(n)
    \/ OmFinish

OmSpec == OmInit /\ [][OmNext]_omVars

Captured(c) == Calls(c, "begin")

(* r consists of the captured elements of s, in their order.               *)
CapturedOf(r, s) ==
    \E f \in [1..Len(r) -> 1..Len(s)] :
        /\ \A i, j \in 1..Len(r) : i < j => f[i] < f[j]
        /\ \A k \in 1..Len(s) : Captured(s[k]) <=> \E i \in 1..Len(r) : f[i] = k
        /\ \A i \in 1..Len(r) : r[i] = s[f[i]]

(***************************************************************************)
(* With environment mapping, what a snapshot of a running thread copies is *)
(* that thread's own: its id and (while monitoring was never paused or     *)
(* finished) exactly the captured constructs it is in, whatever the other  *)
(* threads begin, end, start or release meanwhile (get_thread_scope).  A   *)
(* pause between a begin and its end leaves the region open for good       *)
(* (OmptService.cpp:186), and so does a runtime that took the begin        *)
(* callback and refused the end (:355): nothing is said after those.       *)
(***************************************************************************)
ScopeOfThread ==
    \A t \in OmThreads :
        om.mapping /\ omth[t].at = "run" =>
            LET s == scopes[GetThreadScope(t)] IN
            /\ Calls("thread", "begin") => s.tid = t
            /\ /\ ~om.paused /\ ~om.finished
               /\ \A i \in 1..Len(Constructs) :
                     Calls(Constructs[i], "begin") = Calls(Constructs[i], "end")
               => CapturedOf(s.region, omth[t].in)

(***************************************************************************)
(* The environment map never leads to a released scope, and no two threads *)
(* share one: cb_event_thread_end erases the entry before it releases the  *)
(* scope, and does nothing once Caliper has finished                       *)
(* (OmptService.cpp:152-167).                                              *)
(***************************************************************************)
EnvScopesLive ==
    \A t \in OmThreads : EnvOf(t) # 0 =>
        /\ scopes[EnvOf(t)].live
        /\ \A u \in OmThreads \ {t} : EnvOf(u) # EnvOf(t)

(* A thread always finds its own scope, live and with its own constructs,    *)
(* through the map that all threads share (OmptService.cpp).                 *)
OmptScopesSound == EnvScopesLive /\ ScopeOfThread
=============================================================================
