-------------------------- MODULE HardwareCounters --------------------------
(***************************************************************************)
(* The two services that read hardware counters: PAPI                      *)
(* (src/services/papi/Papi.cpp) on several threads, and libpfm             *)
(* (src/services/libpfm) with its samples on one.                          *)
(***************************************************************************)
EXTENDS Integers, Sequences, FiniteSets, SequencesExt

-----------------------------------------------------------------------------
(***************************************************************************)
(* The hardware counter service (services/papi/Papi.cpp): it registers the *)
(* configured events, starts the counters of a thread at its first         *)
(* snapshot, and adds counter values to every snapshot.  PAPI is external: *)
(* PAPI_read_counters returns the counts since the previous read and       *)
(* restarts from zero; it, and starting the counters, may fail.            *)
(***************************************************************************)
CONSTANTS
    PaThreads,
    EventLists,     \* configured lists of event names to check
    CodeOf,         \* event name -> PAPI event code, 0 for an unknown name
    MaxCounters,    \* MAX_COUNTERS
    PaMaxCount, MaxReads    \* bounds

VARIABLES
    papi,           \* global_info: codes, and the attributes kept beside them
    counting,           \* thread -> its ThreadInfo, its hardware, and what it recorded
    failed          \* num_failed

paVars == <<papi, counting, failed>>

IsNew(g, e) == ~\E i \in DOMAIN g : g[i].code = CodeOf[e]

(***************************************************************************)
(* setup_events: unknown names, events already there and events past the   *)
(* limit are dropped; two names may be the same event.                     *)
(***************************************************************************)
SetupEvents[l \in Seq(DOMAIN CodeOf)] ==
    IF l = <<>> THEN <<>>
    ELSE LET g == SetupEvents[SubSeq(l, 1, Len(l) - 1)]
             e == l[Len(l)] IN
         IF CodeOf[e] # 0 /\ IsNew(g, e) /\ Len(g) < MaxCounters
         THEN Append(g, [code |-> CodeOf[e], attr |-> e]) ELSE g

(* papi_register; no counter, no service. *)
PaInit ==
    /\ \E l \in EventLists : papi = [list |-> l, counters |-> SetupEvents[l]]
    /\ counting = [t \in PaThreads |->
                  [info |-> "none", accum |-> 0, hw |-> 0, counted |-> 0,
                   deltas |-> 0, shown |-> 0, reads |-> 0]]
    /\ failed = 0

(* The hardware counts on a thread whose counters run (external). *)
HwCount(t) ==
    /\ counting[t].info = "active" /\ counting[t].counted < PaMaxCount
    /\ counting' = [counting EXCEPT ![t].hw = @ + 1, ![t].counted = @ + 1]
    /\ UNCHANGED <<papi, failed>>

(* get_thread_info: a new thread registers and starts its counters, and    *)
(* reads them once.  No allocation inside a signal handler.                *)
ThreadInfo(t, signal) ==
    IF counting[t].info = "none" /\ ~signal
    THEN {[counting[t] EXCEPT !.info = i, !.accum = 0] : i \in {"active", "inactive"}}
    ELSE {counting[t]}

(* A defect: the last counts replace the sum.                              *)
AccumLast(i, v) == v

Accum(i, v) == i.accum + v

(* snapshot_cb: all counters of the thread are read with one call, so one  *)
(* count stands for all of them.                                           *)
Counters(t, signal) ==
    /\ papi.counters # <<>> /\ counting[t].reads < MaxReads
    /\ \E i \in ThreadInfo(t, signal) :
       \/ /\ counting' = [counting EXCEPT ![t] = [i EXCEPT !.reads = @ + 1]]
          /\ failed' = failed + 1
       \/ /\ i.info = "active"
          /\ counting' = [counting EXCEPT ![t] = [i EXCEPT !.reads = @ + 1,
                                                   !.accum = Accum(i, i.hw),
                                                   !.deltas = @ + i.hw,
                                                   !.shown = Accum(i, i.hw),
                                                   !.hw = 0]]
          /\ UNCHANGED failed
    /\ UNCHANGED papi

(* papi_init starts the counters of the initializing thread. *)
PapiInit(t) ==
    /\ papi.counters # <<>> /\ counting[t].info = "none"
    /\ \E i \in ThreadInfo(t, FALSE) : counting' = [counting EXCEPT ![t] = i]
    /\ UNCHANGED <<papi, failed>>

PaNext ==
    \E t \in PaThreads :
        \/ HwCount(t) \/ PapiInit(t)
        \/ \E s \in BOOLEAN : Counters(t, s)

PaSpec == PaInit /\ [][PaNext]_paVars

(***************************************************************************)
(* No count is lost or reported twice: at any time the differences         *)
(* recorded for a thread and what its counters still hold add up to what   *)
(* the hardware counted since it was started, and the accumulated value    *)
(* last recorded is the sum of the differences; a failed read leaves its   *)
(* counts for the next one (snapshot_cb, Papi.cpp:146-167).                *)
(***************************************************************************)
CountsAddUp ==
    \A t \in PaThreads :
        /\ counting[t].deltas + counting[t].hw = counting[t].counted
        /\ counting[t].shown = counting[t].deltas

(***************************************************************************)
(* The counters handed to PAPI_start_counters are distinct, fit the stack  *)
(* arrays of snapshot_cb, are each stored beside an attribute named after  *)
(* them, and none that fits is missing (setup_events).                     *)
(***************************************************************************)
EventsRegistered ==
    LET g == papi.counters
        codes == {CodeOf[papi.list[i]] : i \in DOMAIN papi.list} \ {0} IN
    /\ Len(g) <= MaxCounters
    /\ \A i \in DOMAIN g : CodeOf[g[i].attr] = g[i].code
    /\ \A i, j \in DOMAIN g : g[i].code = g[j].code => i = j
    /\ Len(g) < MaxCounters => \A c \in codes : \E i \in DOMAIN g : g[i].code = c

(* The counters that were asked for are counted, and what is recorded of     *)
(* them adds up (Papi.cpp setup_events, snapshot_cb).                        *)
CountersSound == EventsRegistered /\ CountsAddUp

-----------------------------------------------------------------------------
(***************************************************************************)
(* The libpfm service on one thread.  The kernel (external) counts events  *)
(* and writes sample records into one ring buffer per event; a signal      *)
(* makes the handler read one record and push a snapshot.  Snapshots of    *)
(* the program read and reset the counters.  The ring is counted in 8-byte *)
(* words, each sample field and the record header being one word.          *)
(***************************************************************************)
CONSTANTS PfmConfigs,   \* configurations: [events, known, periods, attrs]
          RingWords,    \* size of a ring buffer
          MaxRecs,      \* bound on the records the kernel writes
          MaxTicks      \* bound on counted events

VARIABLES pfm,          \* [state, config, pointers]: the service's registration
          ring,         \* ring[e]: [words, head, tail]
          hw,           \* hw[e]: [count, enabled]
          signal,       \* pending SIGIO: the event it is for, 0 if none
          handler,      \* [at, e, hdr, sample]: the handler's progress
          busy,         \* the interrupted thread is inside Caliper
          stats,        \* thread_state: [signals, samples, bad, noevent, nocali]
          reading,      \* snapshot_cb's progress: event whose counter is read next
          seen          \* history: [recs, pushed, ticks, counted, slipped]

pfVars == <<pfm, ring, hw, signal, handler, busy, stats, reading, seen>>

SampleFields == {"ip", "tid", "time", "addr", "id", "stream_id", "cpu", "period", "weight",
                 "data_src", "transaction"}

(* The order of the fields in a record, as the kernel lays them out        *)
(* (external) and as perf_read_sample takes them.                          *)
KernelOrder == <<"ip", "tid", "time", "addr", "id", "stream_id", "cpu", "period", "weight",
                 "data_src", "transaction">>

(* A defect: fields are read in the order of their bits.                   *)
ReadOrderBits == <<"ip", "tid", "time", "id", "stream_id", "addr", "cpu", "period", "weight",
                   "data_src", "transaction">>

ReadOrder == <<"ip", "tid", "time", "addr", "id", "stream_id", "cpu", "period", "weight",
               "data_src", "transaction">>

NoRing == [words |-> [i \in 0..(RingWords - 1) |-> <<0, "none">>], head |-> 0, tail |-> 0]
AtRest == [at |-> "idle", e |-> 0, hdr |-> <<0, "none">>, sample |-> <<>>]

PfInit ==
    /\ \E c \in PfmConfigs : pfm = [state |-> "new", config |-> c, pointers |-> <<>>]
    /\ ring = <<>> /\ hw = <<>> /\ signal = 0
    /\ handler = AtRest /\ busy = FALSE /\ reading = 0
    /\ stats = [signals |-> 0, samples |-> 0, bad |-> 0, noevent |-> 0, nocali |-> 0]
    /\ seen = [recs |-> <<>>, pushed |-> <<>>, ticks |-> <<>>, counted |-> <<>>,
               slipped |-> FALSE]
-----------------------------------------------------------------------------
(* parse_configset: the lists must have one value per event                *)
PfmRegister ==
    /\ pfm.state = "new"
    /\ pfm' = [pfm EXCEPT !.state = IF pfm.config.periods = pfm.config.events THEN "registered"
                                    ELSE "refused"]
    /\ UNCHANGED <<ring, hw, signal, handler, busy, stats, reading, seen>>

(* setup_thread_pointers: stops at the first name it does not know         *)
Pointers(attrs) ==
    LET known(i) == \A j \in 1..i : attrs[j] \in SampleFields
    IN  [i \in DOMAIN attrs |-> IF known(i) THEN attrs[i] ELSE "null"]

(* post_init_cb, create_scope_cb: open one counter and one ring per event  *)
(* (none at all if an event is unknown), point at the sample's fields,     *)
(* reset and enable.                                                       *)
PfmStart ==
    /\ pfm.state = "registered"
    /\ \E n \in {IF pfm.config.known THEN pfm.config.events ELSE 0} :
       /\ ring' = [e \in 1..n |-> NoRing]
       /\ hw' = [e \in 1..n |-> [count |-> 0, enabled |-> TRUE]]
       /\ seen' = [recs |-> [e \in 1..n |-> <<>>], pushed |-> [e \in 1..n |-> <<>>],
                   ticks |-> [e \in 1..n |-> 0], counted |-> [e \in 1..n |-> 0],
                   slipped |-> FALSE]
    /\ pfm' = [pfm EXCEPT !.state = "running", !.pointers = Pointers(pfm.config.attrs)]
    /\ UNCHANGED <<signal, handler, busy, stats, reading>>

(* external: the kernel writes a record if the ring has room, and raises a *)
(* signal unless one is already pending.                                   *)
Fields == SelectSeq(KernelOrder, LAMBDA f : f \in ToSet(pfm.config.attrs))

KernelRecord(e, type) ==
    /\ pfm.state = "running" /\ e \in DOMAIN hw /\ hw[e].enabled
    /\ Len(seen.recs[e]) < MaxRecs
    /\ \E n \in {Len(seen.recs[e]) + 1} :
       \E fs \in {IF type = "sample" THEN Fields ELSE <<"payload">>} :
       /\ ring[e].head + Len(fs) + 1 - ring[e].tail <= RingWords
       /\ ring' = [ring EXCEPT ![e] =
             [words |-> [i \in 0..(RingWords - 1) |->
                            LET k == (i - ring[e].head) % RingWords
                            IN  IF k = 0 THEN <<n, type>>
                                ELSE IF k <= Len(fs) THEN <<n, fs[k]>> ELSE ring[e].words[i]],
              head |-> ring[e].head + Len(fs) + 1, tail |-> ring[e].tail]]
       /\ seen' = [seen EXCEPT !.recs[e] = Append(@, type)]
    /\ signal' = IF signal = 0 THEN e ELSE signal
    /\ UNCHANGED <<pfm, hw, handler, busy, stats, reading>>

Tick(e) ==
    /\ pfm.state = "running" /\ e \in DOMAIN hw /\ hw[e].enabled /\ seen.ticks[e] < MaxTicks
    /\ hw' = [hw EXCEPT ![e].count = @ + 1]
    /\ seen' = [seen EXCEPT !.ticks[e] = @ + 1]
    /\ UNCHANGED <<pfm, ring, signal, handler, busy, stats, reading>>

(* The thread enters or leaves a Caliper call.                             *)
ToggleBusy ==
    /\ handler.at = "idle" /\ reading = 0 /\ pfm.state = "running"
    /\ busy' = ~busy
    /\ UNCHANGED <<pfm, ring, hw, signal, handler, stats, reading, seen>>
-----------------------------------------------------------------------------
(* perf_read_buffer: sz words from the tail, if that many are there        *)
Available(e) == ring[e].head - ring[e].tail
ReadBuffer(e, sz) == [i \in 1..sz |-> ring[e].words[(ring[e].tail + i - 1) % RingWords]]
Consume(e, sz) == ring' = [ring EXCEPT ![e].tail = @ + sz]

(* sigio_handler: stop the event and read the record's header              *)
SigioHandler ==
    /\ signal # 0 /\ handler.at = "idle" /\ pfm.state = "running"
    /\ signal' = 0
    /\ hw' = [hw EXCEPT ![signal].enabled = FALSE]
    /\ stats' = [stats EXCEPT !.signals = @ + 1]
    /\ IF Available(signal) >= 1
       THEN /\ handler' = [at |-> "header", e |-> signal, hdr |-> ReadBuffer(signal, 1)[1],
                           sample |-> <<>>]
            /\ Consume(signal, 1)
       ELSE \* ehdr is left uninitialised
            /\ handler' = [AtRest EXCEPT !.at = "header", !.e = signal]
            /\ UNCHANGED ring
    /\ UNCHANGED <<pfm, busy, reading, seen>>

(* The sizes a record may announce: what the kernel wrote, or anything if  *)
(* the words read are not a header.  ehdr.size counts the header too.      *)
IsHeader(hdr) == hdr[1] # 0 /\ hdr[2] \in {"sample", "lost"}
SizesOf(hdr) == IF ~IsHeader(hdr) THEN 0..RingWords
                ELSE IF hdr[2] = "sample" THEN {Len(Fields) + 1} ELSE {2}

TypesOf(hdr) == IF IsHeader(hdr) THEN {hdr[2]} ELSE {"sample", "lost"}

SkipBuffer(e, sz) == IF sz > Available(e) THEN Available(e) ELSE sz

(* perf_read_sample, then what is left of the announced size is skipped;   *)
(* or perf_skip_buffer for another kind of record, by ehdr.size although   *)
(* the header has been read: the words beyond the record are lost if there *)
(* are any.                                                                *)
ReadSample ==
    /\ handler.at = "header"
    /\ \E e \in {handler.e}, size \in SizesOf(handler.hdr), type \in TypesOf(handler.hdr) :
       IF type = "sample"
       THEN \E order \in {SelectSeq(ReadOrder, LAMBDA f : f \in ToSet(pfm.config.attrs))} :
            \E n \in {IF Len(order) < Available(e) THEN Len(order) ELSE Available(e)} :
            \E ws \in {ReadBuffer(e, n)} :
            /\ handler' = [handler EXCEPT !.at = "sample",
                              !.sample = [f \in ToSet(SubSeq(order, 1, n)) |->
                                             ws[CHOOSE i \in 1..n : order[i] = f]]]
            /\ Consume(e, IF n < Len(order) THEN n ELSE SkipBuffer(e, size - 1))
            /\ UNCHANGED <<stats, seen>>
       ELSE /\ Consume(e, SkipBuffer(e, size))
            /\ seen' = [seen EXCEPT !.slipped = @ \/ Available(e) >= size]
            /\ stats' = [stats EXCEPT !.bad = @ + 1]
            /\ handler' = [handler EXCEPT !.at = "enable"]
    /\ UNCHANGED <<pfm, hw, signal, busy, reading>>

NoInstance == [stats EXCEPT !.nocali = @ + 1]

(* sample_handler: nothing is pushed if the thread was inside Caliper; an  *)
(* attribute without a pointer ends the program.                           *)
SampleHandler ==
    /\ handler.at = "sample"
    /\ IF busy
       THEN stats' = NoInstance /\ UNCHANGED <<seen, pfm>>
       ELSE IF \E i \in DOMAIN pfm.pointers : pfm.pointers[i] = "null"
       THEN pfm' = [pfm EXCEPT !.state = "crashed"] /\ UNCHANGED <<stats, seen>>
       ELSE /\ stats' = [stats EXCEPT !.samples = @ + 1]
            /\ seen' = [seen EXCEPT !.pushed[handler.e] = Append(@, <<handler.hdr, handler.sample>>)]
            /\ UNCHANGED pfm
    /\ handler' = [handler EXCEPT !.at = "enable"]
    /\ UNCHANGED <<ring, hw, signal, busy, reading>>

EnableAgain ==
    /\ handler.at = "enable" /\ pfm.state = "running"
    /\ hw' = [hw EXCEPT ![handler.e].enabled = TRUE]
    /\ handler' = AtRest
    /\ UNCHANGED <<pfm, ring, signal, busy, stats, reading, seen>>
-----------------------------------------------------------------------------
(* snapshot_cb: each counter is read, then reset                           *)
ReadCounter ==
    /\ pfm.state = "running" /\ busy /\ handler.at = "idle"
    /\ reading = 0 /\ DOMAIN hw # {}
    /\ reading' = 1
    /\ seen' = [seen EXCEPT !.counted[1] = @ + hw[1].count]
    /\ UNCHANGED <<pfm, ring, hw, signal, handler, busy, stats>>

Reset(e) == [hw EXCEPT ![e].count = 0]

ResetCounter ==
    /\ reading # 0 /\ handler.at = "idle"
    /\ hw' = Reset(reading)
    /\ IF reading + 1 \in DOMAIN hw
       THEN /\ reading' = reading + 1
            /\ seen' = [seen EXCEPT !.counted[reading + 1] = @ + hw[reading + 1].count]
       ELSE reading' = 0 /\ UNCHANGED seen
    /\ UNCHANGED <<pfm, ring, signal, handler, busy, stats>>

(* finish_cb, end_thread_sampling                                          *)
PfmFinish ==
    /\ pfm.state = "running" /\ handler.at = "idle" /\ reading = 0
    /\ pfm' = [pfm EXCEPT !.state = "finished"]
    /\ hw' = [e \in DOMAIN hw |-> [hw[e] EXCEPT !.enabled = FALSE]]
    /\ UNCHANGED <<ring, signal, handler, busy, stats, reading, seen>>

PfNext ==
    \/ PfmRegister \/ PfmStart \/ PfmFinish \/ ToggleBusy
    \/ SigioHandler \/ ReadSample \/ SampleHandler \/ EnableAgain
    \/ ReadCounter \/ ResetCounter
    \/ \E e \in DOMAIN hw : Tick(e) \/ KernelRecord(e, "sample") \/ KernelRecord(e, "lost")

PfSpec == PfInit /\ [][PfNext]_pfVars
-----------------------------------------------------------------------------
(* Every sample pushed is one the kernel took: it has a value for every    *)
(* requested attribute, each the value the kernel wrote for that attribute *)
(* in that record, and no record is pushed twice, however far the reader   *)
(* has fallen behind and wherever the ring wraps, as long as no record     *)
(* that is not a sample was skipped with another one behind it (the skip   *)
(* of sigio_handler then runs into that one).                              *)
SamplesFaithful ==
    ~seen.slipped => \A e \in DOMAIN hw :
        \A i \in DOMAIN seen.pushed[e] :
            LET p == seen.pushed[e][i]
            IN  p[1][1] # 0 =>
                   /\ seen.recs[e][p[1][1]] = "sample"
                   /\ p[2] = [f \in ToSet(Fields) |-> <<p[1][1], f>>]
                   /\ \A j \in 1..(i - 1) : seen.pushed[e][j][1][1] < p[1][1]

(* A signal always finds a record (with the same proviso), and every signal *)
(* is accounted for exactly once in the statistics printed at the end.     *)
SignalsAccounted ==
    /\ ~seen.slipped => \A e \in DOMAIN hw : \A i \in DOMAIN seen.pushed[e] : seen.pushed[e][i][1][1] # 0
    /\ pfm.state # "crashed" /\ handler.at = "idle" =>
          stats.signals = stats.samples + stats.bad + stats.noevent + stats.nocali

(* No event is counted twice: what the snapshots recorded and what the     *)
(* counter holds never exceeds what happened.                              *)
CountedOnce ==
    \A e \in DOMAIN hw :
        seen.counted[e] + (IF reading = e THEN 0 ELSE hw[e].count) <= seen.ticks[e]

(* Samples and counters tell what happened: each sample is one the kernel    *)
(* took, each signal is accounted for, and no event is counted twice         *)
(* (Libpfm.cpp, perf_util.c).                                                *)
SamplingSound == SamplesFaithful /\ SignalsAccounted /\ CountedOnce
=============================================================================
