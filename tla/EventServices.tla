--------------------------- MODULE EventServices ---------------------------
(***************************************************************************)
(* The services that turn annotation calls into snapshots and measure time *)
(* (src/services/event, timestamp and textlog), driven by the calls of     *)
(* several threads.  The event service keeps the nesting level of every    *)
(* attribute on the blackboard and takes a snapshot with it before the     *)
(* value is pushed or removed; the timestamp service saves the time a      *)
(* level was entered under an attribute of its own for that level, and     *)
(* the text log writes a line for a snapshot of an end or a set event.     *)
(***************************************************************************)
EXTENDS Integers, Sequences, FiniteSets

CONSTANTS EvThreads,
          ThreadAttrs,   \* attributes with thread scope
          ProcAttrs,     \* attributes with process scope
          Triggers,      \* the attributes that trigger snapshots (event.trigger)
          MaxTime, MaxEvents   \* bounds on the clock and on the number of calls

(* An attribute has one scope, and only existing attributes trigger.       *)
ASSUME EventAssumption ==
  /\ ThreadAttrs \cap ProcAttrs = {} /\ Triggers \subseteq ThreadAttrs \cup ProcAttrs
  /\ "process" \notin EvThreads /\ "none" \notin ThreadAttrs \cup ProcAttrs
  /\ MaxEvents \in Nat

VARIABLES info,     \* event.enable_snapshot_info
          clock,
          stack,    \* scope -> attr -> the times at which its open values were begun
          level,    \* scope -> attr -> cali.lvl#attr, Unset before the first event
          offset,   \* thread -> <<attr, level>> -> the saved time, or Unset
          offAttrs, \* the offset attributes that exist: pairs <<attr, level>>
          timeOffs, \* thread -> time.offset, or Unset
          durations,\* thread -> sum of the time.duration values written
          firstOffs,\* history: thread -> the time of its first snapshot
          step,     \* thread -> the callback in progress
          record,   \* thread -> the last snapshot of an event
          closed,   \* history: attr -> regions ended and values replaced
          lines,    \* attr -> lines of the text log
          events,   \* calls so far
          mixed     \* history: attributes that were set, or whose level two threads updated

evVars == <<info, clock, stack, level, offset, offAttrs, timeOffs, durations, firstOffs,
            step, record, closed, lines, events, mixed>>

Unset == -1
MainThread == CHOOSE t \in EvThreads : TRUE
EvAttrs == ThreadAttrs \cup ProcAttrs
ScopeOf(t, a) == IF a \in ProcAttrs THEN "process" ELSE t
EvScopes == EvThreads \cup {"process"}
Levels == 0..(MaxEvents + 1)
NoStep == [at |-> "none", attr |-> "none", level |-> 0]
NoRecord == [evt |-> "none", attr |-> "none", phase |-> Unset, expected |-> Unset]

(* timestamp_service_register sets time.offset for the registering thread only. *)
EvInit ==
  /\ info \in BOOLEAN /\ clock = 0
  /\ stack = [s \in EvScopes |-> [a \in EvAttrs |-> <<>>]]
  /\ level = [s \in EvScopes |-> [a \in EvAttrs |-> Unset]]
  /\ offset = [t \in EvThreads |-> [p \in EvAttrs \X Levels |-> Unset]]
  /\ offAttrs = {}
  /\ timeOffs = [t \in EvThreads |-> IF t = MainThread THEN 0 ELSE Unset]
  /\ firstOffs = timeOffs
  /\ durations = [t \in EvThreads |-> 0]
  /\ step = [t \in EvThreads |-> NoStep]
  /\ record = [t \in EvThreads |-> NoRecord]
  /\ events = 0 /\ closed = [a \in EvAttrs |-> 0] /\ lines = [a \in EvAttrs |-> 0] /\ mixed = {}

EvTick == clock < MaxTime /\ clock' = clock + 1
        /\ UNCHANGED <<info, stack, level, offset, offAttrs, timeOffs, durations, firstOffs,
                       step, record, closed, lines, events, mixed>>

Open(t, a) == stack[ScopeOf(t, a)][a]
Level(t, a) == level[ScopeOf(t, a)][a]
SetLevel(t, a, n) == level' = IF info THEN [level EXCEPT ![ScopeOf(t, a)][a] = n] ELSE level
Busy(t, a) == \E u \in EvThreads \ {t} : step[u].at # "none" /\ step[u].attr = a
AtStep(t, at) == step[t].at = at
NewEvent == events < MaxEvents /\ events' = events + 1

(* event_begin_cb: exchange the level with 1, then raise it if it was not 0. *)
BeginEvent(t, a) ==
  /\ AtStep(t, "none") /\ a \in Triggers /\ NewEvent
  /\ SetLevel(t, a, 1)
  /\ step' = [step EXCEPT ![t] = [at |-> IF Level(t, a) > 0 THEN "raise" ELSE "begin",
                                  attr |-> a, level |-> IF Level(t, a) > 0 THEN Level(t, a) + 1 ELSE 1]]
  /\ mixed' = IF Busy(t, a) /\ a \in ProcAttrs THEN mixed \cup {a} ELSE mixed
  /\ UNCHANGED <<info, clock, stack, offset, offAttrs, timeOffs, durations, firstOffs,
                 record, closed, lines>>
(* event_end_cb: Caliper::end returned early if there is no value. *)
EndEvent(t, a) ==
  /\ AtStep(t, "none") /\ Open(t, a) # <<>> /\ a \in Triggers /\ NewEvent
  /\ SetLevel(t, a, 0)
  /\ step' = [step EXCEPT ![t] = [at |-> IF Level(t, a) > 1 THEN "lower" ELSE "end",
                                  attr |-> a, level |-> Level(t, a)]]
  /\ mixed' = IF Busy(t, a) /\ a \in ProcAttrs THEN mixed \cup {a} ELSE mixed
  /\ UNCHANGED <<info, clock, stack, offset, offAttrs, timeOffs, durations, firstOffs,
                 record, closed, lines>>
(* event_set_cb: the level of a set is always 1. *)
SetEvent(t, a) ==
  /\ AtStep(t, "none") /\ a \in Triggers /\ NewEvent
  /\ SetLevel(t, a, 1)
  /\ step' = [step EXCEPT ![t] = [at |-> "set", attr |-> a, level |-> 1]]
  /\ mixed' = mixed \cup {a}
  /\ UNCHANGED <<info, clock, stack, offset, offAttrs, timeOffs, durations, firstOffs,
                 record, closed, lines>>
(* The second update of the level, after the exchange. *)
RaiseLevel(t) ==
  /\ AtStep(t, "raise") /\ SetLevel(t, step[t].attr, step[t].level)
  /\ step' = [step EXCEPT ![t].at = "begin"]
  /\ UNCHANGED <<info, clock, stack, offset, offAttrs, timeOffs, durations, firstOffs,
                 record, closed, lines, events, mixed>>

LowerLevel(t) ==
  /\ AtStep(t, "lower") /\ SetLevel(t, step[t].attr, step[t].level - 1)
  /\ step' = [step EXCEPT ![t].at = "end"]
  /\ UNCHANGED <<info, clock, stack, offset, offAttrs, timeOffs, durations, firstOffs,
                 record, closed, lines, events, mixed>>

---------------------------------------------------------------------------

(* timestamp snapshot_cb: exchange time.offset and write the difference ... *)
SnapshotTime(t) ==
  /\ timeOffs' = [timeOffs EXCEPT ![t] = clock]
  /\ firstOffs' = [firstOffs EXCEPT ![t] = IF @ = Unset THEN clock ELSE @]
  /\ durations' = [durations EXCEPT ![t] = IF timeOffs[t] = Unset THEN @ ELSE @ + clock - timeOffs[t]]

(* A defect: the outermost start time is taken.                            *)
PhaseOfOuter(t, evt, key) ==
  IF evt = "begin" \/ ~info \/ (evt = "end" /\ key \notin offAttrs) \/ offset[t][<<key[1], 1>>] = Unset
  THEN Unset ELSE clock - offset[t][<<key[1], 1>>]

(* ... and the phase timers: the time saved for this attribute and level.   *)
PhaseOf(t, evt, key) ==
  IF evt = "begin" \/ ~info \/ (evt = "end" /\ key \notin offAttrs) \/ offset[t][key] = Unset
  THEN Unset ELSE clock - offset[t][key]

SavePhase(t, evt, key) ==
  /\ offAttrs' = IF info /\ evt # "end" THEN offAttrs \cup {key} ELSE offAttrs
  /\ offset' = IF ~info \/ (evt = "end" /\ key \notin offAttrs) THEN offset
               ELSE [offset EXCEPT ![t][key] = IF evt = "end" THEN Unset ELSE clock]

(* TextLogService::process_snapshot: only for end and set, and only if the *)
(* attribute is in the snapshot.                                           *)
Logs(t, evt, a) == info /\ evt \in {"end", "set"} /\ Open(t, a) # <<>>

(* push_snapshot from the callback (event_end_cb returns before it if the   *)
(* level was never set), then the blackboard update of the call.            *)
PushSnapshot(t, evt, a, key, begun) ==
  /\ SnapshotTime(t) /\ SavePhase(t, evt, key)
  /\ record' = [record EXCEPT ![t] =
       [evt |-> evt, attr |-> a, phase |-> PhaseOf(t, evt, key), expected |-> clock - begun]]
  /\ lines' = IF Logs(t, evt, a) THEN [lines EXCEPT ![a] = @ + 1] ELSE lines

EvFinish(t) ==
  LET a == step[t].attr  evt == step[t].at  s == ScopeOf(t, a)  old == stack[s][a] IN
  /\ evt \in {"begin", "end", "set"}
  /\ IF info /\ evt = "end" /\ step[t].level = Unset
       THEN UNCHANGED <<timeOffs, firstOffs, durations, offAttrs, offset, record, lines>>
       ELSE PushSnapshot(t, evt, a, <<a, step[t].level>>, IF old = <<>> THEN clock ELSE old[Len(old)])
  /\ stack' = [stack EXCEPT ![s][a] =
       IF evt = "begin" THEN Append(@, clock)
       ELSE SubSeq(@, 1, Len(@) - 1) \o IF evt = "set" THEN <<clock>> ELSE <<>>]
  /\ closed' = IF evt # "begin" /\ old # <<>> THEN [closed EXCEPT ![a] = @ + 1] ELSE closed
  /\ step' = [step EXCEPT ![t] = NoStep]
  /\ UNCHANGED <<info, clock, level, events, mixed>>

(* Attributes that are not triggers have CALI_ATTR_SKIP_EVENTS: no callback. *)
Silent(t, a) ==
  /\ AtStep(t, "none") /\ a \notin Triggers /\ NewEvent
  /\ \/ stack' = [stack EXCEPT ![ScopeOf(t, a)][a] = Append(@, clock)]
     \/ Open(t, a) # <<>>
        /\ stack' = [stack EXCEPT ![ScopeOf(t, a)][a] = SubSeq(@, 1, Len(@) - 1)]
  /\ UNCHANGED <<info, clock, level, offset, offAttrs, timeOffs, durations, firstOffs,
                 step, record, closed, lines, mixed>>

EvNext ==
  \/ EvTick
  \/ \E t \in EvThreads :
       \/ \E a \in EvAttrs : BeginEvent(t, a) \/ EndEvent(t, a) \/ SetEvent(t, a) \/ Silent(t, a)
       \/ RaiseLevel(t) \/ LowerLevel(t) \/ EvFinish(t)

EvSpec == EvInit /\ [][EvNext]_evVars

---------------------------------------------------------------------------
(* Between calls the level the event service keeps is the nesting depth of  *)
(* the attribute, unless set was used on it or two threads were in the      *)
(* callbacks of a process-scope attribute at once (the exchange and the     *)
(* second update in event_begin_cb and event_end_cb are two steps).         *)
LevelIsDepth ==
  info => \A t \in EvThreads, a \in Triggers \ mixed :
    (\A u \in EvThreads : step[u].attr # a) =>
      Len(Open(t, a)) = IF Level(t, a) = Unset THEN 0 ELSE Level(t, a)

(* The inclusive duration in the snapshot of an end event is the time since *)
(* the matching begin: levels of recursion do not get each other's times.   *)
PhaseTimesMatch ==
  \A t \in EvThreads :
    (info /\ record[t].evt = "end" /\ record[t].attr \in ThreadAttrs \ mixed)
      => record[t].phase = record[t].expected

(* The durations of a thread's snapshots add up to the time between its     *)
(* first and its last snapshot: no time is counted twice or lost.           *)
DurationsTile ==
  \A t \in EvThreads : timeOffs[t] # Unset => durations[t] = timeOffs[t] - firstOffs[t]

(* Every region of a trigger attribute that is ended, and every value that  *)
(* set replaces, is written to the text log exactly once, even when threads *)
(* race on the level of a process-scope attribute.                          *)
LogComplete == info => \A a \in Triggers : lines[a] = closed[a]

(* What the event, timestamp and textlog services make of a sequence of      *)
(* begin, set and end calls is right together: levels, durations, times of   *)
(* regions and the lines of the log.                                         *)
EventsSound == LevelIsDepth /\ DurationsTile /\ PhaseTimesMatch /\ LogComplete
=============================================================================
