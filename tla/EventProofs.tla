----------------------------- MODULE EventProofs -----------------------------
(***************************************************************************)
(* The services that annotation events call: the event, timestamp and      *)
(* textlog services, and the nesting checker (validator), proved for any   *)
(* number of threads and any length of execution.                          *)
(***************************************************************************)
EXTENDS EventServices, Validator, FiniteSetTheorems, WellFoundedInduction, TLAPS

TimeOrUnset == Nat \cup {Unset}
EvKeys == EvAttrs \X Levels

StepRecord == [at : {"none", "begin", "raise", "end", "lower", "set"},
               attr : EvAttrs \cup {"none"}, level : Int]
SnapRecord == [evt : {"none", "begin", "end", "set"}, attr : EvAttrs \cup {"none"},
               phase : Int, expected : Int]

EvTypeOK ==
  /\ info \in BOOLEAN /\ clock \in Nat /\ events \in 0..MaxEvents
  /\ stack \in [EvScopes -> [EvAttrs -> Seq(Nat)]]
  /\ level \in [EvScopes -> [EvAttrs -> Int]]
  /\ offset \in [EvThreads -> [EvKeys -> TimeOrUnset]] /\ offAttrs \subseteq EvKeys
  /\ timeOffs \in [EvThreads -> TimeOrUnset] /\ firstOffs \in [EvThreads -> TimeOrUnset]
  /\ durations \in [EvThreads -> Int]
  /\ step \in [EvThreads -> StepRecord] /\ record \in [EvThreads -> SnapRecord]
  /\ closed \in [EvAttrs -> Nat] /\ lines \in [EvAttrs -> Nat]

(* time.offset is set from the first snapshot on.                          *)
TimeTiled(t) ==
  /\ timeOffs[t] = Unset <=> firstOffs[t] = Unset
  /\ durations[t] = IF timeOffs[t] = Unset THEN 0 ELSE timeOffs[t] - firstOffs[t]

(* A callback in progress is for a trigger, and the level it carries is one *)
(* that the calls made so far can have reached.                             *)
StepSound(t) ==
  /\ step[t].at = "none" <=> step[t].attr = "none"
  /\ step[t].at # "none" => step[t].attr \in Triggers
  /\ step[t].at \in {"begin", "raise", "set"} => step[t].level \in 1..events
  /\ step[t].at \in {"end", "lower"} => step[t].level \in Unset..events
  /\ step[t].at = "lower" => step[t].level > 1
  /\ step[t].at = "set" => step[t].attr \in mixed
  /\ info /\ step[t].at # "none" => Level(t, step[t].attr) # Unset
  /\ info /\ step[t].at = "end" => step[t].level # Unset

LevelSound(s, a) ==
  /\ level[s][a] \in Unset..events
  /\ info /\ a \in Triggers /\ stack[s][a] # <<>> => level[s][a] # Unset

(* The threads in a callback for attribute a of scope s.  As long as a is  *)
(* not mixed there is at most one, and what it still has to do makes the   *)
(* level the depth again.                                                  *)
Within(s, a) == {u \in EvThreads : step[u].attr = a /\ ScopeOf(u, a) = s}
Depth(l) == IF l = Unset THEN 0 ELSE l
MidStep(u, s, a) ==
  LET d == Len(stack[s][a]) IN
  /\ step[u].at \in {"begin", "raise"} => step[u].level = d + 1
  /\ step[u].at = "begin" => level[s][a] = d + 1
  /\ step[u].at \in {"end", "lower"} => step[u].level = d /\ d > 0
  /\ step[u].at = "end" => level[s][a] = d - 1
LevelTracks(s, a) ==
  info /\ a \in Triggers \ mixed =>
    /\ Within(s, a) = {} => Len(stack[s][a]) = Depth(level[s][a])
    /\ \A u \in Within(s, a) : MidStep(u, s, a)
    /\ \A u, v \in Within(s, a) : u = v

(* The time a region of a thread was entered is saved for its level.       *)
TimesSaved(t, a) ==
  info /\ a \in (Triggers \cap ThreadAttrs) \ mixed =>
    \A l \in 1..Len(stack[t][a]) : <<a, l>> \in offAttrs /\ offset[t][<<a, l>>] = stack[t][a][l]

EvInv ==
  /\ EvTypeOK /\ LogComplete /\ PhaseTimesMatch
  /\ \A t \in EvThreads : TimeTiled(t) /\ StepSound(t)
  /\ \A s \in EvScopes, a \in EvAttrs : LevelSound(s, a) /\ LevelTracks(s, a)
  /\ \A t \in EvThreads, a \in EvAttrs : TimesSaved(t, a)

LEMMA EvInitially == EvInit => EvInv
<1> SUFFICES ASSUME EvInit
             PROVE  EvInv
  BY Zenon
<1>1. EvTypeOK
  <2>1. stack \in [EvScopes -> [EvAttrs -> Seq(Nat)]]
    BY DEF EvInit
  <2>2. step \in [EvThreads -> StepRecord] /\ record \in [EvThreads -> SnapRecord]
    BY DEF EvInit, NoStep, NoRecord, StepRecord, SnapRecord, Unset
  <2>3. offset \in [EvThreads -> [EvKeys -> TimeOrUnset]] /\ level \in [EvScopes -> [EvAttrs -> Int]]
    BY DEF EvInit, EvKeys, TimeOrUnset, Unset
  <2>4. QED
    BY <2>1, <2>2, <2>3, EventAssumption DEF EvInit, EvTypeOK, TimeOrUnset, Unset
<1>2. LogComplete /\ PhaseTimesMatch
  BY EventAssumption, Zenon DEF EvInit, LogComplete, PhaseTimesMatch, NoRecord, EvAttrs
<1>3. ASSUME NEW t \in EvThreads
      PROVE  TimeTiled(t) /\ StepSound(t)
  BY DEF EvInit, TimeTiled, StepSound, NoStep, Unset
<1>4. ASSUME NEW s \in EvScopes, NEW a \in EvAttrs
      PROVE  LevelSound(s, a) /\ LevelTracks(s, a)
  <2>1. stack[s][a] = <<>> /\ level[s][a] = Unset /\ events = 0
    BY Zenon DEF EvInit
  <2>2. Within(s, a) = {}
    BY EventAssumption, Zenon DEF EvInit, Within, NoStep, EvAttrs
  <2>3. QED
    BY <2>1, <2>2 DEF LevelSound, LevelTracks, Depth, Unset
<1>5. ASSUME NEW t \in EvThreads, NEW a \in EvAttrs
      PROVE  TimesSaved(t, a)
  <2>1. stack[t][a] = <<>>
    BY Zenon DEF EvInit, EvScopes
  <2>2. QED
    BY <2>1 DEF TimesSaved
<1>6. QED
  BY <1>1, <1>2, <1>3, <1>4, <1>5, Zenon DEF EvInv

LEMMA ScopeIn ==
  ASSUME NEW t \in EvThreads, NEW a
  PROVE  /\ ScopeOf(t, a) \in EvScopes
         /\ a \in ThreadAttrs => ScopeOf(t, a) = t
BY EventAssumption, Zenon DEF ScopeOf, EvScopes

(* Nothing but a snapshot or a change of the blackboard touches these.     *)
LEMMA EvQuiet ==
  ASSUME EvInv, mixed \subseteq mixed',
         UNCHANGED <<info, stack, offset, offAttrs, timeOffs, durations, firstOffs, record, closed, lines>>
  PROVE  /\ LogComplete' /\ PhaseTimesMatch' /\ \A t \in EvThreads : TimeTiled(t)'
         /\ \A t \in EvThreads, a \in EvAttrs : TimesSaved(t, a)'
<1>1. LogComplete' /\ PhaseTimesMatch' /\ \A t \in EvThreads : TimeTiled(t)'
  BY Zenon DEF EvInv, LogComplete, PhaseTimesMatch, TimeTiled
<1>2. \A t \in EvThreads, a \in EvAttrs : TimesSaved(t, a)'
  BY Zenon DEF EvInv, TimesSaved
<1>3. QED
  BY <1>1, <1>2, Zenon

(* What an update of the level changes.                                    *)
LevelAfter(t, a, n) ==
  \A r \in EvScopes, b \in EvAttrs :
    level'[r][b] = IF info /\ r = ScopeOf(t, a) /\ b = a THEN n ELSE level[r][b]

LEMMA LevelUpdate ==
  ASSUME EvTypeOK, NEW t \in EvThreads, NEW a \in EvAttrs, NEW n \in Int, SetLevel(t, a, n)
  PROVE  level' \in [EvScopes -> [EvAttrs -> Int]] /\ LevelAfter(t, a, n)
<1>1. PICK s \in EvScopes : s = ScopeOf(t, a)
  BY ScopeIn, Zenon
<1>2. level' = IF info THEN [level EXCEPT ![s][a] = n] ELSE level
  BY <1>1, Zenon DEF SetLevel
<1>3. QED
  BY <1>1, <1>2, Zenon DEF EvTypeOK, LevelAfter

(* The levels that the calls so far can have reached.                      *)
LEMMA MoreEvents ==
  ASSUME NEW n \in Nat
  PROVE  /\ \A l \in 1..n : l \in 1..(n + 1) /\ l \in Unset..n
         /\ \A l \in Unset..n : l \in Unset..(n + 1)
BY DEF Unset

(* A callback begins: begin, end and set exchange the level first.         *)
LEMMA StartKeeps ==
  ASSUME EvInv, NEW t \in EvThreads, NEW a \in EvAttrs, NEW n \in {0, 1}, NEW c \in StepRecord,
         AtStep(t, "none"), a \in Triggers, NewEvent, SetLevel(t, a, n),
         step' = [step EXCEPT ![t] = c], c.at # "none", c.attr = a,
         c.at \in {"begin", "raise", "set"} => c.level \in 1..(events + 1),
         c.at \in {"end", "lower"} => c.level \in Unset..(events + 1),
         c.at = "lower" => c.level > 1,
         c.at = "set" => a \in mixed',
         info /\ c.at = "end" => c.level # Unset,
         mixed' = mixed \cup {a} \/ mixed' = IF Busy(t, a) /\ a \in ProcAttrs THEN mixed \cup {a} ELSE mixed,
         info /\ a \notin mixed' /\ Len(Open(t, a)) = Depth(Level(t, a)) => MidStep(t, ScopeOf(t, a), a)',
         UNCHANGED <<info, clock, stack, offset, offAttrs, timeOffs, durations, firstOffs,
                     record, closed, lines>>
  PROVE  EvInv'
<1>1. PICK s \in EvScopes : s = ScopeOf(t, a)
  BY ScopeIn, Zenon
<1>2. \A r \in EvScopes, b \in EvAttrs :
        level'[r][b] = IF info /\ r = s /\ b = a THEN n ELSE level[r][b]
  <2>1. LevelAfter(t, a, n)
    <3>1. n \in Int
      OBVIOUS
    <3>2. QED
      BY <3>1, LevelUpdate, Zenon DEF EvInv
  <2>2. QED
    BY <1>1, <2>1, Zenon DEF LevelAfter
<1>3. events \in Nat /\ events' = events + 1 /\ events' \in 0..MaxEvents
  BY EventAssumption DEF EvInv, EvTypeOK, NewEvent
<1>4. mixed \subseteq mixed'
  BY Zenon
<1>5. EvTypeOK'
  <2>1. level' \in [EvScopes -> [EvAttrs -> Int]]
    BY LevelUpdate DEF EvInv
  <2>2. step' \in [EvThreads -> StepRecord]
    BY Zenon DEF EvInv, EvTypeOK
  <2>3. QED
    BY <1>3, <2>1, <2>2, Zenon DEF EvInv, EvTypeOK
<1>6. /\ step'[t] = c /\ \A u \in EvThreads \ {t} : step'[u] = step[u]
      /\ step[t].at = "none" /\ step[t].attr = "none"
  BY Zenon DEF EvInv, EvTypeOK, AtStep, StepSound
<1>7. ASSUME NEW u \in EvThreads
      PROVE  StepSound(u)'
  <2>1. CASE u = t
    <3>1. info => Level(t, a)' # Unset
      BY <1>1, <1>2 DEF Level, Unset
    <3>2. QED
      BY <1>3, <1>6, <2>1, <3>1, EventAssumption, Zenon DEF StepSound, EvAttrs
  <2>2. CASE u # t
    <3>1. step'[u] = step[u] /\ StepSound(u)
      BY <1>6, <2>2, Zenon DEF EvInv
    <3>2. info /\ step[u].at # "none" => Level(u, step[u].attr)' # Unset
      <4>1. ScopeOf(u, step[u].attr) \in EvScopes
        BY ScopeIn, Zenon
      <4>2. step[u].at # "none" => step[u].attr \in EvAttrs
        BY <3>1, EventAssumption, Zenon DEF StepSound, EvAttrs
      <4>3. info /\ step[u].at # "none" => Level(u, step[u].attr) # Unset
        BY <3>1, Zenon DEF StepSound
      <4>4. QED
        BY <1>2, <3>1, <4>1, <4>2, <4>3, SMTT(30) DEF Level, Unset
    <3>3. events \in Nat /\ events' = events + 1
      BY <1>3, Zenon
    <3>4. step[u].level \in Int
      BY Zenon DEF EvInv, EvTypeOK, StepRecord
    <3>5. QED
      BY <1>4, <3>1, <3>2, <3>3, <3>4, SMTT(30) DEF StepSound, Unset
  <2>3. QED
    BY <2>1, <2>2, Zenon
<1>8. ASSUME NEW r \in EvScopes, NEW b \in EvAttrs
      PROVE  LevelSound(r, b)'
  BY <1>2, <1>3, SMTT(30) DEF EvInv, LevelSound, Unset
<1>9. ASSUME NEW r \in EvScopes, NEW b \in EvAttrs
      PROVE  LevelTracks(r, b)'
  <2>1. CASE ~(r = s /\ b = a)
    <3>1. Within(r, b)' = Within(r, b)
      BY <1>1, <1>6, <2>1, EventAssumption, ZenonT(60) DEF Within, EvAttrs, ScopeOf
    <3>2. t \notin Within(r, b)
      BY <1>6, EventAssumption, Zenon DEF Within, EvAttrs
    <3>3. level'[r][b] = level[r][b]
      BY <1>2, <2>1, Zenon
    <3>4. \A u \in Within(r, b) : step'[u] = step[u]
      BY <1>6, <3>2, Zenon DEF Within
    <3>5. LevelTracks(r, b)
      BY Zenon DEF EvInv
    <3>6. QED
      BY <1>4, <3>1, <3>3, <3>4, <3>5, Zenon DEF LevelTracks, MidStep
  <2>2. CASE r = s /\ b = a
    <3> SUFFICES ASSUME info, a \notin mixed'
                 PROVE  /\ Within(s, a)' = {t}
                        /\ MidStep(t, s, a)'
      BY <2>2, Zenon DEF LevelTracks
    <3>1. Within(s, a) = {}
      <4> SUFFICES ASSUME NEW u \in EvThreads, step[u].attr = a, ScopeOf(u, a) = s
                   PROVE  FALSE
        BY Zenon DEF Within
      <4>1. u # t
        BY <1>6, EventAssumption, Zenon DEF EvAttrs
      <4>2. step[u].at # "none"
        BY EventAssumption, Zenon DEF EvInv, StepSound, EvAttrs
      <4>3. Busy(t, a)
        BY <4>1, <4>2, Zenon DEF Busy
      <4>4. a \notin ProcAttrs
        BY <4>3, Zenon
      <4>5. QED
        BY <1>1, <4>1, <4>4, Zenon DEF ScopeOf
    <3>2. Within(s, a)' = {t}
      <4>1. \A u \in EvThreads \ {t} : ~(step'[u].attr = a /\ ScopeOf(u, a) = s)
        BY <1>6, <3>1, Zenon DEF Within
      <4>2. QED
        BY <1>1, <1>6, <4>1, Zenon DEF Within, ScopeOf
    <3>3. Len(stack[s][a]) = Depth(level[s][a])
      BY <1>4, <3>1, Zenon DEF EvInv, LevelTracks
    <3>4. QED
      BY <1>1, <3>2, <3>3, Zenon DEF Open, Level
  <2>3. QED
    BY <2>1, <2>2, Zenon
<1>10. QED
  BY <1>4, <1>5, <1>7, <1>8, <1>9, EvQuiet, Zenon DEF EvInv
LEMMA BeginEventKeeps ==
  ASSUME EvInv, NEW t \in EvThreads, NEW a \in EvAttrs, BeginEvent(t, a)
  PROVE  EvInv'
<1>1. PICK s \in EvScopes : s = ScopeOf(t, a)
  BY ScopeIn, Zenon
<1>2. PICK l \in Unset..events : l = level[s][a]
  BY Zenon DEF EvInv, LevelSound
<1>3. PICK c : c = [at |-> IF l > 0 THEN "raise" ELSE "begin", attr |-> a,
                    level |-> IF l > 0 THEN l + 1 ELSE 1]
  BY Zenon
<1>4. /\ AtStep(t, "none") /\ a \in Triggers /\ NewEvent /\ SetLevel(t, a, 1)
      /\ step' = [step EXCEPT ![t] = c]
      /\ mixed' = IF Busy(t, a) /\ a \in ProcAttrs THEN mixed \cup {a} ELSE mixed
      /\ UNCHANGED <<info, clock, stack, offset, offAttrs, timeOffs, durations, firstOffs,
                     record, closed, lines>>
  BY <1>1, <1>2, <1>3, Zenon DEF BeginEvent, Level
<1>5. events \in Nat /\ l \in Int /\ l >= -1 /\ l <= events
  BY <1>2 DEF EvInv, EvTypeOK, Unset
<1>6. /\ c \in StepRecord /\ c.attr = a /\ c.at \in {"raise", "begin"} /\ c.level \in 1..(events + 1)
      /\ c.at = "begin" <=> ~(l > 0)
      /\ c.level = IF l > 0 THEN l + 1 ELSE 1
  BY <1>3, <1>5 DEF StepRecord
<1>7. ASSUME info, Len(stack[s][a]) = Depth(level[s][a])
      PROVE  MidStep(t, s, a)'
  <2>1. step'[t] = c /\ stack' = stack
    BY <1>4, Zenon DEF EvInv, EvTypeOK
  <2>2. level'[s][a] = 1
    <3>1. 1 \in Int
      OBVIOUS
    <3>2. LevelAfter(t, a, 1)
      BY <1>4, <3>1, LevelUpdate, Zenon DEF EvInv
    <3>3. QED
      BY <1>1, <1>7, <3>2, Zenon DEF LevelAfter
  <2>3. Len(stack[s][a]) = IF l > 0 THEN l ELSE 0
    BY <1>2, <1>5, <1>7 DEF Depth, Unset
  <2>4. QED
    BY <1>5, <1>6, <2>1, <2>2, <2>3 DEF MidStep
<1>8. QED
  BY <1>1, <1>4, <1>6, <1>7, StartKeeps, Zenon DEF Open, Level

LEMMA EndEventKeeps ==
  ASSUME EvInv, NEW t \in EvThreads, NEW a \in EvAttrs, EndEvent(t, a)
  PROVE  EvInv'
<1>1. PICK s \in EvScopes : s = ScopeOf(t, a)
  BY ScopeIn, Zenon
<1>2. PICK l \in Unset..events : l = level[s][a]
  BY Zenon DEF EvInv, LevelSound
<1>3. PICK c : c = [at |-> IF l > 1 THEN "lower" ELSE "end", attr |-> a, level |-> l]
  BY Zenon
<1>4. /\ AtStep(t, "none") /\ a \in Triggers /\ NewEvent /\ SetLevel(t, a, 0) /\ stack[s][a] # <<>>
      /\ step' = [step EXCEPT ![t] = c]
      /\ mixed' = IF Busy(t, a) /\ a \in ProcAttrs THEN mixed \cup {a} ELSE mixed
      /\ UNCHANGED <<info, clock, stack, offset, offAttrs, timeOffs, durations, firstOffs,
                     record, closed, lines>>
  BY <1>1, <1>2, <1>3, Zenon DEF EndEvent, Level, Open
<1>5. events \in Nat /\ l \in Int /\ l >= -1 /\ l <= events
  BY <1>2 DEF EvInv, EvTypeOK, Unset
<1>6. /\ c \in StepRecord /\ c.attr = a /\ c.at \in {"lower", "end"} /\ c.level = l
      /\ c.at = "lower" <=> l > 1
      /\ c.level \in Unset..(events + 1)
  BY <1>3, <1>5 DEF StepRecord, Unset
<1>7. info => l # Unset
  BY <1>2, <1>4, Zenon DEF EvInv, LevelSound
<1>8. ASSUME info, Len(stack[s][a]) = Depth(level[s][a])
      PROVE  MidStep(t, s, a)'
  <2>1. step'[t] = c /\ stack' = stack
    BY <1>4, Zenon DEF EvInv, EvTypeOK
  <2>2. level'[s][a] = 0
    <3>1. 0 \in Int
      OBVIOUS
    <3>2. LevelAfter(t, a, 0)
      BY <1>4, <3>1, LevelUpdate, Zenon DEF EvInv
    <3>3. QED
      BY <1>1, <1>8, <3>2, Zenon DEF LevelAfter
  <2>3. Len(stack[s][a]) = l
    BY <1>2, <1>7, <1>8, Zenon DEF Depth
  <2>4. Len(stack[s][a]) > 0
    BY <1>4 DEF EvInv, EvTypeOK
  <2>5. QED
    BY <1>5, <1>6, <2>1, <2>2, <2>3, <2>4 DEF MidStep
<1>9. QED
  BY <1>1, <1>4, <1>6, <1>7, <1>8, StartKeeps, Zenon DEF Open, Level

LEMMA SetEventKeeps ==
  ASSUME EvInv, NEW t \in EvThreads, NEW a \in EvAttrs, SetEvent(t, a)
  PROVE  EvInv'
<1>1. PICK c : c = [at |-> "set", attr |-> a, level |-> 1]
  BY Zenon
<1>2. c \in StepRecord /\ c.attr = a /\ c.at = "set" /\ c.level \in 1..(events + 1)
  BY <1>1 DEF StepRecord, EvInv, EvTypeOK
<1>3. QED
  BY <1>1, <1>2, StartKeeps, Zenon DEF SetEvent

(* The second update of the level.                                         *)
LEMMA UpdateKeeps ==
  ASSUME EvInv, NEW t \in EvThreads, NEW a, a = step[t].attr, NEW n \in 1..events, NEW c \in StepRecord,
         step[t].at # "none", SetLevel(t, a, n),
         step' = [step EXCEPT ![t] = c], c.at \in {"begin", "end"}, c.attr = a, c.level = step[t].level,
         c.at = "begin" => step[t].at = "raise",
         c.at = "end" => step[t].at = "lower",
         info /\ MidStep(t, ScopeOf(t, a), a) => MidStep(t, ScopeOf(t, a), a)',
         UNCHANGED <<info, clock, stack, offset, offAttrs, timeOffs, durations, firstOffs,
                     record, closed, lines, events, mixed>>
  PROVE  EvInv'
<1>0. a \in EvAttrs /\ a \in Triggers
  BY EventAssumption, Zenon DEF EvInv, StepSound, EvAttrs
<1>1. PICK s \in EvScopes : s = ScopeOf(t, a)
  BY ScopeIn, Zenon
<1>2. events \in Nat /\ n \in Int /\ n # Unset
  BY DEF EvInv, EvTypeOK, Unset
<1>3. \A r \in EvScopes, b \in EvAttrs :
        level'[r][b] = IF info /\ r = s /\ b = a THEN n ELSE level[r][b]
  <2>1. EvTypeOK
    BY Zenon DEF EvInv
  <2>2. LevelAfter(t, a, n)
    BY <1>0, <1>2, <2>1, LevelUpdate, Zenon
  <2>3. QED
    BY <1>1, <2>2, Zenon DEF LevelAfter
<1>4. EvTypeOK'
  <2>1. level' \in [EvScopes -> [EvAttrs -> Int]]
    BY <1>0, <1>2, LevelUpdate, Zenon DEF EvInv
  <2>2. step' \in [EvThreads -> StepRecord]
    BY Zenon DEF EvInv, EvTypeOK
  <2>3. QED
    BY <2>1, <2>2, Zenon DEF EvInv, EvTypeOK
<1>5. step'[t] = c /\ \A u \in EvThreads \ {t} : step'[u] = step[u]
  BY Zenon DEF EvInv, EvTypeOK
<1>6. ASSUME NEW u \in EvThreads
      PROVE  StepSound(u)'
  <2>1. CASE u = t
    <3>1. info => Level(t, a)' # Unset
      BY <1>0, <1>1, <1>2, <1>3, Zenon DEF Level
    <3>2. StepSound(t) /\ step[t].level \in Int
      BY Zenon DEF EvInv, EvTypeOK, StepRecord
    <3>3. QED
      BY <1>0, <1>2, <1>5, <2>1, <3>1, <3>2, EventAssumption, SMTT(30) DEF StepSound, EvAttrs, Unset
  <2>2. CASE u # t
    <3>1. step'[u] = step[u] /\ StepSound(u)
      BY <1>5, <2>2, Zenon DEF EvInv
    <3>2. info /\ step[u].at # "none" => Level(u, step[u].attr)' # Unset
      <4>1. ScopeOf(u, step[u].attr) \in EvScopes
        BY ScopeIn, Zenon
      <4>2. step[u].at # "none" => step[u].attr \in EvAttrs
        BY <3>1, EventAssumption, Zenon DEF StepSound, EvAttrs
      <4>3. info /\ step[u].at # "none" => Level(u, step[u].attr) # Unset
        BY <3>1, Zenon DEF StepSound
      <4>4. QED
        BY <1>2, <1>3, <3>1, <4>1, <4>2, <4>3, ZenonT(60) DEF Level, ScopeOf
    <3>3. QED
      BY <3>1, <3>2, SMTT(30) DEF StepSound
  <2>3. QED
    BY <2>1, <2>2, Zenon
<1>7. ASSUME NEW r \in EvScopes, NEW b \in EvAttrs
      PROVE  LevelSound(r, b)'
  <2>1. LevelSound(r, b) /\ n \in Unset..events
    BY <1>2, MoreEvents, Zenon DEF EvInv
  <2>2. level'[r][b] = IF info /\ r = s /\ b = a THEN n ELSE level[r][b]
    BY <1>3, Zenon
  <2>3. QED
    BY <1>2, <2>1, <2>2, Zenon DEF LevelSound
<1>8. ASSUME NEW r \in EvScopes, NEW b \in EvAttrs
      PROVE  LevelTracks(r, b)'
  <2>1. Within(r, b)' = Within(r, b)
    BY <1>5, ZenonT(60) DEF Within, ScopeOf
  <2>2. LevelTracks(r, b)
    BY Zenon DEF EvInv
  <2>3. CASE ~(r = s /\ b = a)
    <3>1. t \notin Within(r, b)
      BY <1>1, <2>3, Zenon DEF Within
    <3>2. \A u \in Within(r, b) : step'[u] = step[u]
      BY <1>5, <3>1, Zenon DEF Within
    <3>3. level'[r][b] = level[r][b]
      BY <1>3, <2>3, Zenon
    <3>4. QED
      BY <2>1, <2>2, <3>2, <3>3, ZenonT(60) DEF LevelTracks, MidStep
  <2>4. CASE r = s /\ b = a
    <3>1. t \in Within(s, a)
      BY <1>1, Zenon DEF Within
    <3>2. ASSUME info, a \in Triggers \ mixed
          PROVE  MidStep(t, s, a)' /\ \A u, v \in Within(s, a) : u = v
      <4>1. MidStep(t, s, a) /\ \A u, v \in Within(s, a) : u = v
        BY <2>2, <2>4, <3>1, <3>2, Zenon DEF LevelTracks
      <4>2. QED
        BY <1>1, <3>2, <4>1, Zenon
    <3>3. QED
      BY <2>1, <2>4, <3>1, <3>2, Zenon DEF LevelTracks
  <2>5. QED
    BY <2>3, <2>4, Zenon
<1>9. QED
  BY <1>4, <1>6, <1>7, <1>8, EvQuiet, Zenon DEF EvInv

LEMMA RaiseKeeps ==
  ASSUME EvInv, NEW t \in EvThreads, RaiseLevel(t) \/ LowerLevel(t)
  PROVE  EvInv'
<1>1. PICK a : a = step[t].attr
  BY Zenon
<1>2. PICK n : n = IF step[t].at = "raise" THEN step[t].level ELSE step[t].level - 1
  BY Zenon
<1>3. PICK c : c = [step[t] EXCEPT !.at = IF step[t].at = "raise" THEN "begin" ELSE "end"]
  BY Zenon
<1>4. /\ step[t].at \in {"raise", "lower"} /\ SetLevel(t, a, n) /\ step' = [step EXCEPT ![t] = c]
      /\ UNCHANGED <<info, clock, stack, offset, offAttrs, timeOffs, durations, firstOffs,
                     record, closed, lines, events, mixed>>
  BY <1>1, <1>2, <1>3, Zenon DEF RaiseLevel, LowerLevel, AtStep, EvInv, EvTypeOK
<1>5. step[t] \in StepRecord /\ StepSound(t)
  BY Zenon DEF EvInv, EvTypeOK
<1>6. /\ c \in StepRecord /\ c.attr = a /\ c.level = step[t].level
      /\ c.at = IF step[t].at = "raise" THEN "begin" ELSE "end"
  BY <1>1, <1>3, <1>5, Zenon DEF StepRecord
<1>7. n \in 1..events /\ n \in Int
  BY <1>2, <1>4, <1>5, SMTT(60) DEF StepSound, StepRecord, EvInv, EvTypeOK, Unset
<1>8. a \in EvAttrs /\ ScopeOf(t, a) \in EvScopes
  BY <1>1, <1>4, <1>5, ScopeIn, EventAssumption, Zenon DEF StepSound, EvAttrs
<1>9. ASSUME info, MidStep(t, ScopeOf(t, a), a)
      PROVE  MidStep(t, ScopeOf(t, a), a)'
  <2>1. step'[t] = c /\ stack' = stack
    BY <1>4, Zenon DEF EvInv, EvTypeOK
  <2>2. level'[ScopeOf(t, a)][a] = n
    <3>1. LevelAfter(t, a, n)
      BY <1>4, <1>7, <1>8, LevelUpdate, Zenon DEF EvInv
    <3>2. QED
      BY <1>8, <1>9, <3>1, Zenon DEF LevelAfter
  <2>3. QED
    BY <1>2, <1>4, <1>6, <1>9, <2>1, <2>2, Zenon DEF MidStep, ScopeOf
<1>10. QED
  BY <1>1, <1>4, <1>6, <1>7, <1>9, UpdateKeeps, Zenon

LEMMA SilentKeeps ==
  ASSUME EvInv, NEW t \in EvThreads, NEW a \in EvAttrs, Silent(t, a)
  PROVE  EvInv'
<1>1. PICK s \in EvScopes : s = ScopeOf(t, a)
  BY ScopeIn, Zenon
<1>2. stack[s][a] \in Seq(Nat) /\ clock \in Nat
  BY Zenon DEF EvInv, EvTypeOK
<1>3. PICK v \in Seq(Nat) : stack' = [stack EXCEPT ![s][a] = v]
  <2>1. CASE stack' = [stack EXCEPT ![s][a] = Append(stack[s][a], clock)]
    <3>1. Append(stack[s][a], clock) \in Seq(Nat)
      BY <1>2
    <3>2. QED
      BY <2>1, <3>1, Zenon
  <2>2. CASE stack' = [stack EXCEPT ![s][a] = SubSeq(stack[s][a], 1, Len(stack[s][a]) - 1)]
    <3>1. SubSeq(stack[s][a], 1, Len(stack[s][a]) - 1) \in Seq(Nat)
      BY <1>2, SMTT(30)
    <3>2. QED
      BY <2>2, <3>1, Zenon
  <2>3. QED
    BY <1>1, <2>1, <2>2, Zenon DEF Silent, EvInv, EvTypeOK
<1>4. \A r \in EvScopes, b \in EvAttrs : b # a => stack'[r][b] = stack[r][b]
  BY <1>3, Zenon DEF EvInv, EvTypeOK
<1>5. /\ a \notin Triggers /\ events' = events + 1 /\ events' \in 0..MaxEvents /\ events \in Nat
      /\ UNCHANGED <<info, clock, level, offset, offAttrs, timeOffs, durations, firstOffs,
                     step, record, closed, lines, mixed>>
  BY EventAssumption, SMTT(30) DEF Silent, NewEvent, EvInv, EvTypeOK
<1>6. EvTypeOK'
  <2>1. stack' \in [EvScopes -> [EvAttrs -> Seq(Nat)]]
    BY <1>3, Zenon DEF EvInv, EvTypeOK
  <2>2. QED
    BY <1>5, <2>1, Zenon DEF EvInv, EvTypeOK
<1>7. LogComplete' /\ PhaseTimesMatch' /\ \A u \in EvThreads : TimeTiled(u)'
  BY <1>5, Zenon DEF EvInv, LogComplete, PhaseTimesMatch, TimeTiled
<1>8. ASSUME NEW u \in EvThreads
      PROVE  StepSound(u)'
  <2>1. StepSound(u) /\ step[u].level \in Int
    BY Zenon DEF EvInv, EvTypeOK, StepRecord
  <2>2. QED
    BY <1>5, <2>1, MoreEvents, Zenon DEF StepSound, Level, ScopeOf
<1>9. ASSUME NEW r \in EvScopes, NEW b \in EvAttrs
      PROVE  LevelSound(r, b)' /\ LevelTracks(r, b)'
  <2>1. LevelSound(r, b) /\ LevelTracks(r, b)
    BY Zenon DEF EvInv
  <2>2. LevelSound(r, b)'
    BY <1>4, <1>5, <2>1, MoreEvents, Zenon DEF LevelSound
  <2>3. Within(r, b)' = Within(r, b)
    BY <1>5, Zenon DEF Within, ScopeOf
  <2>4. QED
    BY <1>4, <1>5, <2>1, <2>2, <2>3, Zenon DEF LevelTracks, MidStep
<1>10. ASSUME NEW u \in EvThreads, NEW b \in EvAttrs
       PROVE  TimesSaved(u, b)'
  <2>1. u \in EvScopes
    BY Zenon DEF EvScopes
  <2>2. TimesSaved(u, b) /\ (b # a => stack'[u][b] = stack[u][b])
    BY <1>4, <2>1, Zenon DEF EvInv
  <2>3. QED
    BY <1>5, <2>2, Zenon DEF TimesSaved
<1>11. QED
  BY <1>6, <1>7, <1>8, <1>9, <1>10, Zenon DEF EvInv

(* The callback of t is about attribute a, whose values are old.           *)
CallbackOf(t, a, evt, l, s, old, begun) ==
  /\ a = step[t].attr /\ evt = step[t].at /\ l = step[t].level
  /\ s = ScopeOf(t, a) /\ old = stack[s][a]
  /\ begun = IF old = <<>> THEN clock ELSE old[Len(old)]

(* What the snapshot at the end of a callback and the call itself change.  *)
LEMMA FinishEffect ==
  ASSUME EvInv, NEW t \in EvThreads, EvFinish(t),
         NEW a, NEW evt, NEW l, NEW s, NEW old, NEW begun,
         CallbackOf(t, a, evt, l, s, old, begun)
  PROVE  /\ a \in EvAttrs /\ a \in Triggers /\ s \in EvScopes /\ old \in Seq(Nat)
         /\ evt \in {"begin", "end", "set"} /\ l \in Int
         /\ info => l \in 0..events /\ <<a, l>> \in EvKeys /\ level[s][a] # Unset
         /\ PushSnapshot(t, evt, a, <<a, l>>, begun) /\ begun \in Nat
         /\ step' = [step EXCEPT ![t] = NoStep]
         /\ closed' = IF evt # "begin" /\ old # <<>> THEN [closed EXCEPT ![a] = @ + 1] ELSE closed
         /\ UNCHANGED <<info, clock, level, events, mixed>>
<1>0. /\ a = step[t].attr /\ evt = step[t].at /\ l = step[t].level
      /\ s = ScopeOf(t, a) /\ old = stack[s][a]
      /\ begun = IF old = <<>> THEN clock ELSE old[Len(old)]
  BY Zenon DEF CallbackOf
<1>1. evt \in {"begin", "end", "set"} /\ l \in Int /\ StepSound(t)
  BY <1>0, Zenon DEF EvFinish, EvInv, EvTypeOK, StepRecord
<1>2. a \in EvAttrs /\ a \in Triggers /\ s \in EvScopes
  BY <1>0, <1>1, ScopeIn, EventAssumption, Zenon DEF StepSound, EvAttrs
<1>3. old \in Seq(Nat) /\ events \in 0..MaxEvents /\ clock \in Nat
  BY <1>0, <1>2, Zenon DEF EvInv, EvTypeOK
<1>4. info => l \in 0..events /\ level[s][a] # Unset
  <2>1. (evt \in {"begin", "set"} => l \in 1..events) /\ (evt = "end" => l \in Unset..events)
    BY <1>0, <1>1, Zenon DEF StepSound
  <2>2. info => (evt = "end" => l # Unset) /\ Level(t, a) # Unset
    BY <1>0, <1>1, Zenon DEF StepSound
  <2>3. l \in 1..events \/ (l \in Unset..events /\ l # Unset) => l \in 0..events
    BY ONLY <1>3 DEF Unset
  <2>4. Level(t, a) = level[s][a]
    BY <1>0, Zenon DEF Level
  <2>5. QED
    BY <1>1, <2>1, <2>2, <2>3, <2>4, Zenon
<1>5. info => <<a, l>> \in EvKeys
  BY <1>2, <1>3, <1>4, EventAssumption DEF EvKeys, Levels
<1>6. PushSnapshot(t, evt, a, <<a, l>>, begun)
  <2>1. ~(info /\ evt = "end" /\ l = Unset)
    BY <1>0, <1>1, Zenon DEF StepSound
  <2>2. QED
    BY <1>0, <2>1, Zenon DEF EvFinish
<1>7. begun \in Nat
  <2>1. old # <<>> => old[Len(old)] \in Nat
    BY ONLY <1>3
  <2>2. QED
    BY <1>0, <1>3, <2>1, Zenon
<1>8. QED
  BY <1>0, <1>1, <1>2, <1>3, <1>4, <1>5, <1>6, <1>7, Zenon DEF EvFinish

(* The values of the attribute after a callback for evt at time now.       *)
Restacked(v, old, evt, now) ==
  /\ evt = "begin" => Len(v) = Len(old) + 1 /\ v[Len(old) + 1] = now
  /\ evt = "begin" => \A i \in 1..Len(old) : v[i] = old[i]
  /\ evt = "end" /\ Len(old) > 0 => Len(v) = Len(old) - 1
  /\ evt = "end" => \A i \in 1..Len(v) : v[i] = old[i]

LEMMA Restack ==
  ASSUME NEW old \in Seq(Nat), NEW now \in Nat, NEW evt \in {"begin", "end", "set"}, NEW v,
         v = IF evt = "begin" THEN Append(old, now)
             ELSE SubSeq(old, 1, Len(old) - 1) \o IF evt = "set" THEN <<now>> ELSE <<>>
  PROVE  v \in Seq(Nat) /\ Restacked(v, old, evt, now)
<1>1. CASE evt = "begin"
  <2>1. v = Append(old, now)
    BY <1>1, Zenon
  <2>2. QED
    BY <1>1, <2>1 DEF Restacked
<1>2. PICK r : r = SubSeq(old, 1, Len(old) - 1)
  BY Zenon
<1>3. /\ r \in Seq(Nat) /\ (Len(old) > 0 => Len(r) = Len(old) - 1)
      /\ \A i \in 1..Len(r) : r[i] = old[i]
  BY <1>2
<1>4. CASE evt = "end"
  <2>1. v = r \o <<>>
    BY <1>2, <1>4, Zenon
  <2>2. v = r
    BY ONLY <1>3, <2>1
  <2>3. v \in Seq(Nat) /\ (Len(old) > 0 => Len(v) = Len(old) - 1) /\ \A i \in 1..Len(v) : v[i] = old[i]
    BY ONLY <1>3, <2>2, Zenon
  <2>4. QED
    BY ONLY <1>4, <2>3, Zenon DEF Restacked
<1>5. CASE evt = "set"
  <2>1. v = r \o <<now>>
    BY <1>2, <1>5, Zenon
  <2>2. v \in Seq(Nat)
    BY <1>3, <2>1, SMTT(30)
  <2>3. QED
    BY <1>5, <2>2, Zenon DEF Restacked
<1>6. QED
  BY <1>1, <1>4, <1>5, Zenon

LEMMA FinishKeeps ==
  ASSUME EvInv, NEW t \in EvThreads, EvFinish(t)
  PROVE  EvInv'
<1>1. PICK a, evt, l : a = step[t].attr /\ evt = step[t].at /\ l = step[t].level
  BY Zenon
<1>2. PICK s, old : s = ScopeOf(t, a) /\ old = stack[s][a]
  BY Zenon
<1>3. PICK begun : begun = IF old = <<>> THEN clock ELSE old[Len(old)]
  BY Zenon
<1>4. /\ a \in EvAttrs /\ a \in Triggers /\ s \in EvScopes /\ old \in Seq(Nat)
      /\ evt \in {"begin", "end", "set"} /\ l \in Int
      /\ info => l \in 0..events /\ <<a, l>> \in EvKeys /\ level[s][a] # Unset
      /\ PushSnapshot(t, evt, a, <<a, l>>, begun) /\ begun \in Nat
      /\ step' = [step EXCEPT ![t] = NoStep]
      /\ closed' = IF evt # "begin" /\ old # <<>> THEN [closed EXCEPT ![a] = @ + 1] ELSE closed
      /\ UNCHANGED <<info, clock, level, events, mixed>>
  <2>1. CallbackOf(t, a, evt, l, s, old, begun)
    BY <1>1, <1>2, <1>3, Zenon DEF CallbackOf
  <2>2. QED
    BY <2>1, FinishEffect, Zenon
<1>5. PICK v \in Seq(Nat) : stack' = [stack EXCEPT ![s][a] = v] /\ Restacked(v, old, evt, clock)
  <2>1. PICK v : v = IF evt = "begin" THEN Append(old, clock)
                     ELSE SubSeq(old, 1, Len(old) - 1) \o IF evt = "set" THEN <<clock>> ELSE <<>>
    BY Zenon
  <2>2. clock \in Nat
    BY Zenon DEF EvInv, EvTypeOK
  <2>3. v \in Seq(Nat) /\ Restacked(v, old, evt, clock)
    BY <1>4, <2>1, <2>2, Restack, Zenon
  <2>4. stack' = [stack EXCEPT ![s][a] = v]
    BY <1>1, <1>2, <2>1, Zenon DEF EvFinish
  <2>5. QED
    BY <2>3, <2>4, Zenon
<1>6. \A r \in EvScopes, b \in EvAttrs :
        stack'[r][b] = IF r = s /\ b = a THEN v ELSE stack[r][b]
  BY <1>4, <1>5, Zenon DEF EvInv, EvTypeOK
<1>7. step'[t] = NoStep /\ \A u \in EvThreads \ {t} : step'[u] = step[u]
  BY <1>4, Zenon DEF EvInv, EvTypeOK
<1>8. /\ \A u \in EvThreads \ {t} : offset'[u] = offset[u] /\ record'[u] = record[u]
      /\ \A k \in EvKeys : k # <<a, l>> => offset'[t][k] = offset[t][k]
      /\ offAttrs \subseteq offAttrs'
      /\ offset' \in [EvThreads -> [EvKeys -> TimeOrUnset]]
  <2>1. /\ offset \in [EvThreads -> [EvKeys -> TimeOrUnset]] /\ record \in [EvThreads -> SnapRecord]
        /\ clock \in TimeOrUnset /\ Unset \in TimeOrUnset
    BY Zenon DEF EvInv, EvTypeOK, TimeOrUnset
  <2>2. CASE offset' = offset
    BY <1>4, <2>1, <2>2, Zenon DEF PushSnapshot, SavePhase
  <2>3. CASE info /\ offset' = [offset EXCEPT ![t][<<a, l>>] = IF evt = "end" THEN Unset ELSE clock]
    <3>1. PICK key \in EvKeys : key = <<a, l>>
      BY <1>4, <2>3, Zenon
    <3>2. offset' = [offset EXCEPT ![t][key] = IF evt = "end" THEN Unset ELSE clock]
      BY <2>3, <3>1, Zenon
    <3>3. offset' \in [EvThreads -> [EvKeys -> TimeOrUnset]]
      BY <2>1, <3>1, <3>2, Zenon
    <3>4. /\ \A u \in EvThreads \ {t} : offset'[u] = offset[u]
          /\ \A k \in EvKeys : k # key => offset'[t][k] = offset[t][k]
      BY <2>1, <3>1, <3>2, Zenon
    <3>5. offAttrs \subseteq offAttrs' /\ \A u \in EvThreads \ {t} : record'[u] = record[u]
      BY <1>4, <2>1, Zenon DEF PushSnapshot, SavePhase
    <3>6. QED
      BY <3>1, <3>3, <3>4, <3>5, Zenon
  <2>4. QED
    BY <1>4, <2>2, <2>3, Zenon DEF PushSnapshot, SavePhase
<1>9. EvTypeOK'
  <2>1. stack' \in [EvScopes -> [EvAttrs -> Seq(Nat)]]
    BY <1>5, Zenon DEF EvInv, EvTypeOK
  <2>2. step' \in [EvThreads -> StepRecord]
    BY <1>4 DEF EvInv, EvTypeOK, NoStep, StepRecord
  <2>3. record' \in [EvThreads -> SnapRecord]
    <3>1. PhaseOf(t, evt, <<a, l>>) \in Int
      <4>1. info => offset[t][<<a, l>>] \in Int
        BY <1>4 DEF EvInv, EvTypeOK, TimeOrUnset, Unset
      <4>2. clock \in Int /\ Unset \in Int
        BY DEF EvInv, EvTypeOK, Unset
      <4>3. QED
        BY <4>1, <4>2 DEF PhaseOf
    <3>2. clock - begun \in Int
      BY <1>4 DEF EvInv, EvTypeOK
    <3>3. [evt |-> evt, attr |-> a, phase |-> PhaseOf(t, evt, <<a, l>>), expected |-> clock - begun] \in SnapRecord
      BY <1>4, <3>1, <3>2, Zenon DEF SnapRecord
    <3>4. QED
      BY <1>4, <3>3, Zenon DEF EvInv, EvTypeOK, PushSnapshot
  <2>4. /\ timeOffs' \in [EvThreads -> TimeOrUnset] /\ firstOffs' \in [EvThreads -> TimeOrUnset]
        /\ durations' \in [EvThreads -> Int]
    <3>1. timeOffs[t] \in Int /\ clock \in Int /\ clock \in TimeOrUnset
      BY DEF EvInv, EvTypeOK, TimeOrUnset, Unset
    <3>2. SnapshotTime(t)
      BY <1>4, Zenon DEF PushSnapshot
    <3>3. timeOffs' \in [EvThreads -> TimeOrUnset]
      BY <3>1, <3>2, Zenon DEF EvInv, EvTypeOK, SnapshotTime
    <3>4. firstOffs' \in [EvThreads -> TimeOrUnset]
      BY <3>1, <3>2, Zenon DEF EvInv, EvTypeOK, SnapshotTime
    <3>5. durations' \in [EvThreads -> Int]
      BY <3>1, <3>2 DEF EvInv, EvTypeOK, SnapshotTime
    <3>6. QED
      BY <3>3, <3>4, <3>5, Zenon
  <2>5. closed' \in [EvAttrs -> Nat] /\ lines' \in [EvAttrs -> Nat]
    <3>1. lines' = lines \/ lines' = [lines EXCEPT ![a] = @ + 1]
      BY <1>4, Zenon DEF PushSnapshot
    <3>2. closed' = closed \/ closed' = [closed EXCEPT ![a] = @ + 1]
      BY <1>4, Zenon
    <3>3. closed \in [EvAttrs -> Nat] /\ lines \in [EvAttrs -> Nat]
      BY Zenon DEF EvInv, EvTypeOK
    <3>4. \A k \in Nat : k + 1 \in Nat
      OBVIOUS
    <3>5. closed' \in [EvAttrs -> Nat]
      BY <1>4, <3>2, <3>3, <3>4, Zenon
    <3>6. lines' \in [EvAttrs -> Nat]
      BY <1>4, <3>1, <3>3, <3>4, Zenon
    <3>7. QED
      BY <3>5, <3>6, Zenon
  <2>6. offAttrs' \subseteq EvKeys
    BY <1>4, Zenon DEF EvInv, EvTypeOK, PushSnapshot, SavePhase
  <2>7. QED
    BY <1>4, <1>8, <2>1, <2>2, <2>3, <2>4, <2>5, <2>6, Zenon DEF EvInv, EvTypeOK
<1>10. LogComplete'
  <2> SUFFICES ASSUME info
               PROVE  \A b \in Triggers : lines'[b] = closed'[b]
    BY <1>4, Zenon DEF LogComplete
  <2>1. Logs(t, evt, a) <=> evt # "begin" /\ old # <<>>
    BY <1>2, <1>4, Zenon DEF Logs, Open
  <2>2. Triggers \subseteq EvAttrs
    BY EventAssumption, Zenon DEF EvAttrs
  <2>3. lines' = IF evt # "begin" /\ old # <<>> THEN [lines EXCEPT ![a] = @ + 1] ELSE lines
    BY <1>4, <2>1, Zenon DEF PushSnapshot
  <2>4. QED
    BY <1>4, <2>2, <2>3, Zenon DEF EvInv, EvTypeOK, LogComplete
<1>11. ASSUME NEW u \in EvThreads
       PROVE  TimeTiled(u)'
  <2>1. /\ timeOffs[u] \in Int /\ firstOffs[u] \in Int /\ durations[u] \in Int /\ clock \in Nat
        /\ TimeTiled(u)
    BY DEF EvInv, EvTypeOK, TimeOrUnset, Unset
  <2>2. u # t => timeOffs'[u] = timeOffs[u] /\ firstOffs'[u] = firstOffs[u] /\ durations'[u] = durations[u]
    BY <1>4, Zenon DEF EvInv, EvTypeOK, PushSnapshot, SnapshotTime
  <2>3. u = t => /\ timeOffs'[u] = clock /\ firstOffs'[u] = IF firstOffs[u] = Unset THEN clock ELSE firstOffs[u]
                 /\ durations'[u] = IF timeOffs[u] = Unset THEN durations[u] ELSE durations[u] + clock - timeOffs[u]
    BY <1>4, Zenon DEF EvInv, EvTypeOK, PushSnapshot, SnapshotTime
  <2>4. QED
    BY <2>1, <2>2, <2>3, SMTT(60) DEF TimeTiled, Unset
<1>12. ASSUME NEW u \in EvThreads
       PROVE  StepSound(u)'
  <2>1. CASE u = t
    BY <1>7, <2>1, SMTT(60) DEF StepSound, NoStep
  <2>2. CASE u # t
    <3>1. step'[u] = step[u] /\ StepSound(u)
      BY <1>7, <2>2, Zenon DEF EvInv
    <3>2. UNCHANGED <<info, level, events, mixed>>
      BY <1>4, Zenon
    <3>3. QED
      BY <3>1, <3>2, ZenonT(60) DEF StepSound, Level, ScopeOf
  <2>3. QED
    BY <2>1, <2>2, Zenon
<1>13. ASSUME NEW r \in EvScopes, NEW b \in EvAttrs
       PROVE  LevelSound(r, b)'
  BY <1>4, <1>6, ZenonT(60) DEF EvInv, LevelSound
<1>14. info /\ a \notin mixed => /\ MidStep(t, s, a) /\ evt \in {"begin", "end"} /\ Within(s, a) = {t}
  <2>1. t \in Within(s, a)
    BY <1>1, <1>2, Zenon DEF Within
  <2>2. StepSound(t)
    BY Zenon DEF EvInv
  <2>3. info /\ a \notin mixed => MidStep(t, s, a) /\ \A u \in Within(s, a) : u = t
    BY <1>4, <2>1, Zenon DEF EvInv, LevelTracks
  <2>4. QED
    BY <1>1, <1>4, <2>1, <2>2, <2>3, Zenon DEF StepSound
<1>15. ASSUME NEW r \in EvScopes, NEW b \in EvAttrs
       PROVE  LevelTracks(r, b)'
  <2>1. CASE ~(r = s /\ b = a)
    <3>1. t \notin Within(r, b)
      BY <1>1, <1>2, <2>1, Zenon DEF Within
    <3>2. Within(r, b)' = Within(r, b)
      BY <1>7, <3>1, EventAssumption, SMTT(30) DEF Within, ScopeOf, NoStep, EvAttrs
    <3>3. \A u \in Within(r, b) : step'[u] = step[u]
      BY <1>7, <3>1, Zenon DEF Within
    <3>4. stack'[r][b] = stack[r][b]
      BY <1>6, <2>1, Zenon
    <3>5. LevelTracks(r, b) /\ UNCHANGED <<info, level, mixed>>
      BY <1>4, Zenon DEF EvInv
    <3>6. QED
      BY <3>2, <3>3, <3>4, <3>5, Zenon DEF LevelTracks, MidStep
  <2>2. CASE r = s /\ b = a
    <3> SUFFICES ASSUME info, a \notin mixed
                 PROVE  Within(s, a)' = {} /\ Len(v) = Depth(level[s][a])
      BY <1>4, <1>6, <2>2, Zenon DEF LevelTracks
    <3>1. Within(s, a)' = {}
      BY <1>7, <1>14, <1>4, EventAssumption, SMTT(60) DEF Within, ScopeOf, NoStep, EvAttrs
    <3>2. MidStep(t, s, a) /\ evt \in {"begin", "end"}
      BY <1>14, Zenon
    <3>3. Len(old) \in Nat
      BY <1>4
    <3>4. Len(v) = level[s][a] /\ level[s][a] # Unset
      <4>1. \/ Len(v) = Len(old) + 1 /\ level[s][a] = Len(old) + 1
            \/ Len(v) = Len(old) - 1 /\ level[s][a] = Len(old) - 1 /\ Len(old) > 0
        BY <1>1, <1>2, <1>5, <3>2, Zenon DEF MidStep, Restacked
      <4>2. QED
        BY ONLY <3>3, <4>1 DEF Unset
    <3>5. QED
      BY <3>1, <3>4, Zenon DEF Depth
  <2>3. QED
    BY <2>1, <2>2, Zenon
<1>16. PhaseTimesMatch'
  <2> SUFFICES ASSUME NEW u \in EvThreads, info, record'[u].evt = "end",
                      record'[u].attr \in ThreadAttrs \ mixed
               PROVE  record'[u].phase = record'[u].expected
    BY <1>4, Zenon DEF PhaseTimesMatch
  <2>1. CASE u # t
    BY <1>8, <2>1, Zenon DEF EvInv, PhaseTimesMatch
  <2>2. CASE u = t
    <3>1. record'[t] = [evt |-> evt, attr |-> a, phase |-> PhaseOf(t, evt, <<a, l>>), expected |-> clock - begun]
      BY <1>4, Zenon DEF EvInv, EvTypeOK, PushSnapshot
    <3>2. evt = "end" /\ a \in ThreadAttrs /\ a \notin mixed
      BY <2>2, <3>1, SMTT(60)
    <3>3. s = t
      BY <1>2, <3>2, ScopeIn, Zenon
    <3>4. l = Len(old) /\ l > 0 /\ l \in 1..Len(stack[t][a])
      <4>1. l = Len(old) /\ Len(old) > 0 /\ old = stack[t][a]
        BY <1>1, <1>2, <1>14, <3>2, <3>3, Zenon DEF MidStep
      <4>2. PICK d \in Nat : d = Len(old)
        BY ONLY <1>4
      <4>3. d > 0 => d \in 1..d
        OBVIOUS
      <4>4. QED
        BY <4>1, <4>2, <4>3, Zenon
    <3>5. <<a, l>> \in offAttrs /\ offset[t][<<a, l>>] = old[l]
      <4>1. TimesSaved(t, a)
        BY <1>4, Zenon DEF EvInv
      <4>2. QED
        BY <1>2, <1>4, <3>2, <3>3, <3>4, <4>1, Zenon DEF TimesSaved
    <3>6. begun = old[l] /\ begun \in Nat
      <4>1. ~(0 > 0) /\ Len(<<>>) = 0
        OBVIOUS
      <4>2. old # <<>>
        BY <3>4, <4>1, Zenon
      <4>3. QED
        BY <1>3, <1>4, <3>4, <4>2, Zenon
    <3>7. PhaseOf(t, evt, <<a, l>>) = clock - begun
      BY <3>2, <3>5, <3>6, SMTT(60) DEF PhaseOf, Unset
    <3>8. QED
      BY <2>2, <3>1, <3>7, SMTT(60)
  <2>3. QED
    BY <2>1, <2>2, Zenon
<1>17. ASSUME NEW u \in EvThreads, NEW b \in EvAttrs
       PROVE  TimesSaved(u, b)'
  <2> SUFFICES ASSUME info, b \in (Triggers \cap ThreadAttrs) \ mixed, NEW k \in 1..Len(stack'[u][b])
               PROVE  <<b, k>> \in offAttrs' /\ offset'[u][<<b, k>>] = stack'[u][b][k]
    BY <1>4, Zenon DEF TimesSaved
  <2>0. u \in EvScopes /\ TimesSaved(u, b) /\ t \in EvScopes
    BY Zenon DEF EvInv, EvScopes
  <2>1. CASE u # t \/ b # a
    <3>1. stack'[u][b] = stack[u][b]
      <4>1. b = a => s = t
        BY <1>2, ScopeIn, Zenon
      <4>2. QED
        BY <1>6, <2>0, <2>1, <4>1, Zenon
    <3>2. <<b, k>> \in offAttrs /\ offset[u][<<b, k>>] = stack[u][b][k]
      BY <2>0, <3>1, Zenon DEF TimesSaved
    <3>3. offset'[u][<<b, k>>] = offset[u][<<b, k>>]
      <4>1. CASE u # t
        BY <1>8, <4>1, Zenon
      <4>2. CASE u = t /\ b # a
        <5>1. <<b, k>> # <<a, l>>
          BY <4>2, Zenon
        <5>2. <<b, k>> \in EvKeys
          BY <3>2, Zenon DEF EvInv, EvTypeOK
        <5>3. QED
          BY <1>8, <4>2, <5>1, <5>2, Zenon
      <4>3. QED
        BY <2>1, <4>1, <4>2, Zenon
    <3>4. QED
      BY <1>8, <3>1, <3>2, <3>3, Zenon
  <2>2. CASE u = t /\ b = a
    <3>1. s = t
      BY <1>2, <2>2, ScopeIn, Zenon
    <3>2. stack'[t][a] = v /\ MidStep(t, t, a) /\ evt \in {"begin", "end"} /\ TimesSaved(t, a)
      BY <1>4, <1>6, <1>14, <2>0, <2>2, <3>1, Zenon
    <3>3. Len(old) \in Nat /\ old = stack[t][a]
      BY <1>2, <1>4, <3>1, SMTT(60)
    <3>4. CASE evt = "begin"
      <4>1. l = Len(old) + 1 /\ Len(v) = Len(old) + 1
        BY <1>1, <1>5, <3>2, <3>3, <3>4, Zenon DEF MidStep, Restacked
      <4>2. CASE k = l
        <5>1. offAttrs' = offAttrs \cup {<<a, l>>} /\ offset' = [offset EXCEPT ![t][<<a, l>>] = clock]
          BY <1>4, <3>4, Zenon DEF PushSnapshot, SavePhase
        <5>2. offset'[t][<<a, l>>] = clock
          BY <1>4, <5>1, Zenon DEF EvInv, EvTypeOK
        <5>3. v[k] = clock
          BY <1>5, <3>4, <4>1, <4>2, Zenon DEF Restacked
        <5>4. QED
          BY <2>2, <3>2, <4>2, <5>1, <5>2, <5>3, Zenon
      <4>3. CASE k # l
        <5>1. k \in 1..Len(old)
          BY <2>2, <3>2, <3>3, <4>1, <4>3, SMTT(60)
        <5>2. <<a, k>> \in offAttrs /\ offset[t][<<a, k>>] = old[k]
          BY <2>2, <3>2, <3>3, <5>1, Zenon DEF TimesSaved
        <5>3. <<a, k>> \in EvKeys /\ <<a, k>> # <<a, l>>
          BY <4>3, <5>2, Zenon DEF EvInv, EvTypeOK
        <5>4. v[k] = old[k]
          BY <1>5, <3>4, <5>1, Zenon DEF Restacked
        <5>5. QED
          BY <1>8, <2>2, <3>2, <5>2, <5>3, <5>4, Zenon
      <4>4. QED
        BY <4>2, <4>3, Zenon
    <3>5. CASE evt = "end"
      <4>1. l = Len(old) /\ Len(v) = Len(old) - 1 /\ l \in Nat
        BY <1>1, <1>5, <3>2, <3>3, <3>5, Zenon DEF MidStep, Restacked
      <4>2. k \in 1..Len(old) /\ k # l
        BY <2>2, <3>2, <3>3, <4>1, SMTT(60)
      <4>3. <<a, k>> \in offAttrs /\ offset[t][<<a, k>>] = old[k]
        BY <2>2, <3>2, <3>3, <4>2, Zenon DEF TimesSaved
      <4>4. <<a, k>> \in EvKeys /\ <<a, k>> # <<a, l>>
        BY <4>2, <4>3, Zenon DEF EvInv, EvTypeOK
      <4>5. v[k] = old[k]
        BY <1>5, <2>2, <3>2, <3>5, Zenon DEF Restacked
      <4>6. QED
        BY <1>8, <2>2, <3>2, <4>3, <4>4, <4>5, Zenon
    <3>6. QED
      BY <3>2, <3>4, <3>5, Zenon
  <2>3. QED
    BY <2>1, <2>2, Zenon
<1>18. QED
  BY <1>9, <1>10, <1>11, <1>12, <1>13, <1>15, <1>16, <1>17, Zenon DEF EvInv

LEMMA EvInductive == EvInv /\ [EvNext]_evVars => EvInv'
<1> SUFFICES ASSUME EvInv, [EvNext]_evVars
             PROVE  EvInv'
  BY Zenon
<1>1. CASE EvTick \/ UNCHANGED evVars
  <2>1. /\ UNCHANGED <<info, stack, level, offset, offAttrs, timeOffs, durations, firstOffs,
                       step, record, closed, lines, events, mixed>>
        /\ clock' \in Nat
    BY <1>1, SMTT(60) DEF EvTick, evVars, EvInv, EvTypeOK
  <2>2. EvTypeOK'
    BY <2>1, Zenon DEF EvInv, EvTypeOK
  <2>3. \A t \in EvThreads : StepSound(t)'
    BY <2>1, Zenon DEF EvInv, StepSound, Level, ScopeOf
  <2>4. \A s \in EvScopes, a \in EvAttrs : LevelSound(s, a)' /\ LevelTracks(s, a)'
    <3> SUFFICES ASSUME NEW s \in EvScopes, NEW a \in EvAttrs
                 PROVE  LevelSound(s, a)' /\ LevelTracks(s, a)'
      BY Zenon
    <3>1. LevelSound(s, a) /\ LevelTracks(s, a)
      BY Zenon DEF EvInv
    <3>2. LevelSound(s, a)'
      BY <2>1, <3>1, Zenon DEF LevelSound
    <3>3. Within(s, a)' = Within(s, a)
      BY <2>1, Zenon DEF Within, ScopeOf
    <3>4. LevelTracks(s, a)'
      BY <2>1, <3>1, <3>3, Zenon DEF LevelTracks, MidStep
    <3>5. QED
      BY <3>2, <3>4, Zenon
  <2>5. QED
    BY <2>1, <2>2, <2>3, <2>4, EvQuiet, Zenon DEF EvInv
<1>2. ASSUME NEW t \in EvThreads, NEW a \in EvAttrs,
             BeginEvent(t, a) \/ EndEvent(t, a) \/ SetEvent(t, a) \/ Silent(t, a)
      PROVE  EvInv'
  BY <1>2, BeginEventKeeps, EndEventKeeps, SetEventKeeps, SilentKeeps, Zenon
<1>3. ASSUME NEW t \in EvThreads, RaiseLevel(t) \/ LowerLevel(t) \/ EvFinish(t)
      PROVE  EvInv'
  BY <1>3, RaiseKeeps, FinishKeeps, Zenon
<1>4. QED
  BY <1>1, <1>2, <1>3, Zenon DEF EvNext

(* For any number of threads, attributes and calls, with the clock running *)
(* between any two steps: the level the event service keeps is the nesting *)
(* depth, the durations of the timestamp service tile the time of a thread *)
(* and belong to the region that ends, and the text log has one line for   *)
(* each region that ends (Event.cpp event_begin_cb and event_end_cb,       *)
(* Timestamp.cpp snapshot_cb, TextLog.cpp process_snapshot).               *)
THEOREM EventsAlwaysSound == EvSpec => []EventsSound
<1>1. EvInv => EventsSound
  <2> SUFFICES ASSUME EvInv
               PROVE  EventsSound
    BY Zenon
  <2>1. LevelIsDepth
    <3> SUFFICES ASSUME info, NEW t \in EvThreads, NEW a \in Triggers \ mixed,
                        \A u \in EvThreads : step[u].attr # a
                 PROVE  Len(Open(t, a)) = Depth(Level(t, a))
      BY Zenon DEF LevelIsDepth, Depth
    <3>1. ScopeOf(t, a) \in EvScopes /\ a \in EvAttrs
      BY ScopeIn, EventAssumption, Zenon DEF EvAttrs
    <3>2. Within(ScopeOf(t, a), a) = {}
      BY Zenon DEF Within
    <3>3. QED
      BY <3>1, <3>2, Zenon DEF EvInv, LevelTracks, Open, Level
  <2>2. DurationsTile
    BY Zenon DEF EvInv, TimeTiled, DurationsTile
  <2>3. QED
    BY <2>1, <2>2, Zenon DEF EvInv, EventsSound
<1>2. QED
  BY <1>1, EvInitially, EvInductive, PTL DEF EvSpec

-----------------------------------------------------------------------------
(* The validator.                                                          *)

Region == [attr : VaAttrs, val : {"begun", "set"}]

(* Its stacks are compared with the regions that are open                  *)
(* by the positions of a class of attributes in them: f lists the          *)
(* positions, in order, of the regions of s whose attribute is in C.       *)
Follows(s, C, n, f) ==
  /\ s \in Seq(Region) /\ n \in Nat
  /\ f \in [1..n -> 1..Len(s)]
  /\ \A i \in 1..n : \A j \in 1..n : i < j => f[i] < f[j]
  /\ \A i \in 1..n : s[f[i]].attr \in C
  /\ \A k \in 1..Len(s) : s[k].attr \in C => \E i \in 1..n : f[i] = k

(* r is s with the region at position k taken out.                         *)
TakenOut(s, k, r) ==
  /\ k \in 1..Len(s) /\ r \in Seq(Region) /\ Len(r) = Len(s) - 1
  /\ \A i \in 1..Len(r) : r[i] = IF i < k THEN s[i] ELSE s[i + 1]

(* k is the innermost of the regions of s with an attribute in C.          *)
Innermost(s, C, k) ==
  /\ k \in 1..Len(s) /\ s[k].attr \in C
  /\ \A j \in 1..Len(s) : s[j].attr \in C => j <= k

(* r is s with the region x added at the end.                              *)
Grown(s, x, r) == x \in Region /\ r = Append(s, x)

(* The positions g in r and f in s are those of the same n regions.        *)
Kept(s, f, r, g, n) == \A i \in 1..n : r[g[i]] = s[f[i]]
At(r, g, m, x) == r[g[m]] = x

LEMMA WithoutOne ==
  ASSUME NEW s \in Seq(Region), NEW k \in 1..Len(s)
  PROVE  Without(s, k) \in Seq(Region) /\ TakenOut(s, k, Without(s, k))
<1> DEFINE u == SubSeq(s, 1, k - 1)
           v == SubSeq(s, k + 1, Len(s))
<1>1. u \in Seq(Region) /\ Len(u) = k - 1 /\ \A i \in 1..(k - 1) : u[i] = s[i]
  OBVIOUS
<1>2. /\ v \in Seq(Region) /\ Len(v) = Len(s) - k
      /\ \A i \in 1..(Len(s) - k) : v[i] = s[k + i]
  OBVIOUS
<1>3. Without(s, k) = u \o v
  BY Zenon DEF Without
<1> HIDE DEF u, v
<1>4. u \o v \in Seq(Region) /\ Len(u \o v) = Len(u) + Len(v)
  <2>1. u \in Seq(Region) /\ v \in Seq(Region)
    BY <1>1, <1>2, Zenon
  <2>2. QED
    BY ONLY <2>1
<1>5. Len(u \o v) = Len(s) - 1
  BY <1>1, <1>2, <1>4
<1>6. \A i \in 1..(Len(s) - 1) : (u \o v)[i] = IF i < k THEN u[i] ELSE v[i - (k - 1)]
  BY <1>1, <1>2
<1>7. \A i \in 1..(Len(s) - 1) : (u \o v)[i] = IF i < k THEN s[i] ELSE s[i + 1]
  <2> SUFFICES ASSUME NEW i \in 1..(Len(s) - 1)
               PROVE  (u \o v)[i] = IF i < k THEN s[i] ELSE s[i + 1]
    BY Zenon
  <2>1. CASE i < k
    <3>1. i \in 1..(k - 1)
      BY <2>1
    <3>2. QED
      BY <1>1, <1>6, <2>1, <3>1, Zenon
  <2>2. CASE ~(i < k)
    <3>1. i - (k - 1) \in 1..(Len(s) - k) /\ k + (i - (k - 1)) = i + 1
      BY <2>2
    <3>2. v[i - (k - 1)] = s[k + (i - (k - 1))]
      BY <1>2, <3>1, Zenon
    <3>3. v[i - (k - 1)] = s[i + 1]
      BY <3>1, <3>2, Zenon
    <3>4. QED
      BY <1>6, <2>2, <3>3, Zenon
  <2>3. QED
    BY <2>1, <2>2, Zenon
<1>8. QED
  BY <1>3, <1>4, <1>5, <1>7, Zenon DEF TakenOut

(* A region more at the end.                                               *)
LEMMA FollowsAppend ==
  ASSUME NEW s, NEW x, NEW C, NEW n, NEW f, Follows(s, C, n, f), NEW r, Grown(s, x, r)
  PROVE  /\ x.attr \notin C => Follows(r, C, n, f) /\ Kept(s, f, r, f, n)
         /\ x.attr \in C =>
              \E g : Follows(r, C, n + 1, g) /\ Kept(s, f, r, g, n) /\ At(r, g, n + 1, x)
<1> /\ s \in Seq(Region) /\ n \in Nat /\ n + 1 \in Nat
    /\ x \in Region /\ r = Append(s, x)
  BY DEF Follows, Grown
<1>1. r \in Seq(Region) /\ Len(r) = Len(s) + 1 /\ r[Len(r)] = x /\ \A i \in 1..Len(s) : r[i] = s[i]
  OBVIOUS
<1>2. \A i \in 1..n : f[i] \in 1..Len(s)
  BY Zenon DEF Follows
<1>3. \A i \in 1..n : r[f[i]] = s[f[i]]
  BY <1>1, <1>2, Zenon
<1>4. \A k \in 1..Len(r) : k \in 1..Len(s) \/ k = Len(r)
  BY <1>1
<1>5. \A k \in 1..Len(s) : k \in 1..Len(r) /\ k < Len(r)
  BY <1>1
<1>6. ASSUME x.attr \notin C PROVE Follows(r, C, n, f)
  <2>1. f \in [1..n -> 1..Len(r)]
    BY <1>5, Zenon DEF Follows
  <2>2. \A i \in 1..n : r[f[i]].attr \in C
    BY <1>3, Zenon DEF Follows
  <2>3. ASSUME NEW k \in 1..Len(r), r[k].attr \in C PROVE \E i \in 1..n : f[i] = k
    <3>1. k \in 1..Len(s)
      BY <1>1, <1>4, <1>6, <2>3, Zenon
    <3>2. QED
      BY <1>1, <2>3, <3>1, Zenon DEF Follows
  <2>4. QED
    BY <1>1, <2>1, <2>2, <2>3, Zenon DEF Follows
<1>7. ASSUME x.attr \in C
      PROVE  \E g : Follows(r, C, n + 1, g) /\ Kept(s, f, r, g, n) /\ At(r, g, n + 1, x)
  <2>1. PICK g : g = [i \in 1..(n + 1) |-> IF i = n + 1 THEN Len(r) ELSE f[i]]
    BY Zenon
  <2>2. n + 1 \in 1..(n + 1) /\ \A i \in 1..n : i \in 1..(n + 1) /\ i # n + 1
    OBVIOUS
  <2>3. \A i \in 1..(n + 1) : i \in 1..n \/ i = n + 1
    OBVIOUS
  <2>4. g[n + 1] = Len(r) /\ \A i \in 1..n : g[i] = f[i]
    BY <2>1, <2>2, Zenon
  <2>5. Len(r) \in 1..Len(r)
    BY <1>1
  <2>6. \A i \in 1..(n + 1) : g[i] \in 1..Len(r)
    BY <1>2, <1>5, <2>3, <2>4, <2>5, Zenon
  <2>7. g \in [1..(n + 1) -> 1..Len(r)]
    BY <2>1, <2>6, Zenon
  <2>8. ASSUME NEW i \in 1..(n + 1), NEW j \in 1..(n + 1), i < j PROVE g[i] < g[j]
    <3>1. i \in 1..n
      BY <2>8
    <3>2. CASE j = n + 1
      BY <1>2, <1>5, <2>4, <3>1, <3>2, Zenon
    <3>3. CASE j \in 1..n
      BY <2>4, <2>8, <3>1, <3>3, Zenon DEF Follows
    <3>4. QED
      BY <2>3, <3>2, <3>3, Zenon
  <2>9. \A i \in 1..(n + 1) : r[g[i]].attr \in C
    <3>1. \A i \in 1..n : s[f[i]].attr \in C
      BY Zenon DEF Follows
    <3>2. QED
      BY <1>1, <1>3, <1>7, <2>3, <2>4, <3>1, ZenonT(60)
  <2>10. ASSUME NEW k \in 1..Len(r), r[k].attr \in C PROVE \E i \in 1..(n + 1) : g[i] = k
    <3>1. CASE k = Len(r)
      BY <2>2, <2>4, <3>1, Zenon
    <3>2. CASE k \in 1..Len(s)
      <4>1. PICK i \in 1..n : f[i] = k
        BY <1>1, <2>10, <3>2, Zenon DEF Follows
      <4>2. QED
        BY <2>2, <2>4, <4>1, Zenon
    <3>3. QED
      BY <1>4, <3>1, <3>2, Zenon
  <2>11. Follows(r, C, n + 1, g)
    BY <1>1, <2>7, <2>8, <2>9, <2>10, Zenon DEF Follows
  <2>12. Kept(s, f, r, g, n) /\ At(r, g, n + 1, x)
    BY <1>1, <1>3, <2>4, Zenon DEF Kept, At
  <2>13. QED
    BY <2>11, <2>12, Zenon
<1>8. Kept(s, f, r, f, n)
  BY <1>3, Zenon DEF Kept
<1>9. QED
  BY <1>6, <1>7, <1>8, Zenon

LEMMA FollowsOld ==
  ASSUME NEW s, NEW x, NEW C, NEW n, NEW f, Follows(s, C, n, f), NEW r, Grown(s, x, r), x.attr \notin C
  PROVE  Follows(r, C, n, f) /\ Kept(s, f, r, f, n)
BY FollowsAppend, Zenon

LEMMA FollowsNew ==
  ASSUME NEW s, NEW x, NEW C, NEW n, NEW f, Follows(s, C, n, f), NEW r, Grown(s, x, r), x.attr \in C
  PROVE  \E g : Follows(r, C, n + 1, g) /\ Kept(s, f, r, g, n) /\ At(r, g, n + 1, x)
BY FollowsAppend, Zenon

(* The last of the positions is the largest one of the class.              *)
LEMMA FollowsTop ==
  ASSUME NEW s, NEW C, NEW n, NEW f, Follows(s, C, n, f), NEW k, Innermost(s, C, k)
  PROVE  n > 0 /\ f[n] = k
<1> s \in Seq(Region) /\ n \in Nat /\ k \in 1..Len(s)
  BY Zenon DEF Follows, Innermost
<1>1. PICK i \in 1..n : f[i] = k
  BY Zenon DEF Follows, Innermost
<1>2. n > 0 /\ n \in 1..n
  BY <1>1
<1>3. f[n] \in 1..Len(s) /\ s[f[n]].attr \in C
  BY <1>2, Zenon DEF Follows
<1>4. f[n] <= k
  BY <1>3, Zenon DEF Innermost
<1>5. i < n => k < f[n]
  BY <1>1, <1>2, Zenon DEF Follows
<1>6. QED
  BY <1>1, <1>2, <1>3, <1>4, <1>5

(* A region of another class is taken out.                                 *)
LEMMA FollowsOther ==
  ASSUME NEW s, NEW C, NEW n, NEW f, Follows(s, C, n, f), NEW k, s[k].attr \notin C,
         NEW r, TakenOut(s, k, r)
  PROVE  \E g : Follows(r, C, n, g) /\ Kept(s, f, r, g, n)
<1> s \in Seq(Region) /\ n \in Nat /\ k \in 1..Len(s) /\ r \in Seq(Region)
  BY Zenon DEF Follows, TakenOut
<1>1. /\ Len(r) = Len(s) - 1 /\ Len(s) \in Nat
      /\ \A i \in 1..Len(r) : r[i] = IF i < k THEN s[i] ELSE s[i + 1]
  BY DEF TakenOut
<1>2. PICK g : g = [i \in 1..n |-> IF f[i] < k THEN f[i] ELSE f[i] - 1]
  BY Zenon
<1>3. \A i \in 1..n : f[i] \in 1..Len(s) /\ f[i] # k
  BY Zenon DEF Follows
<1>4. \A i \in 1..n : g[i] = IF f[i] < k THEN f[i] ELSE f[i] - 1
  BY <1>2, Zenon
<1>5. \A i \in 1..n : g[i] \in 1..Len(r)
  <2>1. \A x \in 1..Len(s) : x # k => (IF x < k THEN x ELSE x - 1) \in 1..Len(r)
    BY <1>1
  <2>2. QED
    BY <1>3, <1>4, <2>1, Zenon
<1>6. \A i \in 1..n : r[g[i]] = s[f[i]]
  <2> SUFFICES ASSUME NEW i \in 1..n PROVE r[g[i]] = s[f[i]]
    BY Zenon
  <2>1. CASE f[i] < k
    BY <1>1, <1>4, <1>5, <2>1, Zenon
  <2>2. CASE ~(f[i] < k)
    <3>1. g[i] = f[i] - 1 /\ ~(g[i] < k) /\ g[i] + 1 = f[i]
      BY <1>3, <1>4, <2>2
    <3>2. QED
      BY <1>1, <1>5, <3>1, Zenon
  <2>3. QED
    BY <2>1, <2>2, Zenon
<1>7. ASSUME NEW i \in 1..n, NEW j \in 1..n, i < j PROVE g[i] < g[j]
  <2>1. f[i] < f[j]
    BY <1>7, Zenon DEF Follows
  <2>2. QED
    BY <1>3, <1>4, <2>1
<1>8. \A i \in 1..n : r[g[i]].attr \in C
  BY <1>6, Zenon DEF Follows
<1>9. ASSUME NEW m \in 1..Len(r), r[m].attr \in C PROVE \E i \in 1..n : g[i] = m
  <2>1. PICK q \in 1..Len(s) : q = IF m < k THEN m ELSE m + 1
    BY <1>1
  <2>2. r[m] = s[q]
    BY <1>1, <2>1, Zenon
  <2>3. PICK i \in 1..n : f[i] = q
    BY <1>9, <2>2, Zenon DEF Follows
  <2>4. g[i] = m
    BY <1>3, <1>4, <2>1, <2>3
  <2>5. QED
    BY <2>4, Zenon
<1>10. g \in [1..n -> 1..Len(r)]
  BY <1>2, <1>5, Zenon
<1>11. Follows(r, C, n, g)
  BY <1>7, <1>8, <1>9, <1>10, Zenon DEF Follows
<1>12. QED
  BY <1>6, <1>11, Zenon DEF Kept

(* The innermost region of the class is taken out.                         *)
LEMMA FollowsPop ==
  ASSUME NEW s, NEW C, NEW n, NEW f, Follows(s, C, n, f), NEW k, n > 0, f[n] = k,
         NEW r, TakenOut(s, k, r)
  PROVE  \E g : Follows(r, C, n - 1, g) /\ Kept(s, f, r, g, n - 1)
<1> s \in Seq(Region) /\ n \in Nat /\ k \in 1..Len(s) /\ r \in Seq(Region)
  BY Zenon DEF Follows, TakenOut
<1> n - 1 \in Nat
  OBVIOUS
<1>1. /\ Len(r) = Len(s) - 1 /\ Len(s) \in Nat
      /\ \A i \in 1..Len(r) : r[i] = IF i < k THEN s[i] ELSE s[i + 1]
  BY DEF TakenOut
<1>2. PICK g : g = [i \in 1..(n - 1) |-> f[i]]
  BY Zenon
<1>3. \A i \in 1..(n - 1) : g[i] = f[i] /\ i \in 1..n /\ i < n
  BY <1>2
<1>4. \A i \in 1..(n - 1) : f[i] < k
  <2>1. n \in 1..n
    OBVIOUS
  <2>2. QED
    BY <1>3, <2>1, Zenon DEF Follows
<1>5. \A i \in 1..(n - 1) : f[i] \in 1..Len(s)
  BY <1>3, Zenon DEF Follows
<1>6. \A i \in 1..(n - 1) : g[i] \in 1..Len(r)
  <2>1. \A x \in 1..Len(s) : x < k => x \in 1..Len(r)
    BY <1>1
  <2>2. QED
    BY <1>3, <1>4, <1>5, <2>1, Zenon
<1>7. \A i \in 1..(n - 1) : r[g[i]] = s[f[i]]
  <2> SUFFICES ASSUME NEW i \in 1..(n - 1) PROVE r[g[i]] = s[f[i]]
    BY Zenon
  <2>1. g[i] = f[i] /\ f[i] < k /\ f[i] \in 1..Len(r)
    BY <1>3, <1>4, <1>6, Zenon
  <2>2. r[f[i]] = s[f[i]]
    BY <1>1, <2>1, Zenon
  <2>3. QED
    BY <2>1, <2>2, Zenon
<1>8. ASSUME NEW i \in 1..(n - 1), NEW j \in 1..(n - 1), i < j PROVE g[i] < g[j]
  BY <1>3, <1>8, Zenon DEF Follows
<1>9. \A i \in 1..(n - 1) : r[g[i]].attr \in C
  BY <1>3, <1>7, Zenon DEF Follows
<1>10. ASSUME NEW m \in 1..Len(r), r[m].attr \in C PROVE \E i \in 1..(n - 1) : g[i] = m
  <2>1. PICK q \in 1..Len(s) : q = (IF m < k THEN m ELSE m + 1) /\ q # k
    BY <1>1
  <2>2. r[m] = s[q]
    BY <1>1, <2>1, Zenon
  <2>3. PICK i \in 1..n : f[i] = q
    BY <1>10, <2>2, Zenon DEF Follows
  <2>4. i # n
    BY <2>1, <2>3, Zenon
  <2>5. i \in 1..(n - 1) /\ i < n /\ n \in 1..n
    BY <2>4
  <2>6. q < k
    BY <1>4, <2>3, <2>5, Zenon
  <2>7. q = m
    BY <2>1, <2>6
  <2>8. QED
    BY <1>3, <2>3, <2>5, <2>7, Zenon
<1>11. g \in [1..(n - 1) -> 1..Len(r)]
  BY <1>2, <1>6, Zenon
<1>12. Follows(r, C, n - 1, g)
  BY <1>8, <1>9, <1>10, <1>11, Zenon DEF Follows
<1>13. QED
  BY <1>7, <1>12, Zenon DEF Kept

(* A nonempty set of numbers has a least element.                          *)
LEMMA LeastNumber ==
  ASSUME NEW T, T \subseteq Nat, T # {}
  PROVE  \E i \in T : \A j \in T : i <= j
<1>1. PICK R : R = OpToRel(<, Nat)
  BY Zenon
<1>2. IsWellFoundedOn(R, Nat)
  BY <1>1, NatLessThanWellFounded, Zenon
<1>3. PICK i \in T : \A j \in T : ~(<<j, i>> \in R)
  BY <1>2, WFMin, Zenon
<1>4. \A j \in Nat, k \in Nat : j < k => <<j, k>> \in R
  BY <1>1, Zenon DEF OpToRel
<1>5. ASSUME NEW j \in T PROVE i <= j
  <2>1. ~(j < i)
    BY <1>3, <1>4, Zenon
  <2>2. QED
    BY ONLY <2>1, i \in T, j \in T, T \subseteq Nat
<1>6. QED
  BY <1>5, Zenon

(* ... and a greatest one if it is bounded.                                *)
LEMMA GreatestNumber ==
  ASSUME NEW n \in Nat, NEW T, T \subseteq 1..n, T # {}
  PROVE  \E i \in T : \A j \in T : j <= i
<1>1. PICK B : B = {m \in Nat : \A j \in T : j <= m}
  BY Zenon
<1>2. n \in B
  <2>1. \A j \in T : j <= n
    OBVIOUS
  <2>2. QED
    BY <1>1, <2>1, Zenon
<1>3. PICK m \in B : \A k \in B : m <= k
  <2>1. B \subseteq Nat /\ B # {}
    BY <1>1, <1>2, Zenon
  <2>2. QED
    BY <2>1, LeastNumber, Zenon
<1>4. m \in Nat /\ \A j \in T : j <= m
  BY <1>1, <1>3, Zenon
<1>5. m \in T
  <2> SUFFICES ASSUME m \notin T PROVE FALSE
    BY Zenon
  <2>1. \A j \in T : j \in 1..n /\ j # m
    BY Zenon
  <2>2. PICK j \in T : j \in 1..n /\ j <= m
    BY <1>4, Zenon
  <2>3. m - 1 \in Nat /\ ~(m <= m - 1)
    BY <1>4, <2>2
  <2>4. \A x \in 1..n : x # m /\ x <= m => x <= m - 1
    BY <1>4
  <2>5. m - 1 \in B
    BY <1>1, <1>4, <2>1, <2>3, <2>4, Zenon
  <2>6. QED
    BY <1>3, <2>3, <2>5, Zenon
<1>6. QED
  BY <1>4, <1>5, Zenon

(* w is what the validator has on a stack: the attributes of the nested    *)
(* regions, or one value for each region of attribute a.                   *)
Names(s, f, w, n) == \A i \in 1..n : w[i] = s[f[i]].attr

Nests(s, w) ==
  \E n, f : n = Len(w) /\ Follows(s, NestedAttrs, n, f) /\ Names(s, f, w, n)

Counts(s, a, w) == \E n, f : n = Len(w) /\ Follows(s, {a}, n, f)

LEMMA PopFacts ==
  ASSUME NEW T, NEW w \in Seq(T), Len(w) > 0
  PROVE  /\ Pop(w) \in Seq(T) /\ Len(Pop(w)) = Len(w) - 1
         /\ \A i \in 1..(Len(w) - 1) : Pop(w)[i] = w[i]
<1>1. PICK n \in Nat : n = Len(w)
  OBVIOUS
<1>2. SubSeq(w, 1, n - 1) \in Seq(T) /\ Len(SubSeq(w, 1, n - 1)) = n - 1
  BY <1>1
<1>3. \A i \in 1..(n - 1) : SubSeq(w, 1, n - 1)[i] = w[i]
  BY <1>1
<1>4. QED
  BY <1>1, <1>2, <1>3, Zenon DEF Pop

LEMMA NestsPush ==
  ASSUME NEW s, NEW x, NEW r, Grown(s, x, r), NEW w \in Seq(NestedAttrs), Nests(s, w)
  PROVE  /\ x.attr \in NestedAttrs => Nests(r, Append(w, x.attr))
         /\ x.attr \notin NestedAttrs => Nests(r, w)
<1>1. PICK n, f : n = Len(w) /\ Follows(s, NestedAttrs, n, f) /\ Names(s, f, w, n)
  BY Zenon DEF Nests
<1>2. n \in Nat
  BY <1>1
<1>3. ASSUME x.attr \notin NestedAttrs PROVE Nests(r, w)
  <2>1. Follows(r, NestedAttrs, n, f) /\ Kept(s, f, r, f, n)
    BY <1>1, <1>3, FollowsOld, Zenon
  <2>2. Names(r, f, w, n)
    BY <1>1, <2>1, Zenon DEF Kept, Names
  <2>3. QED
    BY <1>1, <2>1, <2>2, Zenon DEF Nests
<1>4. ASSUME x.attr \in NestedAttrs PROVE Nests(r, Append(w, x.attr))
  <2>1. PICK g : Follows(r, NestedAttrs, n + 1, g) /\ Kept(s, f, r, g, n) /\ At(r, g, n + 1, x)
    BY <1>1, <1>4, FollowsNew, Zenon
  <2>2. PICK v : v = Append(w, x.attr)
    BY Zenon
  <2>3. n + 1 = Len(v) /\ v[n + 1] = x.attr /\ \A i \in 1..n : v[i] = w[i]
    BY <1>1, <1>4, <2>2
  <2>4. \A i \in 1..(n + 1) : i = n + 1 \/ i \in 1..n
    BY <1>2
  <2>5. v[n + 1] = r[g[n + 1]].attr
    BY <2>1, <2>3, Zenon DEF At
  <2>6. \A i \in 1..n : v[i] = r[g[i]].attr
    BY <1>1, <2>1, <2>3, Zenon DEF Kept, Names
  <2>7. Names(r, g, v, n + 1)
    BY <2>4, <2>5, <2>6, Zenon DEF Names
  <2>8. Nests(r, v)
    BY <2>1, <2>3, <2>7, Zenon DEF Nests
  <2>9. QED
    BY <2>2, <2>8, Zenon
<1>5. QED
  BY <1>3, <1>4, Zenon

LEMMA CountsPush ==
  ASSUME NEW s, NEW x, NEW r, Grown(s, x, r), NEW a, NEW w \in Seq({"begun"}), Counts(s, a, w)
  PROVE  /\ x.attr = a => Counts(r, a, Append(w, "begun"))
         /\ x.attr # a => Counts(r, a, w)
<1>1. PICK n, f : n = Len(w) /\ Follows(s, {a}, n, f)
  BY Zenon DEF Counts
<1>2. PICK v : v = Append(w, "begun")
  BY Zenon
<1>3. n + 1 = Len(v)
  BY <1>1, <1>2
<1>4. ASSUME x.attr # a PROVE Counts(r, a, w)
  <2>1. x.attr \notin {a}
    BY <1>4, Zenon
  <2>2. Follows(r, {a}, n, f)
    BY <1>1, <2>1, FollowsOld, Zenon
  <2>3. QED
    BY <1>1, <2>2, Zenon DEF Counts
<1>5. ASSUME x.attr = a PROVE Counts(r, a, v)
  <2>1. x.attr \in {a}
    BY <1>5, Zenon
  <2>2. PICK g : Follows(r, {a}, n + 1, g)
    BY <1>1, <2>1, FollowsNew, Zenon
  <2>3. QED
    BY <1>3, <2>2, Zenon DEF Counts
<1>6. QED
  BY <1>2, <1>4, <1>5, Zenon

(* The end of a nested region that is innermost, or of another region.     *)
LEMMA NestsPop ==
  ASSUME NEW s, NEW w \in Seq(NestedAttrs), Nests(s, w), NEW k, NEW r, TakenOut(s, k, r)
  PROVE  /\ Innermost(s, NestedAttrs, k) =>
              w # <<>> /\ w[Len(w)] = s[k].attr /\ Nests(r, Pop(w))
         /\ s[k].attr \notin NestedAttrs => Nests(r, w)
<1>1. PICK n, f : n = Len(w) /\ Follows(s, NestedAttrs, n, f) /\ Names(s, f, w, n)
  BY Zenon DEF Nests
<1>2. n \in Nat
  BY <1>1
<1>3. ASSUME s[k].attr \notin NestedAttrs PROVE Nests(r, w)
  <2>1. PICK g : Follows(r, NestedAttrs, n, g) /\ Kept(s, f, r, g, n)
    BY <1>1, <1>3, FollowsOther, Zenon
  <2>2. Names(r, g, w, n)
    BY <1>1, <2>1, Zenon DEF Kept, Names
  <2>3. QED
    BY <1>1, <2>1, <2>2, Zenon DEF Nests
<1>4. ASSUME Innermost(s, NestedAttrs, k)
      PROVE  w # <<>> /\ w[Len(w)] = s[k].attr /\ Nests(r, Pop(w))
  <2>1. n > 0 /\ f[n] = k
    BY <1>1, <1>4, FollowsTop, Zenon
  <2>2. n \in 1..n /\ w # <<>>
    BY <1>1, <2>1
  <2>3. w[n] = s[k].attr
    BY <1>1, <2>1, <2>2, Zenon DEF Names
  <2>4. PICK g : Follows(r, NestedAttrs, n - 1, g) /\ Kept(s, f, r, g, n - 1)
    BY <1>1, <2>1, FollowsPop, Zenon
  <2>5. PICK v : v = Pop(w)
    BY Zenon
  <2>6. n - 1 = Len(v) /\ \A i \in 1..(n - 1) : v[i] = w[i]
    BY <1>1, <2>1, <2>5, PopFacts, Zenon
  <2>7. \A i \in 1..(n - 1) : i \in 1..n
    BY <1>2
  <2>8. Names(r, g, v, n - 1)
    BY <1>1, <2>4, <2>6, <2>7, Zenon DEF Kept, Names
  <2>9. Nests(r, v)
    BY <2>4, <2>6, <2>8, Zenon DEF Nests
  <2>10. QED
    BY <1>1, <2>2, <2>3, <2>5, <2>9, Zenon
<1>5. QED
  BY <1>3, <1>4, Zenon

LEMMA CountsPop ==
  ASSUME NEW s, NEW a, NEW w \in Seq({"begun"}), Counts(s, a, w), NEW k, NEW r, TakenOut(s, k, r)
  PROVE  /\ Innermost(s, {a}, k) => w # <<>> /\ Counts(r, a, Pop(w))
         /\ s[k].attr # a => Counts(r, a, w)
<1>1. PICK n, f : n = Len(w) /\ Follows(s, {a}, n, f)
  BY Zenon DEF Counts
<1>2. ASSUME s[k].attr # a PROVE Counts(r, a, w)
  <2>1. s[k].attr \notin {a}
    BY <1>2, Zenon
  <2>2. PICK g : Follows(r, {a}, n, g)
    BY <1>1, <2>1, FollowsOther, Zenon
  <2>3. QED
    BY <1>1, <2>2, Zenon DEF Counts
<1>3. ASSUME Innermost(s, {a}, k) PROVE w # <<>> /\ Counts(r, a, Pop(w))
  <2>1. n > 0 /\ f[n] = k
    BY <1>1, <1>3, FollowsTop, Zenon
  <2>2. w # <<>>
    BY <1>1, <2>1
  <2>3. PICK g : Follows(r, {a}, n - 1, g)
    BY <1>1, <2>1, FollowsPop, Zenon
  <2>4. n - 1 = Len(Pop(w))
    BY <1>1, <2>1, PopFacts, Zenon
  <2>5. QED
    BY <2>2, <2>3, <2>4, Zenon DEF Counts
<1>4. QED
  BY <1>2, <1>3, Zenon

(* Nothing on the stack of any attribute, nothing open.                    *)
LEMMA CountsNone ==
  ASSUME NEW s \in Seq(Region), \A a \in VaAttrs : Counts(s, a, <<>>)
  PROVE  s = <<>>
<1> SUFFICES ASSUME s # <<>> PROVE FALSE
  BY Zenon
<1>1. 1 \in 1..Len(s) /\ s[1] \in Region
  OBVIOUS
<1>2. PICK a \in VaAttrs : a = s[1].attr
  BY <1>1 DEF Region
<1>3. PICK n, f : n = Len(<<>>) /\ Follows(s, {a}, n, f)
  BY Zenon DEF Counts
<1>4. PICK i \in 1..n : f[i] = 1
  BY <1>1, <1>2, <1>3, Zenon DEF Follows
<1>5. QED
  BY <1>3, <1>4

(* The positions of a class have a largest one, if there is any.           *)
LEMMA InnermostOne ==
  ASSUME NEW s \in Seq(Region), NEW C, NEW T, T = {i \in 1..Len(s) : s[i].attr \in C}, T # {},
         NEW k, k = CHOOSE i \in T : \A j \in T : j <= i
  PROVE  Innermost(s, C, k)
<1>1. PICK n \in Nat : n = Len(s)
  OBVIOUS
<1>2. T \subseteq 1..n
  BY <1>1, Zenon
<1>3. \E i \in T : \A j \in T : j <= i
  BY <1>2, GreatestNumber, Zenon
<1>4. k \in T /\ \A j \in T : j <= k
  BY <1>3, Zenon
<1>5. \A j : j \in T <=> j \in 1..Len(s) /\ s[j].attr \in C
  BY Zenon
<1>6. k \in 1..Len(s) /\ s[k].attr \in C
  BY <1>4, <1>5, Zenon
<1>7. ASSUME NEW j \in 1..Len(s), s[j].attr \in C PROVE j <= k
  BY <1>4, <1>5, <1>7, Zenon
<1>8. QED
  BY <1>6, <1>7, Zenon DEF Innermost

LEMMA NestsTop ==
  ASSUME NEW s, NEW w \in Seq(NestedAttrs), Nests(s, w), NEW k, Innermost(s, NestedAttrs, k)
  PROVE  w # <<>> /\ w[Len(w)] = s[k].attr
<1>1. PICK n, f : n = Len(w) /\ Follows(s, NestedAttrs, n, f) /\ Names(s, f, w, n)
  BY Zenon DEF Nests
<1>2. n > 0 /\ f[n] = k
  BY <1>1, FollowsTop, Zenon
<1>3. n \in 1..n /\ w # <<>>
  BY <1>1, <1>2
<1>4. w[n] = s[k].attr
  BY <1>1, <1>2, <1>3, Zenon DEF Names
<1>5. QED
  BY <1>1, <1>3, <1>4, Zenon

(* What a validator that found no error has on its stacks: R is the        *)
(* m_region_stack of the attributes and w that of the nested ones.         *)
Stacks == [VaAttrs -> Seq({"begun"})]
Mirrors(s, R, w) == Nests(s, w) /\ \A a \in VaAttrs : Counts(s, a, R[a])

(* A region begins.                                                        *)
LEMMA MirrorsPush ==
  ASSUME NEW s, NEW R \in Stacks, NEW w \in Seq(NestedAttrs), Mirrors(s, R, w),
         NEW a \in VaAttrs, NEW x, x.attr = a, NEW r, Grown(s, x, r),
         NEW Q, Q = [R EXCEPT ![a] = Append(@, "begun")]
  PROVE  Mirrors(r, Q, IF a \in NestedAttrs THEN Append(w, a) ELSE w)
<1>1. Nests(r, IF a \in NestedAttrs THEN Append(w, a) ELSE w)
  <2>1. CASE a \in NestedAttrs
    BY <2>1, NestsPush, Zenon DEF Mirrors
  <2>2. CASE a \notin NestedAttrs
    BY <2>2, NestsPush, Zenon DEF Mirrors
  <2>3. QED
    BY <2>1, <2>2, Zenon
<1>2. ASSUME NEW b \in VaAttrs PROVE Counts(r, b, Q[b])
  <2>1. PICK v \in Seq({"begun"}) : v = R[b] /\ Counts(s, b, v)
    BY Zenon DEF Mirrors, Stacks
  <2>2. CASE b = a
    <3>1. Q[b] = Append(v, "begun")
      BY <2>1, <2>2, Zenon DEF Stacks
    <3>2. Counts(r, b, Append(v, "begun"))
      BY <2>1, <2>2, CountsPush, Zenon
    <3>3. QED
      BY <3>1, <3>2, Zenon
  <2>3. CASE b # a
    <3>1. Q[b] = v
      BY <2>1, <2>3, Zenon DEF Stacks
    <3>2. Counts(r, b, v)
      BY <2>1, <2>3, CountsPush, Zenon
    <3>3. QED
      BY <3>1, <3>2, Zenon
  <2>4. QED
    BY <2>2, <2>3, Zenon
<1>3. QED
  BY <1>1, <1>2, Zenon DEF Mirrors

(* The innermost region of an attribute ends, and no nested one is inside. *)
LEMMA MirrorsPop ==
  ASSUME NEW s, NEW R \in Stacks, NEW w \in Seq(NestedAttrs), Mirrors(s, R, w),
         NEW a \in VaAttrs, NEW k, Innermost(s, {a}, k), NEW r, TakenOut(s, k, r),
         NEW Q, Q = [R EXCEPT ![a] = Pop(@)]
  PROVE  /\ R[a] # <<>>
         /\ a \notin NestedAttrs => Mirrors(r, Q, w)
         /\ a \in NestedAttrs /\ Innermost(s, NestedAttrs, k) => Mirrors(r, Q, Pop(w))
<1>1. s[k].attr = a
  BY Zenon DEF Innermost
<1>2. R[a] # <<>>
  BY CountsPop, Zenon DEF Mirrors, Stacks
<1>3. ASSUME NEW b \in VaAttrs PROVE Counts(r, b, Q[b])
  <2>1. PICK v \in Seq({"begun"}) : v = R[b] /\ Counts(s, b, v)
    BY Zenon DEF Mirrors, Stacks
  <2>2. CASE b = a
    <3>1. Q[b] = Pop(v)
      BY <2>1, <2>2, Zenon DEF Stacks
    <3>2. Counts(r, b, Pop(v))
      BY <2>1, <2>2, CountsPop, Zenon
    <3>3. QED
      BY <3>1, <3>2, Zenon
  <2>3. CASE b # a
    <3>1. Q[b] = v
      BY <2>1, <2>3, Zenon DEF Stacks
    <3>2. Counts(r, b, v)
      BY <1>1, <2>1, <2>3, CountsPop, Zenon
    <3>3. QED
      BY <3>1, <3>2, Zenon
  <2>4. QED
    BY <2>2, <2>3, Zenon
<1>4. a \notin NestedAttrs => Nests(r, w)
  BY <1>1, NestsPop, Zenon DEF Mirrors
<1>5. Innermost(s, NestedAttrs, k) => Nests(r, Pop(w))
  BY NestsPop, Zenon DEF Mirrors
<1>6. QED
  BY <1>2, <1>3, <1>4, <1>5, Zenon DEF Mirrors

Begun(s) == \A i \in 1..Len(s) : s[i].val = "begun"

LEMMA BegunKeeps ==
  ASSUME NEW s \in Seq(Region), Begun(s)
  PROVE  /\ \A x \in Region : x.val = "begun" => Begun(Append(s, x))
         /\ \A k, r : TakenOut(s, k, r) => Begun(r)
<1>1. ASSUME NEW x \in Region, x.val = "begun" PROVE Begun(Append(s, x))
  <2>1. PICK r : r = Append(s, x)
    BY Zenon
  <2>2. \A i \in 1..Len(r) : r[i] = x \/ (i \in 1..Len(s) /\ r[i] = s[i])
    BY <2>1
  <2>3. Begun(r)
    BY <1>1, <2>2, Zenon DEF Begun
  <2>4. QED
    BY <2>1, <2>3, Zenon
<1>2. ASSUME NEW k, NEW r, TakenOut(s, k, r) PROVE Begun(r)
  <2>1. /\ k \in 1..Len(s) /\ Len(r) = Len(s) - 1
        /\ \A i \in 1..Len(r) : r[i] = IF i < k THEN s[i] ELSE s[i + 1]
    BY <1>2, Zenon DEF TakenOut
  <2>2. \A i \in 1..Len(r) : i \in 1..Len(s) /\ i + 1 \in 1..Len(s)
    BY <2>1
  <2>3. QED
    BY <2>1, <2>2, Zenon DEF Begun
<1>3. QED
  BY <1>1, <1>2, Zenon

(* The inductive invariant.  A validator that found no error has exactly   *)
(* the open regions on its stacks, unless the owner used set; an error     *)
(* that was found is counted.                                              *)
VaTypeOK ==
  /\ opened \in [Owners -> Seq(Region)]
  /\ vaRegions \in [Owners -> Stacks]
  /\ nesting \in [Owners -> Seq(NestedAttrs)]
  /\ errorFound \in [Owners -> BOOLEAN]
  /\ errors \in {0, 1}

OwnerOK(o) ==
  /\ Begun(opened[o])
  /\ ~errorFound[o] => Mirrors(opened[o], vaRegions[o], nesting[o])

OwnersOK == \A o \in Owners \ replaced : OwnerOK(o)
MisnestedCounted == \A o \in misnested \ replaced : errors = 1

VaInv == VaTypeOK /\ OwnersOK /\ MisnestedCounted /\ ValidatorExact

LEMMA VaInit_VaInv ==
  VaInit => VaInv
<1> SUFFICES ASSUME VaInit PROVE VaInv
  BY Zenon
<1>1. <<>> \in Seq(Region) /\ <<>> \in Seq({"begun"}) /\ <<>> \in Seq(NestedAttrs)
  OBVIOUS
<1>2. VaTypeOK
  BY <1>1, Zenon DEF VaInit, VaTypeOK, Stacks
<1>3. Len(<<>>) = 0 /\ 1..0 = {} /\ 0 \in Nat
  OBVIOUS
<1>4. \A C : \E f : Follows(<<>>, C, 0, f)
  <2> SUFFICES ASSUME NEW C PROVE \E f : Follows(<<>>, C, 0, f)
    BY Zenon
  <2>1. PICK f : f = [i \in 1..0 |-> 1]
    BY Zenon
  <2>2. Follows(<<>>, C, 0, f)
    BY <1>1, <1>3, <2>1, Zenon DEF Follows
  <2>3. QED
    BY <2>2, Zenon
<1>5. Nests(<<>>, <<>>) /\ \A a \in VaAttrs : Counts(<<>>, a, <<>>)
  BY <1>3, <1>4, Zenon DEF Nests, Counts, Names
<1>6. Begun(<<>>)
  BY <1>3, Zenon DEF Begun
<1>7. OwnersOK
  BY <1>5, <1>6, Zenon DEF VaInit, OwnersOK, OwnerOK, Mirrors
<1>8. MisnestedCounted
  BY Zenon DEF VaInit, MisnestedCounted
<1>9. summary # "clean"
  BY DEF VaInit
<1>10. MisnestingFound
  BY Zenon DEF VaInit, MisnestingFound
<1>11. QED
  BY <1>2, <1>7, <1>8, <1>9, <1>10, Zenon DEF VaInv, ValidatorExact, CleanMeansClosed, EveryErrorReported

(* A step that changes nothing of an owner.                                *)
LEMMA OwnerSame ==
  ASSUME NEW o, opened'[o] = opened[o], vaRegions'[o] = vaRegions[o], nesting'[o] = nesting[o],
         errorFound[o] => errorFound'[o], OwnerOK(o)
  PROVE  OwnerOK(o)'
BY Zenon DEF OwnerOK

(* check_begin pushes on both stacks unless an error was found.            *)
LEMMA CheckBeginKeeps ==
  ASSUME VaInv, NEW o \in Owners, NEW a \in VaAttrs, CheckBegin(o, a, "begun")
  PROVE  VaInv'
<1>1. PICK s \in Seq(Region) : s = opened[o]
  BY Zenon DEF VaInv, VaTypeOK
<1>2. PICK R \in Stacks : R = vaRegions[o]
  BY Zenon DEF VaInv, VaTypeOK
<1>3. PICK w \in Seq(NestedAttrs) : w = nesting[o]
  BY Zenon DEF VaInv, VaTypeOK
<1>4. PICK x : x = [attr |-> a, val |-> "begun"]
  BY Zenon
<1>5. x \in Region /\ x.attr = a /\ x.val = "begun"
  BY <1>4 DEF Region
<1>6. PICK r : r = Append(s, x)
  BY Zenon
<1>7. PICK Q : Q = [R EXCEPT ![a] = Append(@, "begun")]
  BY Zenon
<1>8. /\ opened' = [opened EXCEPT ![o] = r]
      /\ vaRegions' = IF errorFound[o] THEN vaRegions ELSE [vaRegions EXCEPT ![o] = Q]
      /\ nesting' = IF errorFound[o] \/ a \notin NestedAttrs THEN nesting
                    ELSE [nesting EXCEPT ![o] = Append(w, a)]
      /\ errors' = IF errorFound[o] THEN 1 ELSE errors
      /\ errorFound' = errorFound /\ summary' = summary /\ exited' = exited
      /\ misnested' = misnested /\ replaced' = replaced /\ summary = "none"
  BY <1>1, <1>2, <1>3, <1>4, <1>6, <1>7, Zenon DEF CheckBegin, CountError, Active
<1>9. r \in Seq(Region)
  BY <1>5, <1>6
<1>10. Q \in Stacks
  <2>1. \A v \in Seq({"begun"}) : Append(v, "begun") \in Seq({"begun"})
    OBVIOUS
  <2>2. QED
    BY <1>7, <2>1, Zenon DEF Stacks
<1>11. a \in NestedAttrs => Append(w, a) \in Seq(NestedAttrs)
  OBVIOUS
<1>12. VaTypeOK'
  BY <1>8, <1>9, <1>10, <1>11, Zenon DEF VaInv, VaTypeOK
<1>13. ASSUME NEW p \in Owners \ replaced' PROVE OwnerOK(p)'
  <2>1. OwnerOK(p) /\ p \in Owners
    BY <1>8, <1>13, Zenon DEF VaInv, OwnersOK
  <2>2. CASE p # o
    <3>1. opened'[p] = opened[p] /\ vaRegions'[p] = vaRegions[p] /\ nesting'[p] = nesting[p]
      BY <1>8, <2>1, <2>2, Zenon DEF VaInv, VaTypeOK
    <3>2. QED
      BY <1>8, <2>1, <3>1, OwnerSame, Zenon
  <2>3. CASE p = o
    <3>1. opened'[o] = r
      BY <1>8, Zenon DEF VaInv, VaTypeOK
    <3>2. Begun(s)
      BY <1>1, <2>1, <2>3, Zenon DEF OwnerOK
    <3>3. Begun(r)
      BY <1>5, <1>6, <3>2, BegunKeeps, Zenon
    <3>4. ASSUME ~errorFound[o] PROVE Mirrors(r, vaRegions'[o], nesting'[o])
      <4>1. Mirrors(s, R, w)
        BY <1>1, <1>2, <1>3, <2>1, <2>3, <3>4, Zenon DEF OwnerOK
      <4>2. Grown(s, x, r)
        BY <1>5, <1>6, Zenon DEF Grown
      <4>3. Mirrors(r, Q, IF a \in NestedAttrs THEN Append(w, a) ELSE w)
        BY <1>5, <1>7, <4>1, <4>2, MirrorsPush, Zenon
      <4>4. vaRegions'[o] = Q
        BY <1>8, <3>4, Zenon DEF VaInv, VaTypeOK
      <4>5. nesting'[o] = IF a \in NestedAttrs THEN Append(w, a) ELSE w
        BY <1>3, <1>8, <3>4, Zenon DEF VaInv, VaTypeOK
      <4>6. QED
        BY <4>3, <4>4, <4>5, Zenon
    <3>5. QED
      BY <1>8, <2>3, <3>1, <3>3, <3>4, Zenon DEF OwnerOK
  <2>4. QED
    BY <2>2, <2>3, Zenon
<1>14. MisnestedCounted'
  BY <1>8, Zenon DEF VaInv, MisnestedCounted
<1>15. summary' # "clean"
  BY <1>8
<1>16. MisnestingFound'
  BY <1>8, Zenon DEF VaInv, ValidatorExact, MisnestingFound
<1>17. ValidatorExact'
  BY <1>15, <1>16, Zenon DEF ValidatorExact, CleanMeansClosed, EveryErrorReported
<1>18. QED
  BY <1>12, <1>13, <1>14, <1>17, Zenon DEF VaInv, OwnersOK

(* The region that Caliper::end or set takes out is the innermost one of   *)
(* its attribute.                                                          *)
LEMMA TopAtInnermost ==
  ASSUME VaTypeOK, NEW o \in Owners, NEW a, OpenAt(o, a) # {}
  PROVE  Innermost(opened[o], {a}, TopAt(o, a))
<1>1. PICK s \in Seq(Region) : s = opened[o]
  BY Zenon DEF VaTypeOK
<1>2. PICK T : T = OpenAt(o, a)
  BY Zenon
<1>3. T = {i \in 1..Len(s) : s[i].attr = a}
  BY <1>1, <1>2, Zenon DEF OpenAt
<1>4. T = {i \in 1..Len(s) : s[i].attr \in {a}}
  BY <1>3, Zenon
<1>5. PICK k : k = CHOOSE i \in T : \A j \in T : j <= i
  BY Zenon
<1>6. k = TopAt(o, a)
  BY <1>2, <1>5, Zenon DEF TopAt
<1>7. T # {}
  BY <1>2, Zenon
<1>8. Innermost(s, {a}, k)
  BY <1>4, <1>5, <1>7, InnermostOne, Zenon
<1>9. QED
  BY <1>1, <1>6, <1>8, Zenon

(* ... and NestedTop is the attribute of the innermost nested one.         *)
LEMMA NestedTopInnermost ==
  ASSUME VaTypeOK, NEW o \in Owners, NestedAt(o) # {}
  PROVE  \E k : Innermost(opened[o], NestedAttrs, k) /\ NestedTop(o) = opened[o][k].attr
<1>1. PICK s \in Seq(Region) : s = opened[o]
  BY Zenon DEF VaTypeOK
<1>2. PICK T : T = NestedAt(o)
  BY Zenon
<1>3. T = {i \in 1..Len(s) : s[i].attr \in NestedAttrs}
  BY <1>1, <1>2, Zenon DEF NestedAt
<1>4. PICK k : k = CHOOSE i \in T : \A j \in T : j <= i
  BY Zenon
<1>5. NestedTop(o) = s[k].attr
  BY <1>1, <1>2, <1>4, Zenon DEF NestedTop
<1>6. T # {}
  BY <1>2, Zenon
<1>7. Innermost(s, NestedAttrs, k)
  BY <1>3, <1>4, <1>6, InnermostOne, Zenon
<1>8. QED
  BY <1>1, <1>5, <1>7, Zenon

(* check_end compares with what was begun last and pops; while no error    *)
(* was found it fails exactly for a nested region that is not innermost.   *)
LEMMA CheckEndKeeps ==
  ASSUME VaInv, NEW o \in Owners, NEW a \in VaAttrs, CheckEnd(o, a)
  PROVE  VaInv'
<1> DEFINE v == opened[o][TopAt(o, a)].val
           wrong == vaRegions[o][a] = <<>> \/ NestingWrong(o, a) \/ ValueWrong(o, a, v)
           outside == a \in NestedAttrs /\ NestedTop(o) # a
<1>1. PICK s \in Seq(Region) : s = opened[o]
  BY Zenon DEF VaInv, VaTypeOK
<1>2. PICK R \in Stacks : R = vaRegions[o]
  BY Zenon DEF VaInv, VaTypeOK
<1>3. PICK w \in Seq(NestedAttrs) : w = nesting[o]
  BY Zenon DEF VaInv, VaTypeOK
<1>4. PICK k : k = TopAt(o, a)
  BY Zenon
<1>5. Innermost(s, {a}, k)
  BY <1>1, <1>4, TopAtInnermost, Zenon DEF CheckEnd, VaInv
<1>6. k \in 1..Len(s) /\ s[k].attr = a
  BY <1>5, Zenon DEF Innermost
<1>7. PICK r \in Seq(Region) : r = Without(s, k) /\ TakenOut(s, k, r)
  BY <1>6, WithoutOne, Zenon
<1>8. PICK Q : Q = [R EXCEPT ![a] = Pop(@)]
  BY Zenon
<1>9. /\ opened' = [opened EXCEPT ![o] = r]
      /\ IF errorFound[o] \/ R[a] = <<>>
           THEN vaRegions' = vaRegions /\ nesting' = nesting
           ELSE /\ vaRegions' = [vaRegions EXCEPT ![o] = Q]
                /\ nesting' = IF a \notin NestedAttrs \/ w = <<>> THEN nesting
                              ELSE [nesting EXCEPT ![o] = Pop(w)]
      /\ errorFound' = [errorFound EXCEPT ![o] = errorFound[o] \/ wrong]
      /\ errors' = IF errorFound'[o] THEN 1 ELSE errors
      /\ misnested' = IF outside THEN misnested \cup {o} ELSE misnested
      /\ summary' = summary /\ exited' = exited /\ replaced' = replaced
      /\ summary = "none" /\ o \notin exited
  BY <1>1, <1>2, <1>3, <1>4, <1>7, <1>8, Zenon DEF CheckEnd, CountError, Active
<1>10. wrong \in BOOLEAN /\ errorFound[o] \in BOOLEAN
  BY Zenon DEF VaInv, VaTypeOK, NestingWrong, ValueWrong
<1> HIDE DEF wrong, outside
<1>11. errorFound'[o] <=> errorFound[o] \/ wrong
  BY <1>9, Zenon DEF VaInv, VaTypeOK
<1>12. \A p \in Owners : p # o => errorFound'[p] = errorFound[p]
  BY <1>9, Zenon DEF VaInv, VaTypeOK
<1>13. \A T : \A z \in Seq(T) : z # <<>> => Pop(z) \in Seq(T)
  <2> SUFFICES ASSUME NEW T, NEW z \in Seq(T), z # <<>> PROVE Pop(z) \in Seq(T)
    BY Zenon
  <2>1. Len(z) > 0
    OBVIOUS
  <2>2. QED
    BY <2>1, PopFacts, Zenon
<1>14. VaTypeOK'
  <2>1. opened' \in [Owners -> Seq(Region)]
    BY <1>9, Zenon DEF VaInv, VaTypeOK
  <2>2. R[a] # <<>> => Q \in Stacks
    <3>1. R[a] # <<>> => Pop(R[a]) \in Seq({"begun"})
      BY <1>13, Zenon DEF Stacks
    <3>2. QED
      BY <1>8, <3>1, Zenon DEF Stacks
  <2>3. vaRegions' \in [Owners -> Stacks]
    BY <1>9, <2>2, Zenon DEF VaInv, VaTypeOK
  <2>4. w # <<>> => Pop(w) \in Seq(NestedAttrs)
    BY <1>13, Zenon
  <2>5. nesting' \in [Owners -> Seq(NestedAttrs)]
    BY <1>9, <2>4, Zenon DEF VaInv, VaTypeOK
  <2>6. errorFound' \in [Owners -> BOOLEAN]
    BY <1>9, <1>10, Zenon DEF VaInv, VaTypeOK
  <2>7. errors' \in {0, 1}
    BY <1>9, Zenon DEF VaInv, VaTypeOK
  <2>8. QED
    BY <2>1, <2>3, <2>5, <2>6, <2>7, Zenon DEF VaTypeOK
<1>15. ASSUME o \notin replaced, ~errorFound[o]
       PROVE  R[a] # <<>> /\ (wrong <=> outside) /\ (~wrong => Mirrors(r, Q, nesting'[o]))
  <2>1. OwnerOK(o)
    BY <1>15, Zenon DEF VaInv, OwnersOK
  <2>2. Mirrors(s, R, w) /\ Begun(s)
    BY <1>1, <1>2, <1>3, <1>15, <2>1, Zenon DEF OwnerOK
  <2>3. /\ R[a] # <<>>
        /\ a \notin NestedAttrs => Mirrors(r, Q, w)
        /\ a \in NestedAttrs /\ Innermost(s, NestedAttrs, k) => Mirrors(r, Q, Pop(w))
    BY <1>5, <1>7, <1>8, <2>2, MirrorsPop, Zenon
  <2>4. ~ValueWrong(o, a, v)
    <3>1. v = "begun"
      BY <1>1, <1>4, <1>6, <2>2, Zenon DEF Begun
    <3>2. R[a] \in Seq({"begun"})
      BY Zenon DEF Stacks
    <3>3. \A z \in Seq({"begun"}) : z # <<>> => z[Len(z)] = "begun"
      OBVIOUS
    <3>4. QED
      BY <1>2, <3>1, <3>2, <3>3, Zenon DEF ValueWrong
  <2>5. wrong <=> NestingWrong(o, a)
    BY <1>2, <2>3, <2>4, Zenon DEF wrong
  <2>6. CASE a \notin NestedAttrs
    <3>1. ~wrong /\ ~outside
      BY <2>5, <2>6, Zenon DEF NestingWrong, outside
    <3>2. nesting'[o] = w
      BY <1>3, <1>9, <1>15, <2>3, <2>6, Zenon
    <3>3. QED
      BY <2>3, <2>6, <3>1, <3>2, Zenon
  <2>7. CASE a \in NestedAttrs
    <3>1. NestedAt(o) # {}
      BY <1>1, <1>6, <2>7, Zenon DEF NestedAt
    <3>2. PICK top : Innermost(s, NestedAttrs, top) /\ NestedTop(o) = s[top].attr
      BY <1>1, <3>1, NestedTopInnermost, Zenon DEF VaInv
    <3>3. Nests(s, w)
      BY <2>2, Zenon DEF Mirrors
    <3>4. w # <<>> /\ w[Len(w)] = NestedTop(o)
      BY <3>2, <3>3, NestsTop, Zenon
    <3>5. wrong <=> outside
      BY <1>3, <2>5, <2>7, <3>4, Zenon DEF NestingWrong, outside
    <3>6. ASSUME ~wrong PROVE Mirrors(r, Q, nesting'[o])
      <4>1. s[top].attr = a
        BY <2>7, <3>2, <3>5, <3>6, Zenon DEF outside
      <4>2. top \in 1..Len(s) /\ top <= k /\ k <= top
        BY <1>5, <1>6, <2>7, <3>2, <4>1, Zenon DEF Innermost
      <4>3. top = k
        BY <1>6, <4>2
      <4>4. Mirrors(r, Q, Pop(w))
        BY <2>3, <2>7, <3>2, <4>3, Zenon
      <4>5. nesting'[o] = Pop(w)
        BY <1>9, <1>15, <2>3, <2>7, <3>4, Zenon DEF VaInv, VaTypeOK
      <4>6. QED
        BY <4>4, <4>5, Zenon
    <3>7. QED
      BY <2>3, <3>5, <3>6, Zenon
  <2>8. QED
    BY <2>6, <2>7, Zenon
<1>16. ASSUME NEW p \in Owners \ replaced' PROVE OwnerOK(p)'
  <2>1. OwnerOK(p) /\ p \in Owners /\ p \notin replaced
    BY <1>9, <1>16, Zenon DEF VaInv, OwnersOK
  <2>2. CASE p # o
    <3>1. opened'[p] = opened[p] /\ vaRegions'[p] = vaRegions[p] /\ nesting'[p] = nesting[p]
      BY <1>9, <2>1, <2>2, Zenon DEF VaInv, VaTypeOK
    <3>2. QED
      BY <1>12, <2>1, <2>2, <3>1, OwnerSame, Zenon
  <2>3. CASE p = o
    <3>1. opened'[o] = r
      BY <1>9, Zenon DEF VaInv, VaTypeOK
    <3>2. Begun(s)
      BY <1>1, <2>1, <2>3, Zenon DEF OwnerOK
    <3>3. Begun(r)
      BY <1>7, <3>2, BegunKeeps, Zenon
    <3>4. ASSUME ~errorFound'[o] PROVE Mirrors(r, vaRegions'[o], nesting'[o])
      <4>1. ~errorFound[o] /\ ~wrong
        BY <1>11, <3>4, Zenon
      <4>2. R[a] # <<>> /\ Mirrors(r, Q, nesting'[o])
        BY <1>15, <2>1, <2>3, <4>1, Zenon
      <4>3. vaRegions'[o] = Q
        BY <1>9, <4>1, <4>2, Zenon DEF VaInv, VaTypeOK
      <4>4. QED
        BY <4>2, <4>3, Zenon
    <3>5. QED
      BY <2>3, <3>1, <3>3, <3>4, Zenon DEF OwnerOK
  <2>4. QED
    BY <2>2, <2>3, Zenon
<1>17. o \notin replaced => (errorFound'[o] <=> o \in misnested')
  <2>1. ASSUME o \notin replaced PROVE errorFound[o] <=> o \in misnested
    BY <1>9, <2>1, Zenon DEF VaInv, ValidatorExact, MisnestingFound
  <2>2. QED
    BY <1>9, <1>11, <1>15, <2>1, Zenon
<1>18. MisnestedCounted'
  <2> SUFFICES ASSUME NEW p \in misnested' \ replaced' PROVE errors' = 1
    BY Zenon DEF MisnestedCounted
  <2>1. CASE p = o
    BY <1>9, <1>17, <2>1, Zenon
  <2>2. CASE p # o
    <3>1. p \in misnested \ replaced
      BY <1>9, <2>2, Zenon
    <3>2. errors = 1
      BY <3>1, Zenon DEF VaInv, MisnestedCounted
    <3>3. QED
      BY <1>9, <3>2, Zenon
  <2>3. QED
    BY <2>1, <2>2, Zenon
<1>19. MisnestingFound'
  <2> SUFFICES ASSUME NEW p \in Owners \ (replaced' \cup exited')
               PROVE  errorFound'[p] <=> p \in misnested'
    BY Zenon DEF MisnestingFound
  <2>1. p \in Owners \ (replaced \cup exited)
    BY <1>9, Zenon
  <2>2. CASE p = o
    BY <1>17, <2>1, <2>2, Zenon
  <2>3. CASE p # o
    <3>1. errorFound[p] <=> p \in misnested
      BY <1>9, <2>1, Zenon DEF VaInv, ValidatorExact, MisnestingFound
    <3>2. p \in misnested' <=> p \in misnested
      BY <1>9, <2>3, Zenon
    <3>3. QED
      BY <1>12, <2>1, <2>3, <3>1, <3>2, Zenon
  <2>4. QED
    BY <2>2, <2>3, Zenon
<1>20. summary' # "clean"
  BY <1>9, Zenon
<1>21. ValidatorExact'
  BY <1>19, <1>20, Zenon DEF ValidatorExact, CleanMeansClosed, EveryErrorReported
<1>22. QED
  BY <1>14, <1>16, <1>18, <1>21, Zenon DEF VaInv, OwnersOK

(* set changes what is open behind the validator's back, for its owner.    *)
LEMMA SetValueKeeps ==
  ASSUME VaInv, NEW o \in Owners, NEW a \in VaAttrs, SetValue(o, a, "set")
  PROVE  VaInv'
<1>1. PICK s \in Seq(Region) : s = opened[o]
  BY Zenon DEF VaInv, VaTypeOK
<1>2. PICK r : r = IF OpenAt(o, a) = {} THEN s ELSE Without(s, TopAt(o, a))
  BY Zenon
<1>3. PICK x : x = [attr |-> a, val |-> "set"]
  BY Zenon
<1>4. x \in Region
  BY <1>3 DEF Region
<1>5. /\ opened' = [opened EXCEPT ![o] = Append(r, x)]
      /\ replaced' = replaced \cup {o}
      /\ vaRegions' = vaRegions /\ nesting' = nesting /\ errorFound' = errorFound
      /\ errors' = errors /\ summary' = summary /\ exited' = exited /\ misnested' = misnested
      /\ summary = "none"
  BY <1>1, <1>2, <1>3 DEF SetValue, Active
<1>6. r \in Seq(Region)
  <2>1. CASE OpenAt(o, a) = {}
    BY <1>2, <2>1, Zenon
  <2>2. CASE OpenAt(o, a) # {}
    <3>1. PICK k : k = TopAt(o, a)
      BY Zenon
    <3>2. Innermost(s, {a}, k)
      BY <1>1, <2>2, <3>1, TopAtInnermost, Zenon DEF VaInv
    <3>3. k \in 1..Len(s)
      BY <3>2, Zenon DEF Innermost
    <3>4. QED
      BY <1>2, <2>2, <3>1, <3>3, WithoutOne, Zenon
  <2>3. QED
    BY <2>1, <2>2, Zenon
<1>7. Append(r, x) \in Seq(Region)
  BY <1>4, <1>6
<1>8. VaTypeOK'
  BY <1>5, <1>7, Zenon DEF VaInv, VaTypeOK
<1>9. ASSUME NEW p \in Owners \ replaced' PROVE OwnerOK(p)'
  <2>1. OwnerOK(p) /\ p \in Owners /\ p # o
    BY <1>5, <1>9, Zenon DEF VaInv, OwnersOK
  <2>2. opened'[p] = opened[p]
    BY <1>5, <2>1, Zenon DEF VaInv, VaTypeOK
  <2>3. QED
    BY <1>5, <2>1, <2>2, OwnerSame, Zenon
<1>10. MisnestedCounted'
  BY <1>5, Zenon DEF VaInv, MisnestedCounted
<1>11. summary' # "clean"
  BY <1>5
<1>12. MisnestingFound'
  BY <1>5, Zenon DEF VaInv, ValidatorExact, MisnestingFound
<1>13. QED
  BY <1>8, <1>9, <1>10, <1>11, <1>12, Zenon
  DEF VaInv, OwnersOK, ValidatorExact, CleanMeansClosed, EveryErrorReported

(* An owner that ends, or the end of the program: errors are only added.   *)
LEMMA ThreadExitKeeps ==
  ASSUME VaInv, NEW o \in Owners, ThreadExit(o)
  PROVE  VaInv'
<1>1. /\ exited' = exited \cup {o}
      /\ errorFound' = [errorFound EXCEPT ![o] = errorFound[o] \/ LeftOpen(o)]
      /\ opened' = opened /\ vaRegions' = vaRegions /\ nesting' = nesting /\ errors' = errors
      /\ summary' = summary /\ misnested' = misnested /\ replaced' = replaced
      /\ summary = "none"
  BY Zenon DEF ThreadExit, Active
<1>2. LeftOpen(o) \in BOOLEAN
  BY Zenon DEF LeftOpen
<1>3. /\ errorFound' \in [Owners -> BOOLEAN]
      /\ \A p \in Owners : errorFound[p] => errorFound'[p]
      /\ \A p \in Owners : p # o => errorFound'[p] = errorFound[p]
  BY <1>1, <1>2, Zenon DEF VaInv, VaTypeOK
<1>4. VaTypeOK'
  BY <1>1, <1>3, Zenon DEF VaInv, VaTypeOK
<1>5. ASSUME NEW p \in Owners \ replaced' PROVE OwnerOK(p)'
  <2>1. OwnerOK(p) /\ p \in Owners
    BY <1>1, <1>5, Zenon DEF VaInv, OwnersOK
  <2>2. QED
    BY <1>1, <1>3, <2>1, OwnerSame, Zenon
<1>6. MisnestedCounted'
  BY <1>1, Zenon DEF VaInv, MisnestedCounted
<1>7. summary' # "clean"
  BY <1>1
<1>8. MisnestingFound'
  <2> SUFFICES ASSUME NEW p \in Owners \ (replaced' \cup exited')
               PROVE  errorFound'[p] <=> p \in misnested'
    BY Zenon DEF MisnestingFound
  <2>1. p \in Owners \ (replaced \cup exited) /\ p # o
    BY <1>1, Zenon
  <2>2. errorFound[p] <=> p \in misnested
    BY <1>1, <2>1, Zenon DEF VaInv, ValidatorExact, MisnestingFound
  <2>3. QED
    BY <1>1, <1>3, <2>1, <2>2, Zenon
<1>9. QED
  BY <1>4, <1>5, <1>6, <1>7, <1>8, Zenon
  DEF VaInv, OwnersOK, ValidatorExact, CleanMeansClosed, EveryErrorReported

LEMMA VaFinalizeKeeps ==
  ASSUME VaInv, VaFinalize
  PROVE  VaInv'
<1>1. /\ errorFound' = [o \in Owners |->
           errorFound[o] \/ (o \in {"main", "process"} /\ LeftOpen(o))]
      /\ summary' = IF errors > 0 \/ errorFound'["main"]
                          \/ ("process" \in Owners /\ errorFound'["process"]) THEN "errors" ELSE "clean"
      /\ opened' = opened /\ vaRegions' = vaRegions /\ nesting' = nesting /\ errors' = errors
      /\ exited' = exited /\ misnested' = misnested /\ replaced' = replaced
  BY DEF VaFinalize
<1>2. \A o \in Owners : LeftOpen(o) \in BOOLEAN
  BY Zenon DEF LeftOpen
<1>3. \A o \in Owners : errorFound'[o] <=> errorFound[o] \/ (o \in {"main", "process"} /\ LeftOpen(o))
  BY <1>1, Zenon
<1>4. errorFound' \in [Owners -> BOOLEAN]
  BY <1>1, <1>2, Zenon DEF VaInv, VaTypeOK
<1>5. VaTypeOK'
  BY <1>1, <1>4, Zenon DEF VaInv, VaTypeOK
<1>6. ASSUME NEW p \in Owners \ replaced' PROVE OwnerOK(p)'
  <2>1. OwnerOK(p) /\ p \in Owners
    BY <1>1, <1>6, Zenon DEF VaInv, OwnersOK
  <2>2. QED
    BY <1>1, <1>3, <2>1, OwnerSame, Zenon
<1>7. MisnestedCounted'
  BY <1>1, Zenon DEF VaInv, MisnestedCounted
<1>8. summary' # "none"
  BY <1>1
<1>9. ASSUME summary' = "clean"
      PROVE  /\ errors = 0
             /\ \A o \in Owners \cap {"main", "process"} : ~errorFound'[o]
  <2>1. "errors" # "clean"
    OBVIOUS
  <2>2. ~(errors > 0) /\ ~errorFound'["main"] /\ ~("process" \in Owners /\ errorFound'["process"])
    BY <1>1, <1>9, <2>1, Zenon
  <2>3. errors = 0
    BY <2>2 DEF VaInv, VaTypeOK
  <2>4. QED
    BY <2>2, <2>3, Zenon
<1>10. CleanMeansClosed'
  <2> SUFFICES ASSUME summary' = "clean", NEW o \in (Owners \cap {"main", "process"}) \ replaced'
               PROVE  opened'[o] = <<>>
    BY Zenon DEF CleanMeansClosed
  <2>1. o \in Owners \ replaced /\ o \in {"main", "process"} /\ ~errorFound[o] /\ ~LeftOpen(o)
    BY <1>1, <1>3, <1>9, Zenon
  <2>2. PICK s \in Seq(Region) : s = opened[o]
    BY <2>1, Zenon DEF VaInv, VaTypeOK
  <2>3. OwnerOK(o)
    BY <2>1, Zenon DEF VaInv, OwnersOK
  <2>4. \A a \in VaAttrs : Counts(s, a, vaRegions[o][a])
    BY <2>1, <2>2, <2>3, Zenon DEF OwnerOK, Mirrors
  <2>5. \A a \in VaAttrs : vaRegions[o][a] = <<>>
    BY <2>1, Zenon DEF LeftOpen
  <2>6. \A a \in VaAttrs : Counts(s, a, <<>>)
    BY <2>4, <2>5, Zenon
  <2>7. QED
    BY <1>1, <2>2, <2>6, CountsNone, Zenon
<1>11. EveryErrorReported'
  <2> SUFFICES ASSUME summary' = "clean" PROVE misnested' \subseteq replaced'
    BY Zenon DEF EveryErrorReported
  <2>1. errors # 1
    BY <1>9
  <2>2. QED
    BY <1>1, <2>1, Zenon DEF VaInv, MisnestedCounted
<1>12. MisnestingFound'
  BY <1>8, Zenon DEF MisnestingFound
<1>13. QED
  BY <1>5, <1>6, <1>7, <1>10, <1>11, <1>12, Zenon DEF VaInv, OwnersOK, ValidatorExact

LEMMA VaNext_VaInv ==
  VaInv /\ [VaNext]_vaVars => VaInv'
<1> SUFFICES ASSUME VaInv, [VaNext]_vaVars PROVE VaInv'
  BY Zenon
<1>1. ASSUME NEW o \in Owners, NEW a \in VaAttrs, CheckBegin(o, a, "begun") PROVE VaInv'
  BY <1>1, CheckBeginKeeps, Zenon
<1>2. ASSUME NEW o \in Owners, NEW a \in VaAttrs, SetValue(o, a, "set") PROVE VaInv'
  BY <1>2, SetValueKeeps, Zenon
<1>3. ASSUME NEW o \in Owners, NEW a \in VaAttrs, CheckEnd(o, a) PROVE VaInv'
  BY <1>3, CheckEndKeeps, Zenon
<1>4. ASSUME NEW o \in Owners, ThreadExit(o) PROVE VaInv'
  BY <1>4, ThreadExitKeeps, Zenon
<1>5. CASE VaFinalize
  BY <1>5, VaFinalizeKeeps, Zenon
<1>6. CASE UNCHANGED vaVars
  <2>1. /\ opened' = opened /\ vaRegions' = vaRegions /\ nesting' = nesting
        /\ errorFound' = errorFound /\ errors' = errors /\ summary' = summary
        /\ exited' = exited /\ misnested' = misnested /\ replaced' = replaced
    BY <1>6 DEF vaVars
  <2>2. VaTypeOK' /\ OwnersOK' /\ MisnestedCounted'
    BY <2>1, Zenon DEF VaInv, VaTypeOK, OwnersOK, OwnerOK, MisnestedCounted
  <2>3. ValidatorExact'
    BY <2>1, Zenon DEF VaInv, ValidatorExact, MisnestingFound, CleanMeansClosed, EveryErrorReported
  <2>4. QED
    BY <2>2, <2>3, Zenon DEF VaInv
<1>7. QED
  BY <1>1, <1>2, <1>3, <1>4, <1>5, <1>6, Zenon DEF VaNext

(* The validator is exact: for an owner that does not use set it finds an  *)
(* error exactly when a nested region was ended out of order, its report   *)
(* is clean only when nothing is open on the main thread and on the        *)
(* process, and no error that was made is missing from the report          *)
(* (StackValidator and the callbacks of validator.cpp), for every number   *)
(* of threads, attributes and regions.                                     *)
THEOREM ValidatorAlwaysExact ==
  VaSpec => []ValidatorExact
<1>1. VaInv => ValidatorExact
  BY Zenon DEF VaInv
<1>2. QED
  BY <1>1, VaInit_VaInv, VaNext_VaInv, PTL DEF VaSpec
=============================================================================
