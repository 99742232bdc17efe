---------------------------- MODULE ThreadProofs ----------------------------
(***************************************************************************)
(* What threads share of the library: its life cycle and the annotation    *)
(* objects, proved for any number of threads and any length of execution.  *)
(***************************************************************************)
EXTENDS Lifecycle, AnnotationObjects, FiniteSetTheorems, TLAPS

-----------------------------------------------------------------------------
(* The life cycle of the runtime.                                          *)

LcTypeOK ==
  /\ initLock \in {0, 1} /\ initMutex \in Workers \cup {"free"}
  /\ global \in {"null", "live"} /\ built \in Nat
  /\ scopeKey \in [Workers -> {"null", "scope"}]
  /\ sigLock \in [Workers -> Nat]
  /\ pc \in [Workers -> {"out", "mutex", "build", "publish", "acquire", "created", "have",
                         "locked", "release", "exit", "dead"}]
  /\ task \in [Workers -> 0..Len(ExitSteps)]
  /\ sig \in [Workers -> {"none", "enter", "inst", "snapshot", "return"}]
  /\ timer \in [Workers -> {"none", "armed", "deleted"}]
  /\ scopeLog \in [Workers -> Seq({"create", "release"})]

(* The global data is built by the holder of the mutex, once, and complete *)
(* when s_init_lock is opened.                                             *)
BuiltOnce ==
  /\ initLock = 0 <=> global = "live"
  /\ global = "live" => initMutex = "free" /\ built = 1
  /\ initMutex = "free" /\ global = "null" => built = 0
  /\ \A t \in Workers :
       /\ pc[t] = "build" => initMutex = t /\ built = 0
       /\ pc[t] = "publish" => initMutex = t /\ built = 1
       /\ initMutex = t => pc[t] \in {"build", "publish"}
       /\ pc[t] \in {"acquire", "created", "have", "locked", "release", "exit"} => global = "live"

(* A thread that has an instance has its scope; without a scope it has no  *)
(* timer, but for the moments of its creation and its release.             *)
ScopeKept(t) ==
  /\ scopeKey[t] = "scope" => global = "live" \/ pc[t] = "publish"
  /\ pc[t] \in {"have", "locked", "exit"} => scopeKey[t] = "scope"
  /\ pc[t] \in {"created", "release"} => scopeKey[t] = "null"
  /\ scopeKey[t] = "null" /\ pc[t] \notin {"created", "release"} => timer[t] # "armed"
  /\ pc[t] = "dead" => timer[t] # "armed"

(* The last thing a thread does is to release its scope.                   *)
ReleaseIsLast(t) ==
  /\ pc[t] # "dead" => \A i \in DOMAIN scopeLog[t] : scopeLog[t][i] # "release"
  /\ \A i, j \in DOMAIN scopeLog[t] :
       scopeLog[t][i] = "release" /\ scopeLog[t][j] = "release" => i = j

(* Inside of a section that holds the signal lock: every step of the exit  *)
(* handler does, but for the finish event.                                 *)
Sealed(t) ==
  \/ pc[t] \in {"locked", "release"}
  \/ pc[t] = "exit" /\ ExitSteps[task[t]] # "finish"

(* The handler has an instance only outside of the sealed sections.        *)
HandlerOutside(t) ==
  /\ pc[t] = "exit" => task[t] > 0
  /\ Sealed(t) => sigLock[t] > 0
  /\ sig[t] \in {"inst", "snapshot"} =>
       ~Sealed(t) /\ global = "live" /\ scopeKey[t] = "scope"
  /\ sig[t] = "snapshot" => sigLock[t] > 0

LcInv ==
  /\ LcTypeOK /\ BuiltOnce
  /\ \A t \in Workers : ScopeKept(t) /\ ReleaseIsLast(t) /\ HandlerOutside(t)

(* The steps of the exit handler that matter for locks and events.         *)
LEMMA ExitStepNames ==
  /\ Len(ExitSteps) = 5
  /\ \A n \in 1..5 : /\ ExitSteps[n] = "finish" <=> n = 3
                     /\ ExitSteps[n] = "thread" <=> n = 5
BY DEF ExitSteps

(* LcInv is inductive: one case for each action of LcNext.                 *)
LEMMA LcInductive == LcInv /\ [LcNext]_lcVars => LcInv'
<1> SUFFICES ASSUME LcInv, [LcNext]_lcVars
             PROVE  LcInv'
  BY Zenon
<1> USE DEF LcInv
<1>1. ASSUME NEW t \in Workers, Instance(t)
      PROVE  LcInv'
  <2> USE <1>1 DEF Instance, At, Goto, lcRest
  <2>1. LcTypeOK'
    BY Zenon DEF LcTypeOK, HandlerOutside, Sealed
  <2>2. BuiltOnce'
    BY WorkersAssumption, Zenon DEF LcTypeOK, BuiltOnce
  <2>3. \A u \in Workers : ScopeKept(u)'
    BY Zenon DEF LcTypeOK, BuiltOnce, ScopeKept
  <2>4. \A u \in Workers : ReleaseIsLast(u)'
    BY DEF LcTypeOK, ReleaseIsLast
  <2>5. \A u \in Workers : HandlerOutside(u)'
    BY DEF LcTypeOK, BuiltOnce, ScopeKept, HandlerOutside, Sealed
  <2>6. QED
    BY <2>1, <2>2, <2>3, <2>4, <2>5, Zenon
<1>2. ASSUME NEW t \in Workers, LockInit(t)
      PROVE  LcInv'
  <2> USE <1>2 DEF LockInit, At, Goto
  <2>1. CASE global = "null"
    <3>1. LcTypeOK'
      BY <2>1, Zenon DEF LcTypeOK, HandlerOutside, Sealed
    <3>2. BuiltOnce'
      BY <2>1, WorkersAssumption DEF LcTypeOK, BuiltOnce
    <3>3. \A u \in Workers : ScopeKept(u)'
      BY <2>1 DEF LcTypeOK, BuiltOnce, ScopeKept
    <3>4. \A u \in Workers : ReleaseIsLast(u)'
      BY <2>1 DEF LcTypeOK, ReleaseIsLast
    <3>5. \A u \in Workers : HandlerOutside(u)'
      BY <2>1 DEF LcTypeOK, BuiltOnce, ScopeKept, HandlerOutside, Sealed
    <3>6. QED
      BY <3>1, <3>2, <3>3, <3>4, <3>5, Zenon
  <2>2. CASE global # "null"
    <3>1. LcTypeOK'
      BY <2>2, ZenonT(60) DEF LcTypeOK, HandlerOutside, Sealed
    <3>2. BuiltOnce'
      BY <2>2, WorkersAssumption DEF LcTypeOK, BuiltOnce
    <3>3. \A u \in Workers : ScopeKept(u)'
      BY <2>2 DEF LcTypeOK, BuiltOnce, ScopeKept
    <3>4. \A u \in Workers : ReleaseIsLast(u)'
      BY <2>2 DEF LcTypeOK, ReleaseIsLast
    <3>5. \A u \in Workers : HandlerOutside(u)'
      BY <2>2 DEF LcTypeOK, BuiltOnce, ScopeKept, HandlerOutside, Sealed
    <3>6. QED
      BY <3>1, <3>2, <3>3, <3>4, <3>5, Zenon
  <2>3. QED
    BY <2>1, <2>2, Zenon
<1>3. ASSUME NEW t \in Workers, Build(t)
      PROVE  LcInv'
  <2> USE <1>3 DEF Build, At, Goto
  <2>1. LcTypeOK'
    BY DEF LcTypeOK, HandlerOutside, Sealed
  <2>2. BuiltOnce'
    BY WorkersAssumption DEF LcTypeOK, BuiltOnce
  <2>3. \A u \in Workers : ScopeKept(u)'
    BY ZenonT(60) DEF LcTypeOK, BuiltOnce, ScopeKept
  <2>4. \A u \in Workers : ReleaseIsLast(u)'
    BY DEF LcTypeOK, ReleaseIsLast
  <2>5. \A u \in Workers : HandlerOutside(u)'
    BY DEF LcTypeOK, BuiltOnce, ScopeKept, HandlerOutside, Sealed
  <2>6. QED
    BY <2>1, <2>2, <2>3, <2>4, <2>5, Zenon
<1>4. ASSUME NEW t \in Workers, Publish(t)
      PROVE  LcInv'
  <2> USE <1>4 DEF Publish, At, Goto
  <2>1. LcTypeOK'
    BY Zenon DEF LcTypeOK, HandlerOutside, Sealed
  <2>2. BuiltOnce'
    BY WorkersAssumption, ZenonT(60) DEF LcTypeOK, BuiltOnce
  <2>3. \A u \in Workers : ScopeKept(u)'
    BY Zenon DEF LcTypeOK, BuiltOnce, ScopeKept
  <2>4. \A u \in Workers : ReleaseIsLast(u)'
    BY DEF LcTypeOK, ReleaseIsLast
  <2>5. \A u \in Workers : HandlerOutside(u)'
    BY DEF LcTypeOK, BuiltOnce, ScopeKept, HandlerOutside, Sealed
  <2>6. QED
    BY <2>1, <2>2, <2>3, <2>4, <2>5, Zenon
<1>5. ASSUME NEW t \in Workers, Acquire(t)
      PROVE  LcInv'
  <2>1. CASE scopeKey[t] = "null"
    <3>0. /\ pc[t] = "acquire" /\ sig[t] = "none" /\ pc' = [pc EXCEPT ![t] = "created"]
          /\ timer' = [timer EXCEPT ![t] = "armed"]
          /\ scopeLog' = [scopeLog EXCEPT ![t] = Append(@, "create")]
          /\ UNCHANGED <<initLock, initMutex, global, scopeKey, sigLock, task, sig, built>>
      BY <1>5, <2>1, Zenon DEF Acquire, At, Goto, Log
    <3>1. LcTypeOK'
      BY <2>1, <3>0 DEF LcTypeOK, HandlerOutside, Sealed
    <3>2. BuiltOnce'
      BY <2>1, <3>0, WorkersAssumption, Zenon DEF LcTypeOK, BuiltOnce
    <3>3. \A u \in Workers : ScopeKept(u)'
      BY <2>1, <3>0, Zenon DEF LcTypeOK, BuiltOnce, ScopeKept
    <3>4. \A u \in Workers : ReleaseIsLast(u)'
      BY <2>1, <3>0, SMTT(30) DEF LcTypeOK, ReleaseIsLast
    <3>5. \A u \in Workers : HandlerOutside(u)'
      BY <2>1, <3>0 DEF LcTypeOK, BuiltOnce, ScopeKept, HandlerOutside, Sealed
    <3>6. QED
      BY <3>1, <3>2, <3>3, <3>4, <3>5, Zenon
  <2>2. CASE scopeKey[t] # "null"
    <3>0. /\ pc[t] = "acquire" /\ sig[t] = "none" /\ pc' = [pc EXCEPT ![t] = "have"]
          /\ UNCHANGED <<initLock, initMutex, global, scopeKey, sigLock, task, sig, timer,
                         scopeLog, built>>
      BY <1>5, <2>2, Zenon DEF Acquire, At, Goto, Log
    <3>1. LcTypeOK'
      BY <2>2, <3>0, Zenon DEF LcTypeOK, HandlerOutside, Sealed
    <3>2. BuiltOnce'
      BY <2>2, <3>0, WorkersAssumption, Zenon DEF LcTypeOK, BuiltOnce
    <3>3. \A u \in Workers : ScopeKept(u)'
      BY <2>2, <3>0, ZenonT(60) DEF LcTypeOK, BuiltOnce, ScopeKept
    <3>4. \A u \in Workers : ReleaseIsLast(u)'
      BY <2>2, <3>0 DEF LcTypeOK, ReleaseIsLast
    <3>5. \A u \in Workers : HandlerOutside(u)'
      BY <2>2, <3>0 DEF LcTypeOK, BuiltOnce, ScopeKept, HandlerOutside, Sealed
    <3>6. QED
      BY <3>1, <3>2, <3>3, <3>4, <3>5, Zenon
  <2>3. QED
    BY <2>1, <2>2, Zenon
<1>6. ASSUME NEW t \in Workers, SetSpecific(t)
      PROVE  LcInv'
  <2> USE <1>6 DEF SetSpecific, At, Goto
  <2>1. LcTypeOK'
    BY Zenon DEF LcTypeOK, HandlerOutside, Sealed
  <2>2. BuiltOnce'
    BY WorkersAssumption, Zenon DEF LcTypeOK, BuiltOnce
  <2>3. \A u \in Workers : ScopeKept(u)'
    BY ZenonT(60) DEF LcTypeOK, BuiltOnce, ScopeKept
  <2>4. \A u \in Workers : ReleaseIsLast(u)'
    BY DEF LcTypeOK, ReleaseIsLast
  <2>5. \A u \in Workers : HandlerOutside(u)'
    BY DEF LcTypeOK, BuiltOnce, ScopeKept, HandlerOutside, Sealed
  <2>6. QED
    BY <2>1, <2>2, <2>3, <2>4, <2>5, Zenon
<1>7. ASSUME NEW t \in Workers, Lock(t)
      PROVE  LcInv'
  <2> USE <1>7 DEF Lock, At, Goto
  <2>1. LcTypeOK'
    BY DEF LcTypeOK, HandlerOutside, Sealed
  <2>2. BuiltOnce'
    BY WorkersAssumption, Zenon DEF LcTypeOK, BuiltOnce
  <2>3. \A u \in Workers : ScopeKept(u)'
    BY ZenonT(60) DEF LcTypeOK, BuiltOnce, ScopeKept
  <2>4. \A u \in Workers : ReleaseIsLast(u)'
    BY DEF LcTypeOK, ReleaseIsLast
  <2>5. \A u \in Workers : HandlerOutside(u)'
    BY DEF LcTypeOK, BuiltOnce, ScopeKept, HandlerOutside, Sealed
  <2>6. QED
    BY <2>1, <2>2, <2>3, <2>4, <2>5, Zenon
<1>8. ASSUME NEW t \in Workers, Unlock(t)
      PROVE  LcInv'
  <2> USE <1>8 DEF Unlock, At, Goto
  <2>1. LcTypeOK'
    BY DEF LcTypeOK, HandlerOutside, Sealed
  <2>2. BuiltOnce'
    BY WorkersAssumption, Zenon DEF LcTypeOK, BuiltOnce
  <2>3. \A u \in Workers : ScopeKept(u)'
    BY ZenonT(60) DEF LcTypeOK, BuiltOnce, ScopeKept
  <2>4. \A u \in Workers : ReleaseIsLast(u)'
    BY DEF LcTypeOK, ReleaseIsLast
  <2>5. \A u \in Workers : HandlerOutside(u)'
    BY DEF LcTypeOK, BuiltOnce, ScopeKept, HandlerOutside, Sealed
  <2>6. QED
    BY <2>1, <2>2, <2>3, <2>4, <2>5, Zenon
<1>9. ASSUME NEW t \in Workers, Leave(t)
      PROVE  LcInv'
  <2> USE <1>9 DEF Leave, At, Goto, lcRest
  <2>1. LcTypeOK'
    BY Zenon DEF LcTypeOK, HandlerOutside, Sealed
  <2>2. BuiltOnce'
    BY WorkersAssumption, Zenon DEF LcTypeOK, BuiltOnce
  <2>3. \A u \in Workers : ScopeKept(u)'
    BY Zenon DEF LcTypeOK, BuiltOnce, ScopeKept
  <2>4. \A u \in Workers : ReleaseIsLast(u)'
    BY DEF LcTypeOK, ReleaseIsLast
  <2>5. \A u \in Workers : HandlerOutside(u)'
    BY DEF LcTypeOK, BuiltOnce, ScopeKept, HandlerOutside, Sealed
  <2>6. QED
    BY <2>1, <2>2, <2>3, <2>4, <2>5, Zenon
<1>10. ASSUME NEW t \in Workers, ThreadEnd(t)
      PROVE  LcInv'
  <2>1. CASE scopeKey[t] = "null"
    <3>0. /\ pc[t] = "out" /\ sig[t] = "none" /\ pc' = [pc EXCEPT ![t] = "dead"]
          /\ UNCHANGED <<initLock, initMutex, global, scopeKey, sigLock, task, sig, timer,
                         scopeLog, built>>
      BY <1>10, <2>1, Zenon DEF ThreadEnd, At, Goto
    <3>1. LcTypeOK'
      BY <2>1, <3>0, Zenon DEF LcTypeOK, HandlerOutside, Sealed
    <3>2. BuiltOnce'
      BY <2>1, <3>0, WorkersAssumption, ZenonT(60) DEF LcTypeOK, BuiltOnce, ScopeKept
    <3>3. \A u \in Workers : ScopeKept(u)'
      BY <2>1, <3>0, Zenon DEF LcTypeOK, BuiltOnce, ScopeKept
    <3>4. \A u \in Workers : ReleaseIsLast(u)'
      BY <2>1, <3>0 DEF LcTypeOK, ReleaseIsLast
    <3>5. \A u \in Workers : HandlerOutside(u)'
      BY <2>1, <3>0 DEF LcTypeOK, BuiltOnce, ScopeKept, HandlerOutside, Sealed
    <3>6. QED
      BY <3>1, <3>2, <3>3, <3>4, <3>5, Zenon
  <2>2. CASE scopeKey[t] # "null"
    <3>0. /\ pc[t] = "out" /\ sig[t] = "none" /\ pc' = [pc EXCEPT ![t] = "release"]
          /\ scopeKey' = [scopeKey EXCEPT ![t] = "null"]
          /\ sigLock' = [sigLock EXCEPT ![t] = @ + 1]
          /\ UNCHANGED <<initLock, initMutex, global, task, sig, timer, scopeLog, built>>
      BY <1>10, <2>2, Zenon DEF ThreadEnd, At, Goto
    <3>1. LcTypeOK'
      BY <2>2, <3>0, SMTT(30) DEF LcTypeOK, HandlerOutside, Sealed
    <3>2. BuiltOnce'
      BY <2>2, <3>0, WorkersAssumption, ZenonT(60) DEF LcTypeOK, BuiltOnce, ScopeKept
    <3>3. \A u \in Workers : ScopeKept(u)'
      BY <2>2, <3>0, ZenonT(60) DEF LcTypeOK, BuiltOnce, ScopeKept
    <3>4. \A u \in Workers : ReleaseIsLast(u)'
      BY <2>2, <3>0 DEF LcTypeOK, ReleaseIsLast
    <3>5. \A u \in Workers : HandlerOutside(u)'
      BY <2>2, <3>0 DEF LcTypeOK, BuiltOnce, ScopeKept, HandlerOutside, Sealed
    <3>6. QED
      BY <3>1, <3>2, <3>3, <3>4, <3>5, Zenon
  <2>3. QED
    BY <2>1, <2>2, Zenon
<1>11. ASSUME NEW t \in Workers, ReleaseScope(t)
      PROVE  LcInv'
  <2> USE <1>11 DEF ReleaseScope, At, Goto, ClearTimer, Log
  <2>1. LcTypeOK'
    BY DEF LcTypeOK, HandlerOutside, Sealed
  <2>2. BuiltOnce'
    BY WorkersAssumption, Zenon DEF LcTypeOK, BuiltOnce
  <2>3. \A u \in Workers : ScopeKept(u)'
    BY ZenonT(60) DEF LcTypeOK, BuiltOnce, ScopeKept
  <2>4. \A u \in Workers : ReleaseIsLast(u)'
    BY SMTT(60) DEF LcTypeOK, ReleaseIsLast
  <2>5. \A u \in Workers : HandlerOutside(u)'
    BY SMTT(30) DEF LcTypeOK, BuiltOnce, ScopeKept, HandlerOutside, Sealed
  <2>6. QED
    BY <2>1, <2>2, <2>3, <2>4, <2>5, Zenon
<1>12. ASSUME NEW t \in Workers, Exit(t)
      PROVE  LcInv'
  <2> USE <1>12 DEF Exit, At, Goto
  <2>1. LcTypeOK'
    BY ExitStepNames DEF LcTypeOK, HandlerOutside, Sealed
  <2>2. BuiltOnce'
    BY ExitStepNames, WorkersAssumption DEF LcTypeOK, BuiltOnce
  <2>3. \A u \in Workers : ScopeKept(u)'
    BY ExitStepNames DEF LcTypeOK, BuiltOnce, ScopeKept
  <2>4. \A u \in Workers : ReleaseIsLast(u)'
    BY ExitStepNames DEF LcTypeOK, ReleaseIsLast
  <2>5. \A u \in Workers : HandlerOutside(u)'
    BY ExitStepNames DEF LcTypeOK, BuiltOnce, ScopeKept, HandlerOutside, Sealed
  <2>6. QED
    BY <2>1, <2>2, <2>3, <2>4, <2>5, Zenon
<1>13. ASSUME NEW t \in Workers, ExitLock(t)
      PROVE  LcInv'
  <2> USE <1>13 DEF ExitLock, At, Goto
  <2>1. LcTypeOK'
    BY ExitStepNames DEF LcTypeOK, HandlerOutside, Sealed
  <2>2. BuiltOnce'
    BY ExitStepNames, WorkersAssumption DEF LcTypeOK, BuiltOnce
  <2>3. \A u \in Workers : ScopeKept(u)'
    BY ExitStepNames DEF LcTypeOK, BuiltOnce, ScopeKept
  <2>4. \A u \in Workers : ReleaseIsLast(u)'
    BY ExitStepNames DEF LcTypeOK, ReleaseIsLast
  <2>5. \A u \in Workers : HandlerOutside(u)'
    BY ExitStepNames DEF LcTypeOK, BuiltOnce, ScopeKept, HandlerOutside, Sealed
  <2>6. QED
    BY <2>1, <2>2, <2>3, <2>4, <2>5, Zenon
<1>14. ASSUME NEW t \in Workers, ExitStep(t)
      PROVE  LcInv'
  <2>e. pc[t] = "exit" /\ sig[t] = "none" /\ task[t] \in 1..5
    BY <1>14, ExitStepNames DEF ExitStep, At, LcTypeOK, HandlerOutside
  <2>f. /\ ExitSteps[task[t]] = "finish" <=> task[t] = 3
        /\ ExitSteps[task[t]] = "thread" <=> task[t] = 5
        /\ Len(ExitSteps) = 5
    BY <2>e, ExitStepNames, Zenon
  <2>0. /\ pc[t] = "exit" /\ sig[t] = "none" /\ task[t] \in 1..5
        /\ sigLock' = [sigLock EXCEPT ![t] = IF task[t] = 3 THEN @ ELSE @ - 1]
        /\ task' = [task EXCEPT ![t] = IF task[t] = 5 THEN @ ELSE @ + 1]
        /\ pc' = [pc EXCEPT ![t] = IF task[t] = 5 THEN "dead" ELSE "have"]
        /\ UNCHANGED <<initLock, initMutex, global, scopeKey, sig, built, exiting>>
    BY <1>14, <2>e, <2>f, Zenon DEF ExitStep, Goto
  <2>t. timer' = IF task[t] \in {3, 5} THEN [timer EXCEPT ![t] = IF @ = "none" THEN @ ELSE "deleted"]
                                       ELSE timer
    BY <1>14, <2>f, Zenon DEF ExitStep, ClearTimer
  <2>l. scopeLog' = IF task[t] = 5 THEN [scopeLog EXCEPT ![t] = Append(@, "release")] ELSE scopeLog
    BY <1>14, <2>f, Zenon DEF ExitStep, Log
  <2>1. CASE task[t] = 5
    <3>1. LcTypeOK'
      BY <2>0, <2>t, <2>l, <2>1, ExitStepNames, SMTT(60) DEF LcTypeOK, HandlerOutside, Sealed
    <3>2. BuiltOnce'
      BY <2>0, <2>t, <2>l, <2>1, ExitStepNames, WorkersAssumption DEF LcTypeOK, BuiltOnce
    <3>3. \A u \in Workers : ScopeKept(u)'
      BY <2>0, <2>t, <2>l, <2>1, ExitStepNames DEF LcTypeOK, BuiltOnce, ScopeKept
    <3>4. \A u \in Workers : ReleaseIsLast(u)'
      BY <2>0, <2>t, <2>l, <2>1, ExitStepNames DEF LcTypeOK, ReleaseIsLast
    <3>5. \A u \in Workers : HandlerOutside(u)'
      BY <2>0, <2>t, <2>l, <2>1, ExitStepNames DEF LcTypeOK, BuiltOnce, ScopeKept, HandlerOutside, Sealed
    <3>6. QED
      BY <3>1, <3>2, <3>3, <3>4, <3>5, Zenon
  <2>2. CASE task[t] # 5
    <3>1. LcTypeOK'
      BY <2>0, <2>t, <2>l, <2>2, ExitStepNames DEF LcTypeOK, HandlerOutside, Sealed
    <3>2. BuiltOnce'
      BY <2>0, <2>t, <2>l, <2>2, ExitStepNames, WorkersAssumption DEF LcTypeOK, BuiltOnce
    <3>3. \A u \in Workers : ScopeKept(u)'
      BY <2>0, <2>t, <2>l, <2>2, ExitStepNames DEF LcTypeOK, BuiltOnce, ScopeKept
    <3>4. \A u \in Workers : ReleaseIsLast(u)'
      BY <2>0, <2>t, <2>l, <2>2, ExitStepNames DEF LcTypeOK, ReleaseIsLast
    <3>5. \A u \in Workers : HandlerOutside(u)'
      BY <2>0, <2>t, <2>l, <2>2, ExitStepNames, SMTT(30) DEF LcTypeOK, BuiltOnce, ScopeKept, HandlerOutside, Sealed
    <3>6. QED
      BY <3>1, <3>2, <3>3, <3>4, <3>5, Zenon
  <2>3. QED
    BY <2>1, <2>2, Zenon
<1>15. ASSUME NEW t \in Workers, Signal(t)
      PROVE  LcInv'
  <2> USE <1>15 DEF Signal, SigGoto
  <2>1. LcTypeOK'
    BY Zenon DEF LcTypeOK, HandlerOutside, Sealed
  <2>2. BuiltOnce'
    BY WorkersAssumption, Zenon DEF LcTypeOK, BuiltOnce
  <2>3. \A u \in Workers : ScopeKept(u)'
    BY Zenon DEF LcTypeOK, BuiltOnce, ScopeKept
  <2>4. \A u \in Workers : ReleaseIsLast(u)'
    BY DEF LcTypeOK, ReleaseIsLast
  <2>5. \A u \in Workers : HandlerOutside(u)'
    BY DEF LcTypeOK, BuiltOnce, ScopeKept, HandlerOutside, Sealed
  <2>6. QED
    BY <2>1, <2>2, <2>3, <2>4, <2>5, Zenon
<1>16. ASSUME NEW t \in Workers, SigsafeInstance(t)
      PROVE  LcInv'
  <2> USE <1>16 DEF SigsafeInstance, SigGoto
  <2>1. LcTypeOK'
    BY Zenon DEF LcTypeOK, HandlerOutside, Sealed
  <2>2. BuiltOnce'
    BY WorkersAssumption, Zenon DEF LcTypeOK, BuiltOnce
  <2>3. \A u \in Workers : ScopeKept(u)'
    BY Zenon DEF LcTypeOK, BuiltOnce, ScopeKept
  <2>4. \A u \in Workers : ReleaseIsLast(u)'
    BY DEF LcTypeOK, ReleaseIsLast
  <2>5. \A u \in Workers : HandlerOutside(u)'
    BY SMTT(30) DEF LcTypeOK, BuiltOnce, ScopeKept, HandlerOutside, Sealed
  <2>6. QED
    BY <2>1, <2>2, <2>3, <2>4, <2>5, Zenon
<1>17. ASSUME NEW t \in Workers, SigSnapshot(t)
      PROVE  LcInv'
  <2> USE <1>17 DEF SigSnapshot, SigGoto
  <2>1. LcTypeOK'
    BY DEF LcTypeOK, HandlerOutside, Sealed
  <2>2. BuiltOnce'
    BY WorkersAssumption, Zenon DEF LcTypeOK, BuiltOnce
  <2>3. \A u \in Workers : ScopeKept(u)'
    BY Zenon DEF LcTypeOK, BuiltOnce, ScopeKept
  <2>4. \A u \in Workers : ReleaseIsLast(u)'
    BY DEF LcTypeOK, ReleaseIsLast
  <2>5. \A u \in Workers : HandlerOutside(u)'
    BY DEF LcTypeOK, BuiltOnce, ScopeKept, HandlerOutside, Sealed
  <2>6. QED
    BY <2>1, <2>2, <2>3, <2>4, <2>5, Zenon
<1>18. ASSUME NEW t \in Workers, SigSnapshotDone(t)
      PROVE  LcInv'
  <2> USE <1>18 DEF SigSnapshotDone, SigGoto
  <2>1. LcTypeOK'
    BY DEF LcTypeOK, HandlerOutside, Sealed
  <2>2. BuiltOnce'
    BY WorkersAssumption, Zenon DEF LcTypeOK, BuiltOnce
  <2>3. \A u \in Workers : ScopeKept(u)'
    BY Zenon DEF LcTypeOK, BuiltOnce, ScopeKept
  <2>4. \A u \in Workers : ReleaseIsLast(u)'
    BY DEF LcTypeOK, ReleaseIsLast
  <2>5. \A u \in Workers : HandlerOutside(u)'
    BY SMTT(30) DEF LcTypeOK, BuiltOnce, ScopeKept, HandlerOutside, Sealed
  <2>6. QED
    BY <2>1, <2>2, <2>3, <2>4, <2>5, Zenon
<1>19. ASSUME NEW t \in Workers, SigReturn(t)
      PROVE  LcInv'
  <2> USE <1>19 DEF SigReturn, SigGoto
  <2>1. LcTypeOK'
    BY Zenon DEF LcTypeOK, HandlerOutside, Sealed
  <2>2. BuiltOnce'
    BY WorkersAssumption, Zenon DEF LcTypeOK, BuiltOnce
  <2>3. \A u \in Workers : ScopeKept(u)'
    BY Zenon DEF LcTypeOK, BuiltOnce, ScopeKept
  <2>4. \A u \in Workers : ReleaseIsLast(u)'
    BY DEF LcTypeOK, ReleaseIsLast
  <2>5. \A u \in Workers : HandlerOutside(u)'
    BY DEF LcTypeOK, BuiltOnce, ScopeKept, HandlerOutside, Sealed
  <2>6. QED
    BY <2>1, <2>2, <2>3, <2>4, <2>5, Zenon
<1>20. CASE UNCHANGED lcVars
  <2> USE <1>20 DEF lcVars
  <2>1. LcTypeOK'
    BY Zenon DEF LcTypeOK, HandlerOutside, Sealed
  <2>2. BuiltOnce'
    BY WorkersAssumption, Zenon DEF LcTypeOK, BuiltOnce
  <2>3. \A u \in Workers : ScopeKept(u)'
    BY Zenon DEF LcTypeOK, BuiltOnce, ScopeKept
  <2>4. \A u \in Workers : ReleaseIsLast(u)'
    BY DEF LcTypeOK, ReleaseIsLast
  <2>5. \A u \in Workers : HandlerOutside(u)'
    BY Zenon DEF LcTypeOK, BuiltOnce, ScopeKept, HandlerOutside, Sealed
  <2>6. QED
    BY <2>1, <2>2, <2>3, <2>4, <2>5, Zenon
<1>21. QED
  BY <1>1, <1>2, <1>3, <1>4, <1>5, <1>6, <1>7, <1>8, <1>9, <1>10, <1>11, <1>12, <1>13, <1>14,
     <1>15, <1>16, <1>17, <1>18, <1>19, <1>20, Zenon DEF LcNext, InLibrary, InHandler

(* The start of the program.                                               *)
LEMMA LcInitially == LcInit => LcInv
<1> SUFFICES ASSUME LcInit
             PROVE  LcInv
  BY Zenon
<1>1. LcTypeOK
  BY ExitStepNames DEF LcInit, LcTypeOK
<1>2. BuiltOnce
  BY WorkersAssumption DEF LcInit, BuiltOnce
<1>3. \A t \in Workers : ScopeKept(t)
  BY Zenon DEF LcInit, ScopeKept
<1>4. \A t \in Workers : ReleaseIsLast(t)
  <2>1. \A t \in Workers : scopeLog[t] = << >>
    BY Zenon DEF LcInit
  <2>2. \A s : s = << >> => DOMAIN s = {}
    OBVIOUS
  <2>3. \A t \in Workers : DOMAIN scopeLog[t] = {}
    BY <2>1, <2>2, Zenon
  <2>4. QED
    BY <2>3, Zenon DEF ReleaseIsLast
<1>5. \A t \in Workers : HandlerOutside(t)
  BY Zenon DEF LcInit, HandlerOutside, Sealed
<1>6. QED
  BY <1>1, <1>2, <1>3, <1>4, <1>5, Zenon DEF LcInv

(* For any number of threads, however they race for the first instance,    *)
(* nest calls, end or exit, and whenever the timer interrupts them: the    *)
(* sampler's handler takes a snapshot only outside of the construction of  *)
(* the runtime, the creation of a scope and the sections that hold the     *)
(* signal lock (sigsafe_instance, Caliper.cpp:1376).                       *)
THEOREM HandlerNeverReenters == LcSpec => []NoReentry
<1>1. LcInv => NoReentry
  BY WorkersAssumption DEF LcInv, LcTypeOK, NoReentry, HandlerOutside, Sealed, BuiltOnce, ScopeKept
<1>2. QED
  BY <1>1, LcInitially, LcInductive, PTL DEF LcSpec

(* The global data is built once, an instance always has complete data and *)
(* its thread's scope, and a scope is released once and takes its timer    *)
(* along (Caliper::instance, release_thread, exit_handler).                *)
THEOREM ScopesAlwaysSound == LcSpec => []ScopesSound
<1>1. LcInv => ScopesSound
  <2> SUFFICES ASSUME LcInv
               PROVE  ScopesSound
    BY Zenon
  <2>1. InstanceComplete
    BY DEF LcInv, LcTypeOK, BuiltOnce, ScopeKept, InstanceComplete
  <2>2. ScopeReleasedOnce
    BY Zenon DEF LcInv, LcTypeOK, ScopeKept, ReleaseIsLast, ScopeReleasedOnce
  <2>3. QED
    BY <2>1, <2>2, Zenon DEF ScopesSound
<1>2. QED
  BY <1>1, LcInitially, LcInductive, PTL DEF LcSpec
-----------------------------------------------------------------------------
(* The shared object behind annotations.                                   *)

AttrTypes == Types \cup {"double"}
CallRecord == [at : {"idle", "detach", "load", "cas", "apply"},
               op : {"none", "begin", "set", "end", "guard"},
               type : AttrTypes \cup {"none"}, new : AttrTypes \cup {"none"}]

(* The references to the Impl: the handles and guards of every thread,     *)
(* numbered.  The counter is the size of this set.                         *)
RefsOf(h) == UNION {{t} \X (1..h[t]) : t \in Users}
Refs == RefsOf([t \in Users |-> Held(t)])

AoTypeOK ==
  /\ count \in Nat /\ deleted \in Nat /\ aoRaced \in BOOLEAN
  /\ attrPtr \in AttrTypes \cup {"null"} /\ nameType \in AttrTypes \cup {"none"}
  /\ handles \in [Users -> Nat] /\ guards \in [Users -> Nat]
  /\ call \in [Users -> CallRecord]
  /\ open \in [Users -> Seq(AttrTypes)]

(* m_refcount counts the references.                                       *)
Counted == IsFiniteSet(Refs) /\ count = Cardinality(Refs)

(* A thread inside a call holds the object it calls.                       *)
CallHolds(t) ==
  call[t].at \in {"load", "cas", "apply"} =>
    /\ call[t].op # "none"
    /\ IF call[t].op = "guard" THEN guards[t] > 0 ELSE handles[t] > 0
    /\ call[t].op \in {"begin", "set"} <=> call[t].type # "none"

(* Whoever drops the last reference deletes the Impl, and only they do     *)
(* unless detach() is run by two threads at once.                          *)
Detaching == {t \in Users : InCall(t, "detach")}
DeletedLast ==
  /\ deleted > 0 => count = 0
  /\ count = 0 => deleted > 0 \/ Detaching # {}
  /\ \A t, u \in Detaching : t # u => aoRaced
  /\ deleted > 0 /\ Detaching # {} => aoRaced
  /\ deleted > 1 => aoRaced

(* What get_attribute found is the one attribute of the name.              *)
FoundType(t) ==
  /\ call[t].at = "cas" => call[t].new = nameType /\ nameType # "none"
  /\ call[t].at = "apply" /\ call[t].op \in {"begin", "set"} =>
       call[t].new = nameType /\ nameType # "none"
TypeFixed ==
  /\ attrPtr # "null" => attrPtr = nameType
  /\ \A t \in Users : FoundType(t)
  /\ nameType = "none" => \A t \in Users : open[t] = <<>>

AoInv ==
  /\ AoTypeOK /\ Counted /\ (\A t \in Users : CallHolds(t))
  /\ DeletedLast /\ TypeFixed /\ OneType

LEMMA RefsMember ==
  ASSUME NEW h \in [Users -> Nat], NEW p
  PROVE  p \in RefsOf(h) <=> \E t \in Users, i \in Nat : i \in 1..h[t] /\ p = <<t, i>>
BY DEF RefsOf

LEMMA RefAdded ==
  ASSUME NEW h \in [Users -> Nat], NEW u \in Users, IsFiniteSet(RefsOf(h)),
         NEW g \in [Users -> Nat], g = [h EXCEPT ![u] = @ + 1]
  PROVE  IsFiniteSet(RefsOf(g)) /\ Cardinality(RefsOf(g)) = Cardinality(RefsOf(h)) + 1
<1>0. PICK p : p = <<u, h[u] + 1>>
  BY Zenon
<1>1. p \notin RefsOf(h)
  BY <1>0, RefsMember
<1>2. RefsOf(g) = RefsOf(h) \cup {p}
  <2>1. ASSUME NEW x \in RefsOf(g)
        PROVE  x \in RefsOf(h) \cup {p}
    <3>1. PICK t \in Users, i \in Nat : i \in 1..g[t] /\ x = <<t, i>>
      BY <2>1, RefsMember, ZenonT(60)
    <3>2. i \in 1..h[t] \/ (t = u /\ i = h[u] + 1)
      BY <3>1
    <3>3. QED
      BY <1>0, <3>1, <3>2, RefsMember, Zenon
  <2>2. ASSUME NEW x \in RefsOf(h) \cup {p}
        PROVE  x \in RefsOf(g)
    <3>1. \E t \in Users, i \in Nat : i \in 1..g[t] /\ x = <<t, i>>
      <4>1. CASE x = p
        BY <1>0, <4>1
      <4>2. CASE x \in RefsOf(h)
        <5>1. PICK t \in Users, i \in Nat : i \in 1..h[t] /\ x = <<t, i>>
          BY <4>2, RefsMember
        <5>2. i \in 1..g[t]
          BY <5>1
        <5>3. QED
          BY <5>1, <5>2, Zenon
      <4>3. QED
        BY <2>2, <4>1, <4>2, Zenon
    <3>2. QED
      BY <3>1, RefsMember, Zenon
  <2>3. QED
    BY <2>1, <2>2, Zenon
<1>3. IsFiniteSet(RefsOf(h) \cup {p}) /\ Cardinality(RefsOf(h) \cup {p}) = Cardinality(RefsOf(h)) + 1
  BY <1>1, FS_AddElement, Zenon
<1>4. QED
  BY <1>2, <1>3, Zenon

LEMMA RefRemoved ==
  ASSUME NEW h \in [Users -> Nat], NEW u \in Users, IsFiniteSet(RefsOf(h)), h[u] > 0,
         NEW g \in [Users -> Nat], g = [h EXCEPT ![u] = @ - 1]
  PROVE  IsFiniteSet(RefsOf(g)) /\ Cardinality(RefsOf(g)) = Cardinality(RefsOf(h)) - 1
<1>1. h = [g EXCEPT ![u] = @ + 1]
  <2>1. \A t \in Users : h[t] = [g EXCEPT ![u] = @ + 1][t]
    OBVIOUS
  <2>2. QED
    BY <2>1, Zenon
<1>2. IsFiniteSet(RefsOf(g))
  <2>1. RefsOf(g) \in SUBSET RefsOf(h)
    <3>1. ASSUME NEW x \in RefsOf(g)
          PROVE  x \in RefsOf(h)
      <4>1. PICK t \in Users, i \in Nat : i \in 1..g[t] /\ x = <<t, i>>
        BY <3>1, RefsMember, ZenonT(60)
      <4>2. i \in 1..h[t]
        BY <4>1
      <4>3. QED
        BY <4>1, <4>2, RefsMember, Zenon
    <3>2. QED
      BY <3>1, Zenon
  <2>2. QED
    BY <2>1, FS_Subset, Zenon
<1>3. Cardinality(RefsOf(h)) = Cardinality(RefsOf(g)) + 1
  BY <1>1, <1>2, RefAdded, Zenon
<1>4. QED
  BY <1>2, <1>3, FS_CardinalityType

(* A thread that holds a reference keeps the counter above zero.           *)
LEMMA HeldCounts ==
  ASSUME AoTypeOK, Counted, NEW t \in Users, handles[t] > 0 \/ guards[t] > 0
  PROVE  count > 0
<1>1. [u \in Users |-> Held(u)] \in [Users -> Nat]
  BY DEF AoTypeOK, CallRecord, Held
<1>2. 1 \in 1..Held(t)
  BY DEF AoTypeOK, CallRecord, Held
<1>3. <<t, 1>> \in Refs
  BY <1>1, <1>2, RefsMember, Zenon DEF Refs
<1>4. QED
  BY <1>3, FS_EmptySet, FS_CardinalityType DEF Counted, AoTypeOK, CallRecord
LEMMA AoInitially == AoInit => AoInv
<1> SUFFICES ASSUME AoInit
             PROVE  AoInv
  BY Zenon
<1>1. PICK t \in Users : handles = [u \in Users |-> IF u = t THEN 1 ELSE 0]
  BY Zenon DEF AoInit
<1>2. AoTypeOK
  <2>1. open \in [Users -> Seq(AttrTypes)]
    BY DEF AoInit
  <2>2. call \in [Users -> CallRecord]
    BY Zenon DEF AoInit, IdleCall, CallRecord
  <2>3. handles \in [Users -> Nat] /\ guards \in [Users -> Nat]
    BY <1>1, Zenon DEF AoInit
  <2>4. QED
    BY <2>1, <2>2, <2>3, Zenon DEF AoInit, AoTypeOK, CallRecord
<1>3. Counted
  <2>1. PICK h \in [Users -> Nat] : h = [u \in Users |-> 0]
    BY Zenon
  <2>2. [u \in Users |-> Held(u)] = [h EXCEPT ![t] = @ + 1]
    BY <1>1, <2>1 DEF AoInit, Held
  <2>3. RefsOf(h) = {}
    BY <2>1, RefsMember
  <2>4. PICK g : g = [h EXCEPT ![t] = @ + 1]
    BY Zenon
  <2>5. g \in [Users -> Nat]
    BY <2>1, <2>4
  <2>6. IsFiniteSet(RefsOf(h)) /\ Cardinality(RefsOf(h)) = 0
    BY <2>3, FS_EmptySet, Zenon
  <2>7. IsFiniteSet(RefsOf(g)) /\ Cardinality(RefsOf(g)) = Cardinality(RefsOf(h)) + 1
    BY <2>4, <2>5, <2>6, RefAdded, Zenon
  <2>8. QED
    BY <2>2, <2>4, <2>6, <2>7 DEF Counted, Refs, AoInit
<1>4. (\A u \in Users : CallHolds(u)) /\ DeletedLast /\ TypeFixed /\ OneType
  BY TypesAssumption DEF AoInit, CallHolds, DeletedLast, Detaching, InCall, IdleCall,
     TypeFixed, FoundType, OneType
<1>5. QED
  BY <1>2, <1>3, <1>4, Zenon DEF AoInv

(* What adding or dropping a reference does to the count.                  *)
LEMMA CountedUp ==
  ASSUME AoTypeOK, AoTypeOK', Counted, NEW u \in Users, count' = count + 1,
         \/ handles' = [handles EXCEPT ![u] = @ + 1] /\ guards' = guards
         \/ guards' = [guards EXCEPT ![u] = @ + 1] /\ handles' = handles
  PROVE  Counted'
<1>1. PICK h : h = [t \in Users |-> Held(t)]
  BY Zenon
<1>2. PICK g : g = [t \in Users |-> Held(t)]'
  BY Zenon
<1>0. /\ handles \in [Users -> Nat] /\ guards \in [Users -> Nat]
      /\ handles' \in [Users -> Nat] /\ guards' \in [Users -> Nat]
  BY Zenon DEF AoTypeOK, CallRecord
<1>3. h \in [Users -> Nat] /\ g \in [Users -> Nat]
  BY <1>0, <1>1, <1>2 DEF Held
<1>4. g = [h EXCEPT ![u] = @ + 1]
  <2>1. \A t \in Users : g[t] = [h EXCEPT ![u] = @ + 1][t]
    BY <1>0, <1>1, <1>2 DEF Held
  <2>2. QED
    BY <1>3, <2>1, Zenon
<1>5. IsFiniteSet(RefsOf(h)) /\ count = Cardinality(RefsOf(h))
  BY <1>1, Zenon DEF Counted, Refs
<1>6. IsFiniteSet(RefsOf(g)) /\ count' = Cardinality(RefsOf(g))
  BY <1>3, <1>4, <1>5, RefAdded, Zenon
<1>7. QED
  BY <1>2, <1>6, Zenon DEF Counted, Refs, RefsOf

LEMMA CountedDown ==
  ASSUME AoTypeOK, AoTypeOK', Counted, NEW u \in Users, count' = count - 1,
         \/ handles[u] > 0 /\ handles' = [handles EXCEPT ![u] = @ - 1] /\ guards' = guards
         \/ guards[u] > 0 /\ guards' = [guards EXCEPT ![u] = @ - 1] /\ handles' = handles
  PROVE  Counted'
<1>1. PICK h : h = [t \in Users |-> Held(t)]
  BY Zenon
<1>2. PICK g : g = [t \in Users |-> Held(t)]'
  BY Zenon
<1>0. /\ handles \in [Users -> Nat] /\ guards \in [Users -> Nat]
      /\ handles' \in [Users -> Nat] /\ guards' \in [Users -> Nat]
  BY Zenon DEF AoTypeOK, CallRecord
<1>3. h \in [Users -> Nat] /\ g \in [Users -> Nat]
  BY <1>0, <1>1, <1>2 DEF Held
<1>4. g = [h EXCEPT ![u] = @ - 1] /\ h[u] > 0
  <2>1. \A t \in Users : g[t] = [h EXCEPT ![u] = @ - 1][t]
    BY <1>0, <1>1, <1>2 DEF Held
  <2>2. h[u] > 0
    BY <1>0, <1>1 DEF Held
  <2>3. QED
    BY <1>3, <2>1, <2>2, Zenon
<1>5. IsFiniteSet(RefsOf(h)) /\ count = Cardinality(RefsOf(h))
  BY <1>1, Zenon DEF Counted, Refs
<1>6. IsFiniteSet(RefsOf(g)) /\ count' = Cardinality(RefsOf(g))
  BY <1>3, <1>4, <1>5, RefRemoved, Zenon
<1>7. QED
  BY <1>2, <1>6, Zenon DEF Counted, Refs, RefsOf

LEMMA CountedSame ==
  ASSUME Counted, UNCHANGED <<count, handles, guards>>
  PROVE  Counted'
BY Zenon DEF Counted, Refs, RefsOf, Held
(* The actions, one by one.                                                *)
LEMMA CopyKeeps ==
  ASSUME AoInv, NEW t \in Users, NEW u \in Users, CopyTo(t, u)
  PROVE  AoInv'
<1>1. AoTypeOK'
  BY DEF AoInv, CopyTo, AoTypeOK, CallRecord
<1>2. Counted'
  BY <1>1, CountedUp, Zenon DEF AoInv, CopyTo
<1>3. \A v \in Users : CallHolds(v)'
  BY <1>1 DEF AoInv, CopyTo, CallHolds, AoTypeOK, CallRecord
<1>4. DeletedLast'
  <2>1. count > 0
    BY HeldCounts, Zenon DEF AoInv, CopyTo
  <2>2. QED
    BY <2>1 DEF AoInv, CopyTo, DeletedLast, Detaching, InCall, AoTypeOK, CallRecord
<1>5. TypeFixed' /\ OneType'
  BY Zenon DEF AoInv, CopyTo, TypeFixed, FoundType, OneType
<1>6. QED
  BY <1>1, <1>2, <1>3, <1>4, <1>5, Zenon DEF AoInv

LEMMA GuardKeeps ==
  ASSUME AoInv, NEW t \in Users, MakeGuard(t)
  PROVE  AoInv'
<1>1. AoTypeOK'
  BY DEF AoInv, MakeGuard, AoTypeOK, CallRecord
<1>2. Counted'
  BY <1>1, CountedUp, Zenon DEF AoInv, MakeGuard
<1>3. \A v \in Users : CallHolds(v)'
  BY <1>1, SMTT(60) DEF AoInv, MakeGuard, CallHolds, AoTypeOK, CallRecord
<1>4. DeletedLast'
  <2>1. count > 0
    BY HeldCounts, Zenon DEF AoInv, MakeGuard
  <2>2. QED
    BY <2>1 DEF AoInv, MakeGuard, DeletedLast, Detaching, InCall, AoTypeOK, CallRecord
<1>5. TypeFixed' /\ OneType'
  BY Zenon DEF AoInv, MakeGuard, TypeFixed, FoundType, OneType
<1>6. QED
  BY <1>1, <1>2, <1>3, <1>4, <1>5, Zenon DEF AoInv

(* A thread that has dropped a reference is in detach().                   *)
LEMMA Detached ==
  ASSUME AoTypeOK, DeletedLast, NEW t \in Users, count > 0, Decrement, deleted' = deleted,
         call[t].at # "detach",
         call' = [call EXCEPT ![t] = [IdleCall EXCEPT !.at = "detach"]]
  PROVE  DeletedLast'
<1>1. Detaching' = Detaching \cup {t}
  BY Zenon DEF Detaching, InCall, IdleCall, AoTypeOK, CallRecord
<1>2. aoRaced' <=> aoRaced \/ Detaching # {}
  BY Zenon DEF Decrement, Detaching, AoTypeOK, CallRecord
<1>3. deleted = 0
  BY DEF DeletedLast, AoTypeOK, CallRecord
<1>4. QED
  BY <1>1, <1>2, <1>3 DEF DeletedLast

LEMMA DropKeeps ==
  ASSUME AoInv, NEW t \in Users, DropHandle(t)
  PROVE  AoInv'
<1>0. count > 0
  BY HeldCounts, Zenon DEF AoInv, DropHandle
<1>1. AoTypeOK'
  <2>1. handles' \in [Users -> Nat] /\ count' \in Nat /\ aoRaced' \in BOOLEAN
    BY <1>0 DEF AoInv, DropHandle, AoTypeOK, CallRecord, Decrement
  <2>2. call' \in [Users -> CallRecord]
    BY Zenon DEF AoInv, DropHandle, AoTypeOK, CallRecord, Step, IdleCall
  <2>3. QED
    BY <2>1, <2>2, Zenon DEF AoInv, DropHandle, AoTypeOK, CallRecord
<1>2. Counted'
  BY <1>1, CountedDown, Zenon DEF AoInv, DropHandle, Decrement
<1>3. \A v \in Users : CallHolds(v)'
  BY <1>1 DEF AoInv, DropHandle, Step, IdleCall, InCall, CallHolds, AoTypeOK, CallRecord
<1>4. DeletedLast'
  BY <1>0, Detached, Zenon DEF AoInv, DropHandle, Step, InCall
<1>5. TypeFixed' /\ OneType'
  BY Zenon DEF AoInv, AoTypeOK, CallRecord, DropHandle, Step, IdleCall, TypeFixed, FoundType, OneType
<1>6. QED
  BY <1>1, <1>2, <1>3, <1>4, <1>5, Zenon DEF AoInv

LEMMA ReadKeeps ==
  ASSUME AoInv, NEW t \in Users, DetachRead(t)
  PROVE  AoInv'
<1>0. /\ call' = [call EXCEPT ![t] = IdleCall] /\ t \in Detaching
      /\ UNCHANGED <<count, attrPtr, nameType, handles, guards, open, aoRaced>>
  BY Zenon DEF DetachRead, Step, Detaching
<1>1. \/ deleted > 0 /\ (deleted' = deleted \/ deleted' = deleted + 1)
      \/ deleted = 0 /\ count = 0 /\ deleted' = 1
      \/ deleted = 0 /\ count # 0 /\ deleted' = 0
  <2>1. PICK zero \in IF deleted > 0 THEN BOOLEAN ELSE {count = 0} :
          deleted' = IF zero THEN deleted + 1 ELSE deleted
    BY Zenon DEF DetachRead
  <2>2. CASE deleted > 0
    BY <2>1, <2>2, Zenon
  <2>3. CASE deleted = 0
    <3>0. ~(deleted > 0)
      BY <2>3
    <3>1. zero <=> count = 0
      BY <2>1, <3>0, Zenon
    <3>2. QED
      BY <2>1, <2>3, <3>1
  <2>4. QED
    BY <2>2, <2>3 DEF AoInv, AoTypeOK, CallRecord
<1>2. AoTypeOK'
  BY <1>0, <1>1, SMTT(60) DEF AoInv, AoTypeOK, CallRecord, IdleCall
<1>3. Counted'
  BY <1>0, CountedSame, Zenon DEF AoInv
<1>4. \A v \in Users : CallHolds(v)'
  BY <1>0, Zenon DEF AoInv, IdleCall, CallHolds, AoTypeOK, CallRecord
<1>5. DeletedLast'
  <2>1. Detaching' = Detaching \ {t}
    BY <1>0, Zenon DEF Detaching, InCall, IdleCall, AoInv, AoTypeOK, CallRecord
  <2>2. QED
    BY <1>0, <1>1, <2>1 DEF DeletedLast, AoInv, AoTypeOK, CallRecord
<1>6. TypeFixed' /\ OneType'
  BY <1>0, Zenon DEF AoInv, AoTypeOK, CallRecord, IdleCall, TypeFixed, FoundType, OneType
<1>7. QED
  BY <1>2, <1>3, <1>4, <1>5, <1>6, Zenon DEF AoInv
(* A step inside a call that moves no reference.                           *)
LEMMA CallStep ==
  ASSUME AoInv, NEW t \in Users, NEW c \in CallRecord, call' = [call EXCEPT ![t] = c],
         call[t].at # "detach", c.at # "detach",
         UNCHANGED <<count, deleted, handles, guards, aoRaced>>
  PROVE  DeletedLast' /\ Counted'
<1>1. Counted'
  BY CountedSame, Zenon DEF AoInv
<1>2. Detaching' = Detaching
  BY Zenon DEF Detaching, InCall, AoInv, AoTypeOK, CallRecord
<1>3. QED
  BY <1>1, <1>2, Zenon DEF DeletedLast, AoInv

LEMMA BeginKeeps ==
  ASSUME AoInv, NEW t \in Users, NEW op \in {"begin", "set"}, NEW type \in Types,
         CallBegin(t, op, type)
  PROVE  AoInv'
<1>0. PICK c : c = [at |-> "load", op |-> op, type |-> Converted(type), new |-> "none"]
  BY Zenon
<1>1. /\ call' = [call EXCEPT ![t] = c] /\ call[t].at = "idle" /\ handles[t] > 0
      /\ UNCHANGED <<count, deleted, attrPtr, nameType, handles, guards, open, aoRaced>>
  BY <1>0, Zenon DEF CallBegin, Step, InCall
<1>2. /\ c \in CallRecord /\ c.at = "load" /\ c.op \in {"begin", "set"} /\ c.type # "none"
  BY <1>0, TypesAssumption, Zenon DEF CallRecord, Converted, AttrTypes
<1>3. AoTypeOK'
  BY <1>1, <1>2, Zenon DEF AoInv, AoTypeOK, CallRecord
<1>4. DeletedLast' /\ Counted'
  BY <1>1, <1>2, CallStep, Zenon
<1>5. \A v \in Users : CallHolds(v)'
  BY <1>1, <1>2, ZenonT(60) DEF AoInv, AoTypeOK, CallRecord, CallHolds
<1>6. TypeFixed' /\ OneType'
  BY <1>1, <1>2, ZenonT(60) DEF AoInv, AoTypeOK, CallRecord, TypeFixed, FoundType, OneType
<1>7. QED
  BY <1>3, <1>4, <1>5, <1>6, Zenon DEF AoInv

LEMMA EndKeeps ==
  ASSUME AoInv, NEW t \in Users, NEW op \in {"end", "guard"}, CallEnd(t, op)
  PROVE  AoInv'
<1>0. PICK c : c = [at |-> "load", op |-> op, type |-> "none", new |-> "none"]
  BY Zenon
<1>1. /\ call' = [call EXCEPT ![t] = c] /\ call[t].at = "idle"
      /\ IF op = "end" THEN handles[t] > 0 ELSE guards[t] > 0
      /\ UNCHANGED <<count, deleted, attrPtr, nameType, handles, guards, open, aoRaced>>
  BY <1>0, Zenon DEF CallEnd, Step, InCall
<1>2. c \in CallRecord /\ c.at = "load" /\ c.op = op /\ c.type = "none"
  BY <1>0, Zenon DEF CallRecord
<1>3. AoTypeOK'
  BY <1>1, <1>2, Zenon DEF AoInv, AoTypeOK, CallRecord
<1>4. DeletedLast' /\ Counted'
  BY <1>1, <1>2, CallStep, Zenon
<1>5. \A v \in Users : CallHolds(v)'
  BY <1>1, <1>2, ZenonT(60) DEF AoInv, AoTypeOK, CallRecord, CallHolds
<1>6. TypeFixed' /\ OneType'
  BY <1>1, <1>2 DEF AoInv, AoTypeOK, CallRecord, TypeFixed, FoundType, OneType
<1>7. QED
  BY <1>3, <1>4, <1>5, <1>6, Zenon DEF AoInv

LEMMA GetKeeps ==
  ASSUME AoInv, NEW t \in Users, GetAttribute(t)
  PROVE  AoInv'
<1>0. PICK c : c = [call[t] EXCEPT !.at = IF attrPtr # "null" \/ nameType' = "none"
                                            THEN "apply" ELSE "cas",
                                   !.new = IF attrPtr # "null" THEN attrPtr ELSE nameType']
  BY Zenon
<1>1. /\ call' = [call EXCEPT ![t] = c] /\ call[t].at = "load"
      /\ nameType' = IF attrPtr = "null" /\ nameType = "none" THEN call[t].type ELSE nameType
      /\ UNCHANGED <<count, deleted, attrPtr, handles, guards, open, aoRaced>>
  BY <1>0, Zenon DEF GetAttribute, Step, InCall
<1>2. call[t] \in CallRecord /\ nameType' \in AttrTypes \cup {"none"}
  BY <1>1, Zenon DEF AoInv, AoTypeOK, CallRecord
<1>3. /\ c \in CallRecord /\ c.op = call[t].op /\ c.type = call[t].type
      /\ c.at = IF attrPtr # "null" \/ nameType' = "none" THEN "apply" ELSE "cas"
      /\ c.new = IF attrPtr # "null" THEN attrPtr ELSE nameType'
  BY <1>0, <1>2, Zenon DEF AoInv, AoTypeOK, CallRecord
<1>4. AoTypeOK'
  BY <1>1, <1>2, <1>3, Zenon DEF AoInv, AoTypeOK, CallRecord
<1>5. DeletedLast' /\ Counted'
  BY <1>1, <1>3, CallStep, Zenon
<1>6. \A v \in Users : CallHolds(v)'
  BY <1>1, <1>3, SMTT(60) DEF AoInv, AoTypeOK, CallRecord, CallHolds
<1>7. nameType # "none" => nameType' = nameType
  BY <1>1, Zenon
<1>8. attrPtr # "null" => attrPtr = nameType' /\ nameType' # "none"
  BY <1>1, TypesAssumption, Zenon DEF AoInv, AoTypeOK, CallRecord, TypeFixed, AttrTypes
<1>9. FoundType(t)'
  BY <1>1, <1>3, <1>8, Zenon DEF AoInv, AoTypeOK, CallRecord, FoundType, CallHolds
<1>10. TypeFixed'
  BY <1>1, <1>7, <1>8, <1>9, Zenon DEF AoInv, AoTypeOK, CallRecord, TypeFixed, FoundType
<1>11. OneType'
  <2>1. CASE nameType = "none"
    BY <1>1, <2>1 DEF AoInv, AoTypeOK, CallRecord, TypeFixed, OneType
  <2>2. CASE nameType # "none"
    BY <1>1, <1>7, <2>2, Zenon DEF AoInv, OneType
  <2>3. QED
    BY <2>1, <2>2, Zenon
<1>12. QED
  BY <1>4, <1>5, <1>6, <1>10, <1>11, Zenon DEF AoInv

LEMMA StoreKeeps ==
  ASSUME AoInv, NEW t \in Users, StoreAttribute(t)
  PROVE  AoInv'
<1>0. PICK c : c = [call[t] EXCEPT !.at = "apply", !.new = attrPtr']
  BY Zenon
<1>1. /\ call' = [call EXCEPT ![t] = c] /\ call[t].at = "cas"
      /\ attrPtr' = IF attrPtr = "null" THEN call[t].new ELSE attrPtr
      /\ UNCHANGED <<count, deleted, nameType, handles, guards, open, aoRaced>>
  BY <1>0, Zenon DEF StoreAttribute, Step, InCall
<1>2. attrPtr' = nameType /\ nameType # "none" /\ nameType \in AttrTypes
  BY <1>1, Zenon DEF AoInv, AoTypeOK, CallRecord, TypeFixed, FoundType
<1>3. /\ c \in CallRecord /\ c.op = call[t].op /\ c.type = call[t].type
      /\ c.at = "apply" /\ c.new = nameType
  <2>1. call[t] \in CallRecord
    BY Zenon DEF AoInv, AoTypeOK, CallRecord
  <2>2. QED
    BY <1>0, <1>2, <2>1, Zenon DEF CallRecord
<1>4. AoTypeOK'
  BY <1>1, <1>2, <1>3, Zenon DEF AoInv, AoTypeOK, CallRecord
<1>5. DeletedLast' /\ Counted'
  BY <1>1, <1>3, CallStep, Zenon
<1>6. \A v \in Users : CallHolds(v)'
  BY <1>1, <1>3 DEF AoInv, AoTypeOK, CallRecord, CallHolds
<1>7. TypeFixed' /\ OneType'
  BY <1>1, <1>2, <1>3, ZenonT(60) DEF AoInv, AoTypeOK, CallRecord, TypeFixed, FoundType, OneType
<1>8. QED
  BY <1>4, <1>5, <1>6, <1>7, Zenon DEF AoInv
(* The call on the blackboard: what it leaves open has the one type.       *)
LEMMA ApplyOpens ==
  ASSUME AoInv, NEW t \in Users, Apply(t)
  PROVE  /\ open' \in [Users -> Seq(AttrTypes)] /\ OneType'
         /\ nameType = "none" => \A u \in Users : open'[u] = <<>>
<1>0. PICK s \in Seq(AttrTypes) : s = open[t]
  BY Zenon DEF AoInv, AoTypeOK
<1>1. PICK v : v = open'[t]
  BY Zenon
<1>2. open' = [open EXCEPT ![t] = v] /\ call[t].at = "apply" /\ nameType' = nameType
  BY <1>1, Zenon DEF Apply, InCall, AoInv, AoTypeOK
<1>3. \/ call[t].op \in {"begin", "set"} /\ v = s
      \/ call[t].op = "begin" /\ call[t].new = call[t].type /\ v = Append(s, call[t].type)
      \/ /\ call[t].op = "set" /\ call[t].new = call[t].type
         /\ v = SubSeq(s, 1, Len(s) - 1) \o <<call[t].type>>
      \/ call[t].op \in {"end", "guard"} /\ v = SubSeq(s, 1, Len(s) - 1)
  <2>1. open'[t] = CASE call[t].op = "begin" /\ Accepts(call[t].new, call[t].type) -> Append(s, call[t].type)
                     [] call[t].op = "set" /\ Accepts(call[t].new, call[t].type) ->
                          SubSeq(s, 1, Len(s) - 1) \o <<call[t].type>>
                     [] call[t].op \in {"end", "guard"} -> SubSeq(s, 1, Len(s) - 1)
                     [] OTHER -> s
    BY <1>0, Zenon DEF Apply, AoInv, AoTypeOK
  <2>2. call[t].op \in {"begin", "set", "end", "guard"}
    BY <1>2, Zenon DEF AoInv, AoTypeOK, CallHolds, CallRecord
  <2>3. QED
    BY <1>1, <2>1, <2>2, Zenon DEF Accepts
<1>4. call[t].op \in {"begin", "set"} => call[t].new = nameType /\ nameType # "none"
  BY <1>2, Zenon DEF AoInv, TypeFixed, FoundType
<1>5. nameType # "none" => nameType \in AttrTypes
  BY Zenon DEF AoInv, AoTypeOK
<1>6. \A i \in 1..Len(s) : s[i] = nameType
  BY <1>0, Zenon DEF AoInv, OneType
<1>7. v \in Seq(AttrTypes) /\ \A i \in 1..Len(v) : v[i] = nameType
  <2>1. SubSeq(s, 1, Len(s) - 1) \in Seq(AttrTypes)
         /\ \A i \in 1..Len(SubSeq(s, 1, Len(s) - 1)) : SubSeq(s, 1, Len(s) - 1)[i] = nameType
    BY <1>6
  <2>2. PICK r \in Seq(AttrTypes) : r = SubSeq(s, 1, Len(s) - 1)
    BY <2>1, Zenon
  <2>3. CASE v = Append(s, nameType) /\ nameType \in AttrTypes
    BY <1>6, <2>3
  <2>4. CASE v = r \o <<nameType>> /\ nameType \in AttrTypes
    BY <2>1, <2>2, <2>4
  <2>5. QED
    BY <1>3, <1>4, <1>5, <1>6, <2>1, <2>2, <2>3, <2>4, Zenon
<1>8. nameType = "none" => v = <<>>
  <2>1. nameType = "none" => s = <<>> /\ call[t].op \in {"end", "guard"}
    BY <1>0, <1>2, <1>3, <1>4, Zenon DEF AoInv, TypeFixed
  <2>2. SubSeq(<<>>, 1, Len(<<>>) - 1) = <<>>
    OBVIOUS
  <2>3. QED
    BY <1>3, <2>1, <2>2, Zenon
<1>9. QED
  BY <1>2, <1>7, <1>8, Zenon DEF AoInv, AoTypeOK, TypeFixed, OneType

LEMMA ApplyKeeps ==
  ASSUME AoInv, NEW t \in Users, Apply(t)
  PROVE  AoInv'
<1>1. PICK c : c = IF call[t].op = "guard" THEN [IdleCall EXCEPT !.at = "detach"] ELSE IdleCall
  BY Zenon
<1>2. /\ call[t].at = "apply" /\ call' = [call EXCEPT ![t] = c]
      /\ UNCHANGED <<deleted, attrPtr, nameType, handles>>
  BY <1>1, Zenon DEF Apply, Step, InCall
<1>3. c \in CallRecord /\ c.at \in {"idle", "detach"}
  BY <1>1, Zenon DEF IdleCall, CallRecord
<1>4. call[t].op # "guard" => UNCHANGED <<count, guards, aoRaced>>
  BY Zenon DEF Apply
<1>5. call[t].op = "guard" => /\ Decrement /\ guards[t] > 0 /\ count > 0
                              /\ guards' = [guards EXCEPT ![t] = @ - 1]
  BY <1>2, HeldCounts, Zenon DEF Apply, AoInv, CallHolds
<1>6. AoTypeOK'
  <2>0. aoRaced' \in BOOLEAN
    BY <1>4, <1>5, Zenon DEF AoInv, AoTypeOK, Decrement
  <2>1. count' \in Nat /\ guards' \in [Users -> Nat]
    BY <1>4, <1>5 DEF AoInv, AoTypeOK, Decrement
  <2>2. open' \in [Users -> Seq(AttrTypes)]
    BY ApplyOpens, Zenon
  <2>3. QED
    BY <1>2, <1>3, <2>0, <2>1, <2>2, Zenon DEF AoInv, AoTypeOK
<1>7. Counted'
  <2>1. CASE call[t].op = "guard"
    BY <1>2, <1>5, <1>6, <2>1, CountedDown, Zenon DEF AoInv, Decrement
  <2>2. CASE call[t].op # "guard"
    BY <1>2, <1>4, <2>2, CountedSame, Zenon DEF AoInv
  <2>3. QED
    BY <2>1, <2>2, Zenon
<1>8. \A v \in Users : CallHolds(v)'
  <2>1. \A v \in Users \ {t} : guards'[v] = guards[v] /\ handles'[v] = handles[v] /\ call'[v] = call[v]
    BY <1>2, <1>4, <1>5, Zenon DEF AoInv, AoTypeOK
  <2>2. call'[t] = c
    BY <1>2, Zenon DEF AoInv, AoTypeOK
  <2>3. QED
    BY <1>3, <2>1, <2>2, Zenon DEF AoInv, CallHolds
<1>9. DeletedLast'
  <2>1. CASE call[t].op = "guard"
    BY <1>1, <1>2, <1>5, <2>1, Detached, Zenon DEF AoInv
  <2>2. CASE call[t].op # "guard"
    <3>1. c.at # "detach"
      BY <1>1, <2>2, Zenon DEF IdleCall
    <3>2. QED
      BY <1>2, <1>3, <1>4, <2>2, <3>1, CallStep, Zenon
  <2>3. QED
    BY <2>1, <2>2, Zenon
<1>10. TypeFixed'
  BY <1>2, <1>3, ApplyOpens, Zenon DEF AoInv, AoTypeOK, TypeFixed, FoundType
<1>11. QED
  BY <1>6, <1>7, <1>8, <1>9, <1>10, ApplyOpens, Zenon DEF AoInv

LEMMA AoInductive == AoInv /\ [AoNext]_aoVars => AoInv'
<1> SUFFICES ASSUME AoInv, [AoNext]_aoVars
             PROVE  AoInv'
  BY Zenon
<1>1. CASE UNCHANGED aoVars
  <2>1. UNCHANGED <<count, deleted, attrPtr, nameType, handles, guards, call, open, aoRaced>>
    BY <1>1, Zenon DEF aoVars
  <2>2. Counted' /\ AoTypeOK'
    BY <2>1, CountedSame, Zenon DEF AoInv, AoTypeOK
  <2>3. QED
    BY <2>1, <2>2, Zenon DEF AoInv, CallHolds, DeletedLast, Detaching, InCall, TypeFixed, FoundType, OneType
<1>2. CASE AoNext
  BY <1>2, CopyKeeps, GuardKeeps, DropKeeps, ReadKeeps, BeginKeeps, EndKeeps, GetKeeps,
     StoreKeeps, ApplyKeeps, Zenon DEF AoNext
<1>3. QED
  BY <1>1, <1>2, Zenon

(* For any number of threads that copy, hand on, use and drop annotations  *)
(* and guards in any order: the shared Impl lives exactly as long as       *)
(* someone refers to it, it is deleted twice only if two threads overlap   *)
(* in detach(), and every value opened through it has the type of the one  *)
(* attribute (Annotation.cpp attach, detach, create_attribute).            *)
THEOREM AnnotationAlwaysSound == AoSpec => []AnnotationSound
<1>1. AoInv => AnnotationSound
  <2> SUFFICES ASSUME AoInv
               PROVE  AnnotationSound
    BY Zenon
  <2>1. ImplOutlivesHandles
    <3> SUFFICES ASSUME deleted > 0, NEW t \in Users
                 PROVE  Held(t) = 0 /\ call[t].at \in {"idle", "detach"}
      BY Zenon DEF ImplOutlivesHandles
    <3>1. count = 0
      BY Zenon DEF AoInv, DeletedLast
    <3>2. handles[t] = 0 /\ guards[t] = 0
      BY <3>1, HeldCounts DEF AoInv, AoTypeOK
    <3>3. call[t].at \notin {"load", "cas", "apply"}
      BY <3>2, SMTT(60) DEF AoInv, CallHolds
    <3>4. QED
      BY <3>2, <3>3 DEF Held, AoInv, AoTypeOK, CallRecord
  <2>2. ImplDeleted
    BY Zenon DEF AoInv, DeletedLast, Detaching, InCall, ImplDeleted
  <2>3. QED
    BY <2>1, <2>2, Zenon DEF AnnotationSound, AoInv
<1>2. QED
  BY <1>1, AoInitially, AoInductive, PTL DEF AoSpec
=============================================================================
