------------------------------ MODULE Lifecycle ------------------------------
(***************************************************************************)
(* The life cycle of the runtime (src/caliper/Caliper.cpp): construction   *)
(* of the global data by the first instance(), thread scopes created on    *)
(* first use and released by the destructor of the pthread key, the exit   *)
(* handler, the signal lock, and the signal handler of the sampler service *)
(* (src/services/sampler), which interrupts a thread between any two of    *)
(* its steps.                                                              *)
(*                                                                         *)
(* A thread is in the program (pc "out"), in instance(), in a call that    *)
(* has an instance, or in a section protected by the signal lock of its    *)
(* scope.  While its handler runs (sig[t] # "none") the thread itself does *)
(* not move; SIGPROF is blocked in its own handler.                        *)
(***************************************************************************)
EXTENDS Integers, Sequences

CONSTANTS Workers,  \* the threads of the program
          MaxNest   \* deepest nesting of calls from callbacks

ASSUME WorkersAssumption == "free" \notin Workers

VARIABLES initLock,  \* s_init_lock
          initMutex, \* holder of s_init_mutex, or "free"
          global,    \* sG: "null" or "live"
          scopeKey,  \* the thread-specific scope pointer
          sigLock,   \* the counter of each thread's siglock
          pc,        \* where the thread is
          task,      \* why it wanted an instance
          sig,       \* where its signal handler is
          sigAction, \* disposition of SIGPROF
          timer,     \* the sampling timer of each thread
          scopeLog,  \* history: scope events in the context of each thread
          built,     \* history: how often the global data was constructed
          exiting    \* the thread that called exit(), or "none"

lcVars == <<initLock, initMutex, global, scopeKey, sigLock, pc, task, sig,
            sigAction, timer, scopeLog, built, exiting>>

lcRest == <<initLock, initMutex, global, scopeKey, sigLock, task, sig,
            sigAction, timer, scopeLog, built, exiting>>

(* What the exit handler does with its instance, in order.                 *)
ExitSteps == <<"flush", "clear", "finish", "process", "thread">>

LcInit ==
  /\ initLock = 1 /\ initMutex = "free" /\ global = "null"
  /\ scopeKey = [t \in Workers |-> "null"]
  /\ sigLock = [t \in Workers |-> 0]
  /\ pc = [t \in Workers |-> "out"]
  /\ task = [t \in Workers |-> 0]
  /\ sig = [t \in Workers |-> "none"]
  /\ sigAction = "default"
  /\ timer = [t \in Workers |-> "none"]
  /\ scopeLog = [t \in Workers |-> <<>>]
  /\ built = 0
  /\ exiting = "none"

At(t, l) == pc[t] = l /\ sig[t] = "none"

Goto(t, l) == pc' = [pc EXCEPT ![t] = l]

Log(t, e) == scopeLog' = [scopeLog EXCEPT ![t] = Append(@, e)]

-----------------------------------------------------------------------------
(* instance(): the test of s_init_lock, outside of the mutex.              *)
Instance(t) ==
  /\ At(t, "out")
  /\ Goto(t, IF initLock = 0 THEN "acquire" ELSE "mutex")
  /\ UNCHANGED lcRest

(* The mutex, and the second test.                                         *)
LockInit(t) ==
  /\ At(t, "mutex") /\ initMutex = "free"
  /\ IF global = "null" THEN initMutex' = t /\ Goto(t, "build")
                        ELSE Goto(t, "acquire") /\ UNCHANGED initMutex
  /\ UNCHANGED <<initLock, global, scopeKey, sigLock, task, sig, sigAction, timer,
                 scopeLog, built, exiting>>

(* The constructor of GlobalData: the thread gets the default scope, and   *)
(* the sampler installs its handler and a timer when it is registered.     *)
Build(t) ==
  /\ At(t, "build") /\ built < 2
  /\ scopeKey' = [scopeKey EXCEPT ![t] = "scope"]
  /\ sigAction' = "on_prof"
  /\ timer' = [timer EXCEPT ![t] = "armed"]
  /\ built' = built + 1
  /\ Goto(t, "publish")
  /\ UNCHANGED <<initLock, initMutex, global, sigLock, task, sig, scopeLog, exiting>>

(* A defect: the mutex is left locked.                                     *)
PublishLocked(t) ==
  /\ At(t, "publish")
  /\ global' = "live" /\ initLock' = 0
  /\ Goto(t, "acquire")
  /\ UNCHANGED <<initMutex, scopeKey, sigLock, task, sig, sigAction, timer, scopeLog, built, exiting>>

(* sG and s_init_lock are set, and the mutex is released.                  *)
Publish(t) ==
  /\ At(t, "publish")
  /\ global' = "live" /\ initLock' = 0 /\ initMutex' = "free"
  /\ Goto(t, "acquire")
  /\ UNCHANGED <<scopeKey, sigLock, task, sig, sigAction, timer, scopeLog, built, exiting>>

(* acquire_thread_scope(): the pointer of this thread, or a new scope with *)
(* its create_scope event, in which the sampler arms a timer ...           *)
Acquire(t) ==
  /\ At(t, "acquire")
  /\ IF scopeKey[t] = "null"
     THEN /\ Goto(t, "created")
          /\ timer' = [timer EXCEPT ![t] = "armed"]
          /\ Log(t, "create")
     ELSE Goto(t, "have") /\ UNCHANGED <<timer, scopeLog>>
  /\ UNCHANGED <<initLock, initMutex, global, scopeKey, sigLock, task, sig, sigAction, built, exiting>>

(* ... which is then stored in the thread's key.                           *)
SetSpecific(t) ==
  /\ At(t, "created")
  /\ scopeKey' = [scopeKey EXCEPT ![t] = "scope"]
  /\ Goto(t, "have")
  /\ UNCHANGED <<initLock, initMutex, global, sigLock, task, sig, sigAction, timer,
                 scopeLog, built, exiting>>

(* A call on the instance takes the signal lock; callbacks make further    *)
(* calls on the same instance.                                             *)
Lock(t) ==
  /\ At(t, "have") \/ At(t, "locked")
  /\ task[t] = 0 /\ sigLock[t] < MaxNest
  /\ sigLock' = [sigLock EXCEPT ![t] = @ + 1]
  /\ Goto(t, "locked")
  /\ UNCHANGED <<initLock, initMutex, global, scopeKey, task, sig, sigAction, timer,
                 scopeLog, built, exiting>>

(* A defect: a flag instead of a counter.                                  *)
UnlockAll(t) ==
  /\ At(t, "locked") /\ sigLock[t] > 0
  /\ sigLock' = [sigLock EXCEPT ![t] = 0]
  /\ pc' = [pc EXCEPT ![t] = IF sigLock[t] = 1 THEN "have" ELSE @]
  /\ UNCHANGED <<initLock, initMutex, global, scopeKey, task, sig, sigAction, timer,
                 scopeLog, built, exiting>>

Unlock(t) ==
  /\ At(t, "locked")
  /\ sigLock' = [sigLock EXCEPT ![t] = @ - 1]
  /\ pc' = [pc EXCEPT ![t] = IF sigLock[t] = 1 THEN "have" ELSE @]
  /\ UNCHANGED <<initLock, initMutex, global, scopeKey, task, sig, sigAction, timer,
                 scopeLog, built, exiting>>

(* The call returns to the program.  end() has come this way twice: once   *)
(* for get() and once for the change.                                      *)
Leave(t) ==
  /\ At(t, "have") /\ task[t] = 0
  /\ Goto(t, "out")
  /\ UNCHANGED lcRest

-----------------------------------------------------------------------------
(* The sampler's clear_timer: the timer id stays on the blackboard, so a   *)
(* second call deletes the timer again.                                    *)
ClearTimer(t) == timer' = [timer EXCEPT ![t] = IF @ = "none" THEN @ ELSE "deleted"]

(* A thread ends: the key is reset and its destructor, release_thread,     *)
(* releases the scope.                                                     *)
ThreadEnd(t) ==
  /\ At(t, "out") /\ exiting # t
  /\ IF scopeKey[t] = "null"
     THEN Goto(t, "dead") /\ UNCHANGED <<scopeKey, sigLock>>
     ELSE /\ scopeKey' = [scopeKey EXCEPT ![t] = "null"]
          /\ sigLock' = [sigLock EXCEPT ![t] = @ + 1]
          /\ Goto(t, "release")
  /\ UNCHANGED <<initLock, initMutex, global, task, sig, sigAction, timer, scopeLog, built, exiting>>

(* A defect: the sampler does not hear of the end of the thread.           *)
ReleaseKeepsTimer(t) ==
  /\ At(t, "release")
  /\ Log(t, "release")
  /\ sigLock' = [sigLock EXCEPT ![t] = @ - 1]
  /\ Goto(t, "dead")
  /\ UNCHANGED <<initLock, initMutex, global, scopeKey, task, sig, sigAction, timer, built, exiting>>

ReleaseScope(t) ==
  /\ At(t, "release")
  /\ ClearTimer(t)
  /\ Log(t, "release")
  /\ sigLock' = [sigLock EXCEPT ![t] = @ - 1]
  /\ Goto(t, "dead")
  /\ UNCHANGED <<initLock, initMutex, global, scopeKey, task, sig, sigAction, built, exiting>>

(* exit(): the handler was registered when the global data was built.  It  *)
(* runs on the thread that called exit, while the others go on.            *)
Exit(t) ==
  /\ At(t, "out") /\ global = "live" /\ exiting = "none"
  /\ exiting' = t
  /\ task' = [task EXCEPT ![t] = 1]
  /\ Goto(t, IF initLock = 0 THEN "acquire" ELSE "mutex")
  /\ UNCHANGED <<initLock, initMutex, global, scopeKey, sigLock, sig, sigAction, timer,
                 scopeLog, built>>

(* Each step of the handler but the finish event takes the signal lock.    *)
ExitLock(t) ==
  /\ At(t, "have") /\ task[t] > 0
  /\ sigLock' = [sigLock EXCEPT ![t] = IF ExitSteps[task[t]] = "finish" THEN @ ELSE @ + 1]
  /\ Goto(t, "exit")
  /\ UNCHANGED <<initLock, initMutex, global, scopeKey, task, sig, sigAction, timer,
                 scopeLog, built, exiting>>

(* The step itself, and on to the next one.  The thread scope that is      *)
(* released is the one of the exiting thread: the callbacks look at the    *)
(* instance, not at the scope that is passed.                              *)
ExitStep(t) ==
  LET step == ExitSteps[task[t]]
      last == task[t] = Len(ExitSteps)
  IN  /\ At(t, "exit")
      /\ IF step \in {"finish", "thread"} THEN ClearTimer(t) ELSE UNCHANGED timer
      /\ sigAction' = IF step = "finish" THEN "ignore" ELSE sigAction
      /\ IF step = "thread" THEN Log(t, "release") ELSE UNCHANGED scopeLog
      /\ sigLock' = [sigLock EXCEPT ![t] = IF step = "finish" THEN @ ELSE @ - 1]
      /\ task' = [task EXCEPT ![t] = IF last THEN @ ELSE @ + 1]
      /\ Goto(t, IF last THEN "dead" ELSE "have")
      /\ UNCHANGED <<initLock, initMutex, global, scopeKey, sig, built, exiting>>

-----------------------------------------------------------------------------
SigGoto(t, l) == sig' = [sig EXCEPT ![t] = l]

(* The timer of a thread expires: on_prof starts in that thread.           *)
Signal(t) ==
  /\ sig[t] = "none" /\ pc[t] # "dead"
  /\ timer[t] = "armed" /\ sigAction = "on_prof"
  /\ SigGoto(t, "enter")
  /\ UNCHANGED <<initLock, initMutex, global, scopeKey, sigLock, pc, task, sigAction,
                 timer, scopeLog, built, exiting>>

(* sigsafe_instance(): no instance before initialization, without a scope, *)
(* or inside of a locked section.                                          *)
SigsafeInstance(t) ==
  /\ sig[t] = "enter"
  /\ SigGoto(t, IF initLock # 0 \/ scopeKey[t] = "null" \/ sigLock[t] > 0
                THEN "return" ELSE "inst")
  /\ UNCHANGED <<initLock, initMutex, global, scopeKey, sigLock, pc, task, sigAction,
                 timer, scopeLog, built, exiting>>

(* push_snapshot() in the handler, under the signal lock.                  *)
SigSnapshot(t) ==
  /\ sig[t] = "inst"
  /\ sigLock' = [sigLock EXCEPT ![t] = @ + 1]
  /\ SigGoto(t, "snapshot")
  /\ UNCHANGED <<initLock, initMutex, global, scopeKey, pc, task, sigAction,
                 timer, scopeLog, built, exiting>>

SigSnapshotDone(t) ==
  /\ sig[t] = "snapshot"
  /\ sigLock' = [sigLock EXCEPT ![t] = @ - 1]
  /\ SigGoto(t, "return")
  /\ UNCHANGED <<initLock, initMutex, global, scopeKey, pc, task, sigAction,
                 timer, scopeLog, built, exiting>>

SigReturn(t) ==
  /\ sig[t] = "return"
  /\ SigGoto(t, "none")
  /\ UNCHANGED <<initLock, initMutex, global, scopeKey, sigLock, pc, task, sigAction,
                 timer, scopeLog, built, exiting>>

-----------------------------------------------------------------------------
(* The steps of a thread inside of the library, and those of its handler.  *)
InLibrary(t) ==
  \/ LockInit(t) \/ Build(t) \/ Publish(t) \/ Acquire(t) \/ SetSpecific(t)
  \/ Unlock(t) \/ Leave(t) \/ ReleaseScope(t) \/ ExitLock(t) \/ ExitStep(t)

InHandler(t) ==
  SigsafeInstance(t) \/ SigSnapshot(t) \/ SigSnapshotDone(t) \/ SigReturn(t)

LcNext ==
  \E t \in Workers :
    InLibrary(t) \/ InHandler(t) \/ Instance(t) \/ Lock(t) \/ ThreadEnd(t) \/ Exit(t) \/ Signal(t)

(* Timer intervals are longer than a handler, so signals cannot keep a     *)
(* thread from going on for ever: strong fairness of its own steps.        *)
LcFair == \A t \in Workers : SF_lcVars(InLibrary(t)) /\ WF_lcVars(InHandler(t))

LcSpec == LcInit /\ [][LcNext]_lcVars /\ LcFair
-----------------------------------------------------------------------------
(* A snapshot in the signal handler never runs while the interrupted       *)
(* thread is building the runtime, creating its scope, or inside of a      *)
(* locked section, however deeply calls are nested: the spin lock of the   *)
(* blackboard and the buffers of the services are not entered twice by one *)
(* thread (sigsafe_instance, Caliper.cpp:1376).                            *)
NoReentry ==
  \A t \in Workers :
    sig[t] \in {"inst", "snapshot"} => pc[t] \notin {"build", "publish", "created", "locked", "release"}

(* An instance is handed out only when the global data is complete and the *)
(* thread has its scope (Caliper.cpp:1347-1366), and the data is built     *)
(* once although several threads may come first.                           *)
InstanceComplete ==
  /\ built <= 1
  /\ \A t \in Workers : pc[t] \in {"have", "locked"} => global = "live" /\ scopeKey[t] = "scope"

(* The services hear of the release of a thread's data once, and only      *)
(* after its creation; a thread that has ended leaves no sampling timer    *)
(* behind that would send signals to a dead thread (release_thread,        *)
(* exit_handler).                                                          *)
ScopeReleasedOnce ==
  \A t \in Workers :
    /\ \A i, j \in DOMAIN scopeLog[t] : scopeLog[t][i] = "release" /\ scopeLog[t][j] = "release" => i = j
    /\ pc[t] = "dead" => timer[t] # "armed"

(* Whoever asks for an instance gets it: initialization does not block for *)
(* ever, also when threads race for it and signals interrupt it.           *)
InstanceReturns == \A t \in Workers : pc[t] \in {"mutex", "acquire"} ~> pc[t] = "have"

(* The exit handler runs to its end, with the data flushed before it is    *)
(* cleared and the thread released last.                                   *)
ExitCompletes == \A t \in Workers : exiting = t ~> pc[t] = "dead"

(* From its first call to its end a thread works with complete data: the     *)
(* instance it gets is built, once, and has its scope, which is released     *)
(* once, with its timer.                                                     *)
ScopesSound == InstanceComplete /\ ScopeReleasedOnce

(* Nobody waits for ever in the start or the exit of the library, though     *)
(* threads race for both and signals interrupt them.                         *)
LibraryReturns == InstanceReturns /\ ExitCompletes
=============================================================================
