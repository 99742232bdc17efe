----------------------------- MODULE Validator -----------------------------
(***************************************************************************)
(* The nesting checker (src/services/validator/validator.cpp).  Every      *)
(* thread has a StackValidator and so have the process-scope attributes;   *)
(* a validator sees the begin and end events of its owner, remembers the   *)
(* first error and reports what is left open at the end.  opened is what   *)
(* the program really has open, in the order it was begun.                 *)
(***************************************************************************)
EXTENDS Integers, Sequences, FiniteSets, Functions

CONSTANTS Owners,       \* threads, and "process"; contains "main"
          NestedAttrs, PlainAttrs,
          MaxRegions    \* bound on the regions open

VARIABLES opened,       \* owner -> sequence of [attr, val]
          vaRegions,    \* owner -> attr -> m_region_stack[attr]
          nesting,    \* owner -> m_region_stack[class_nested_attr]
          errorFound, \* owner -> m_error_found
          errors,     \* global_errors, up to 1
          summary,    \* what finalize_cb reported: "none", "errors" or "clean"
          exited,     \* the threads that ended (destroy_thread_info)
          misnested,  \* history: owners that ended a nested attribute out of order
          replaced    \* history: owners that used set

vaVars == <<opened, vaRegions, nesting, errorFound, errors, summary, exited, misnested, replaced>>

VaAttrs == NestedAttrs \cup PlainAttrs

VaInit ==
  /\ opened = [o \in Owners |-> <<>>]
  /\ vaRegions = [o \in Owners |-> [a \in VaAttrs |-> <<>>]]
  /\ nesting = [o \in Owners |-> <<>>]
  /\ errorFound = [o \in Owners |-> FALSE]
  /\ errors = 0 /\ summary = "none" /\ exited = {} /\ misnested = {} /\ replaced = {}

Active(o) == summary = "none" /\ o \notin exited
VaRoom == FoldFunction(+, 0, [o \in Owners |-> Len(opened[o])]) < MaxRegions

(* A defect: errors are not counted.                                       *)
CountNever(is) == errors' = errors

CountError(is) == errors' = IF is THEN 1 ELSE errors

Pop(s) == SubSeq(s, 1, Len(s) - 1)
Without(s, i) == SubSeq(s, 1, i - 1) \o SubSeq(s, i + 1, Len(s))

(* begin_cb and StackValidator::check_begin. *)
CheckBegin(o, a, v) ==
  /\ Active(o) /\ VaRoom
  /\ opened' = [opened EXCEPT ![o] = Append(@, [attr |-> a, val |-> v])]
  /\ vaRegions' = IF errorFound[o] THEN vaRegions ELSE [vaRegions EXCEPT ![o][a] = Append(@, v)]
  /\ nesting' = IF errorFound[o] \/ a \notin NestedAttrs THEN nesting
                ELSE [nesting EXCEPT ![o] = Append(@, a)]
  /\ CountError(errorFound[o])
  /\ UNCHANGED <<errorFound, summary, exited, misnested, replaced>>

OpenAt(o, a) == {i \in 1..Len(opened[o]) : opened[o][i].attr = a}
TopAt(o, a) == CHOOSE i \in OpenAt(o, a) : \A j \in OpenAt(o, a) : j <= i
NestedAt(o) == {i \in 1..Len(opened[o]) : opened[o][i].attr \in NestedAttrs}
NestedTop(o) == LET top == CHOOSE i \in NestedAt(o) : \A j \in NestedAt(o) : j <= i
                IN  opened[o][top].attr

(* check_end: the nested attribute must be the last one begun, and the value *)
(* that is ended must be the last one begun for the attribute.               *)
NestingWrong(o, a) == a \in NestedAttrs /\ (nesting[o] = <<>> \/ nesting[o][Len(nesting[o])] # a)
ValueWrong(o, a, v) == vaRegions[o][a] # <<>> /\ vaRegions[o][a][Len(vaRegions[o][a])] # v

(* end_cb; Caliper::end passes the innermost value of the attribute.  The   *)
(* empty-stack branch of check_end reports an error as well.                *)
CheckEnd(o, a) ==
  LET v == opened[o][TopAt(o, a)].val
      wrong == vaRegions[o][a] = <<>> \/ NestingWrong(o, a) \/ ValueWrong(o, a, v) IN
  /\ Active(o) /\ OpenAt(o, a) # {}
  /\ opened' = [opened EXCEPT ![o] = Without(@, TopAt(o, a))]
  /\ IF errorFound[o] \/ vaRegions[o][a] = <<>>
       THEN UNCHANGED <<vaRegions, nesting>>
       ELSE /\ vaRegions' = [vaRegions EXCEPT ![o][a] = Pop(@)]
            /\ nesting' = IF a \notin NestedAttrs \/ nesting[o] = <<>> THEN nesting
                          ELSE [nesting EXCEPT ![o] = Pop(@)]
  /\ errorFound' = [errorFound EXCEPT ![o] = @ \/ wrong]
  /\ CountError(errorFound'[o])
  /\ misnested' = IF a \in NestedAttrs /\ NestedTop(o) # a THEN misnested \cup {o} ELSE misnested
  /\ UNCHANGED <<summary, exited, replaced>>

(* Caliper::set: the validator has no callback for it. *)
SetValue(o, a, v) ==
  /\ Active(o) /\ (OpenAt(o, a) = {} => VaRoom)
  /\ opened' = [opened EXCEPT ![o] =
       Append(IF OpenAt(o, a) = {} THEN @ ELSE Without(@, TopAt(o, a)), [attr |-> a, val |-> v])]
  /\ replaced' = replaced \cup {o}
  /\ UNCHANGED <<vaRegions, nesting, errorFound, errors, summary, exited, misnested>>

(* check_final, called when a thread ends: its result is only logged. *)
LeftOpen(o) == nesting[o] # <<>> \/ \E a \in VaAttrs : vaRegions[o][a] # <<>>
ThreadExit(o) ==
  /\ Active(o) /\ o \notin {"main", "process"}
  /\ exited' = exited \cup {o}
  /\ errorFound' = [errorFound EXCEPT ![o] = @ \/ LeftOpen(o)]
  /\ UNCHANGED <<opened, vaRegions, nesting, errors, summary, misnested, replaced>>

(* finalize_cb on the main thread. *)
VaFinalize ==
  /\ summary = "none"
  /\ errorFound' = [o \in Owners |->
       errorFound[o] \/ (o \in {"main", "process"} /\ LeftOpen(o))]
  /\ summary' = IF errors > 0 \/ errorFound'["main"]
                     \/ ("process" \in Owners /\ errorFound'["process"]) THEN "errors" ELSE "clean"
  /\ UNCHANGED <<opened, vaRegions, nesting, errors, exited, misnested, replaced>>

VaNext ==
  \/ \E o \in Owners :
       \/ \E a \in VaAttrs : CheckBegin(o, a, "begun") \/ SetValue(o, a, "set")
       \/ \E a \in VaAttrs : CheckEnd(o, a)
       \/ ThreadExit(o)
  \/ VaFinalize

VaSpec == VaInit /\ [][VaNext]_vaVars

(* While a thread does not use set, the validator finds an error exactly    *)
(* when a nested attribute was ended that was not the innermost one.        *)
MisnestingFound ==
  \A o \in Owners \ (replaced \cup exited) : summary = "none" =>
    (errorFound[o] <=> o \in misnested)

(* The final report is "no nesting errors" only if the main thread and the  *)
(* process-scope attributes have no region open (that begin opened).        *)
CleanMeansClosed ==
  summary = "clean" => \A o \in (Owners \cap {"main", "process"}) \ replaced : opened[o] = <<>>

(* The error of any thread, once found, is in the final report, even when   *)
(* the thread has ended; only the regions that a thread other than the main *)
(* one leaves open are not.                                                 *)
EveryErrorReported ==
  summary = "clean" => misnested \subseteq replaced

(* The validator's report is exact: it has the nesting errors that were      *)
(* made, all of them, and is clean only when regions are closed              *)
(* (validator.cpp).                                                          *)
ValidatorExact == MisnestingFound /\ CleanMeansClosed /\ EveryErrorReported
=============================================================================
