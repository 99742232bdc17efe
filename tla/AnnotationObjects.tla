------------------------- MODULE AnnotationObjects -------------------------
(***************************************************************************)
(* The C++ annotation objects (src/caliper/Annotation.cpp) used by several *)
(* threads.  Annotation and Guard objects are handles on one shared Impl,  *)
(* which counts them and creates its attribute when it is first used.  The *)
(* attribute of that name has the type of whoever creates it first; a      *)
(* begin of another type does nothing, an end always closes a value.       *)
(***************************************************************************)
EXTENDS Integers, Sequences, FiniteSets

CONSTANTS Users,        \* the threads that use the annotation
          Types,        \* the types of the values they pass; contains "int"
          MaxHandles,   \* bound on the handles of a thread
          MaxValues     \* bound on the values open on a thread

ASSUME TypesAssumption == "none" \notin Types /\ "null" \notin Types

VARIABLES count,     \* Impl::m_refcount
          deleted,   \* how often the Impl was deleted
          attrPtr,   \* the type of the attribute m_attr points to, or "null"
          nameType,  \* the type of the attribute of that name, or "none"
          handles,   \* the Annotation objects of each thread that refer to the Impl
          guards,    \* likewise the Guard objects
          call,      \* what each thread does in the Impl
          open,      \* the values of the annotation each thread has open
          aoRaced      \* history: two threads were in detach() at the same time

aoVars == <<count, deleted, attrPtr, nameType, handles, guards, call, open, aoRaced>>

IdleCall == [at |-> "idle", op |-> "none", type |-> "none", new |-> "none"]

AoInit ==
  /\ count = 1 /\ deleted = 0 /\ attrPtr = "null" /\ nameType = "none"
  /\ \E t \in Users : handles = [u \in Users |-> IF u = t THEN 1 ELSE 0]
  /\ guards = [t \in Users |-> 0]
  /\ call = [t \in Users |-> IdleCall]
  /\ open = [t \in Users |-> <<>>]
  /\ aoRaced = FALSE

Held(t) == handles[t] + guards[t]
InCall(t, at) == call[t].at = at
Step(t, rec) == call' = [call EXCEPT ![t] = rec]

(* Annotation(const Annotation&), and operator= on an object of another Impl: *)
(* the copy is made by a thread that holds the original and may be handed on. *)
CopyTo(t, u) ==
  /\ InCall(t, "idle") /\ handles[t] > 0 /\ handles[u] < MaxHandles
  /\ count' = count + 1                                        \* attach()
  /\ handles' = [handles EXCEPT ![u] = @ + 1]
  /\ UNCHANGED <<deleted, attrPtr, nameType, guards, call, open, aoRaced>>

(* Annotation::Guard g(a.begin(v)): the Guard attaches to a's Impl. *)
MakeGuard(t) ==
  /\ InCall(t, "idle") /\ handles[t] > 0 /\ guards[t] < MaxHandles
  /\ count' = count + 1
  /\ guards' = [guards EXCEPT ![t] = @ + 1]
  /\ UNCHANGED <<deleted, attrPtr, nameType, handles, call, open, aoRaced>>

Decrement ==
  /\ count' = count - 1
  /\ aoRaced' = (aoRaced \/ \E u \in Users : InCall(u, "detach"))

(* ~Annotation(), and the left side of operator=: detach() decrements ... *)
DropHandle(t) ==
  /\ InCall(t, "idle") /\ handles[t] > 0
  /\ handles' = [handles EXCEPT ![t] = @ - 1]
  /\ Decrement /\ Step(t, [IdleCall EXCEPT !.at = "detach"])
  /\ UNCHANGED <<deleted, attrPtr, nameType, guards, open>>

(* A defect: the object goes while one handle is left.                     *)
DetachReadEarly(t) ==
  /\ InCall(t, "detach")
  /\ deleted' = IF count <= 1 THEN deleted + 1 ELSE deleted
  /\ Step(t, IdleCall)
  /\ UNCHANGED <<count, attrPtr, nameType, handles, guards, open, aoRaced>>

(* ... and then reads the counter again to decide whether to delete the Impl. *)
(* Another thread may have deleted it by then: the read can give anything.    *)
DetachRead(t) ==
  /\ InCall(t, "detach")
  /\ \E zero \in IF deleted > 0 THEN BOOLEAN ELSE {count = 0} :
       deleted' = IF zero THEN deleted + 1 ELSE deleted
  /\ Step(t, IdleCall)
  /\ UNCHANGED <<count, attrPtr, nameType, handles, guards, open, aoRaced>>
(* begin(int): an int is converted when m_attr already points to a "double". *)
Converted(type) == IF type = "int" /\ attrPtr = "double" THEN "double" ELSE type

(* begin(data), set(data), end() and ~Guard(): get_attribute loads m_attr first. *)
CallBegin(t, op, type) ==
  /\ InCall(t, "idle") /\ handles[t] > 0 /\ Len(open[t]) < MaxValues
  /\ Step(t, [at |-> "load", op |-> op, type |-> Converted(type), new |-> "none"])
  /\ UNCHANGED <<count, deleted, attrPtr, nameType, handles, guards, open, aoRaced>>

CallEnd(t, op) ==
  /\ InCall(t, "idle") /\ (IF op = "end" THEN handles[t] > 0 ELSE guards[t] > 0)
  /\ Step(t, [at |-> "load", op |-> op, type |-> "none", new |-> "none"])
  /\ UNCHANGED <<count, deleted, attrPtr, nameType, handles, guards, open, aoRaced>>

(* No attribute yet: create_attribute (or, for end, get_attribute by name). *)
GetAttribute(t) ==
  /\ InCall(t, "load")
  /\ nameType' = IF attrPtr = "null" /\ nameType = "none" THEN call[t].type ELSE nameType
  /\ Step(t, [call[t] EXCEPT !.at = IF attrPtr # "null" \/ nameType' = "none"
                                      THEN "apply" ELSE "cas",
                             !.new = IF attrPtr # "null" THEN attrPtr ELSE nameType'])
  /\ UNCHANGED <<count, deleted, attrPtr, handles, guards, open, aoRaced>>

(* compare_exchange_strong: the loser deletes its object and takes the winner's. *)
StoreAttribute(t) ==
  /\ InCall(t, "cas")
  /\ attrPtr' = IF attrPtr = "null" THEN call[t].new ELSE attrPtr
  /\ Step(t, [call[t] EXCEPT !.at = "apply", !.new = attrPtr'])
  /\ UNCHANGED <<count, deleted, nameType, handles, guards, open, aoRaced>>

Accepts(attrType, type) == attrType = type
(* The call on the Caliper object; a Guard's destructor goes on to detach(). *)
Apply(t) ==
  LET c == call[t] IN
  /\ InCall(t, "apply")
  /\ open' = [open EXCEPT ![t] =
       CASE c.op = "begin" /\ Accepts(c.new, c.type) -> Append(@, c.type)
         [] c.op = "set" /\ Accepts(c.new, c.type) ->
              SubSeq(@, 1, Len(@) - 1) \o <<c.type>>
         [] c.op \in {"end", "guard"} -> SubSeq(@, 1, Len(@) - 1)
         [] OTHER -> @]
  /\ guards' = IF c.op = "guard" THEN [guards EXCEPT ![t] = @ - 1] ELSE guards
  /\ IF c.op = "guard"
       THEN Decrement /\ Step(t, [IdleCall EXCEPT !.at = "detach"])
       ELSE UNCHANGED <<count, aoRaced>> /\ Step(t, IdleCall)
  /\ UNCHANGED <<deleted, attrPtr, nameType, handles>>

AoNext == \E t \in Users :
  \/ \E u \in Users : CopyTo(t, u)
  \/ MakeGuard(t) \/ DropHandle(t) \/ DetachRead(t)
  \/ \E op \in {"begin", "set"}, type \in Types : CallBegin(t, op, type)
  \/ \E op \in {"end", "guard"} : CallEnd(t, op)
  \/ GetAttribute(t) \/ StoreAttribute(t) \/ Apply(t)

AoSpec == AoInit /\ [][AoNext]_aoVars

(* While some thread holds an Annotation or a Guard, or is inside one of    *)
(* their calls, the shared Impl is not deleted, however copies are handed   *)
(* around and dropped.                                                      *)
ImplOutlivesHandles ==
  deleted > 0 => \A t \in Users : Held(t) = 0 /\ call[t].at \in {"idle", "detach"}

(* Once the last handle is gone the Impl has been deleted, and more than    *)
(* once only if two threads were between the decrement and the second read  *)
(* of the counter in detach() at the same time.                             *)
ImplDeleted ==
  /\ (count = 0 /\ \A t \in Users : InCall(t, "idle")) => deleted > 0
  /\ deleted > 1 => aoRaced

(* Whichever thread wins the creation of the attribute, with whatever type, *)
(* every value opened through the annotation has the type of the one        *)
(* attribute of that name.                                                  *)
OneType == \A t \in Users : \A i \in 1..Len(open[t]) : open[t][i] = nameType

(* Threads may share an annotation: its Impl is there as long as anyone      *)
(* uses it and no longer, and all values opened through it have the type of  *)
(* its attribute (Annotation.cpp detach, create_attribute).                  *)
AnnotationSound == ImplOutlivesHandles /\ ImplDeleted /\ OneType
=============================================================================
