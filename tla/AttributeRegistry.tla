-------------------------- MODULE AttributeRegistry --------------------------
(***************************************************************************)
(* Creation and lookup of attributes by several threads                    *)
(* (Caliper::create_attribute and get_attribute, src/caliper/Caliper.cpp). *)
(*                                                                         *)
(* create_attribute looks a name up under attribute_lock, releases it,     *)
(* runs the pre_create_attr_evt callbacks, builds the attribute's tree     *)
(* node, takes the lock again and registers the node unless another thread *)
(* was faster.  The callbacks create attributes themselves (the event      *)
(* trigger its event.begin#name..., the aggregation service its            *)
(* statistics attributes), so calls nest: a thread has a stack of them.    *)
(*                                                                         *)
(* A tree node is <<name, k>>: the k-th node labelled with that name.      *)
(* Which one get_path returns depends on the type, the properties and what *)
(* other threads have added to the tree, and any is possible.              *)
(***************************************************************************)
EXTENDS Integers, Sequences

CONSTANTS Threads, Names,
          Copies,       \* indices of the tree nodes with the same name
          Before,       \* names the pre_create_attr_evt callbacks create
          After,        \* names the create_attr_evt callbacks create
          Null

ASSUME DerivedAssumption == Before \in [Names -> Seq(Names)] /\ After \in [Names -> Seq(Names)]

ASSUME NullAssumption == Null \notin Names \X Copies

VARIABLES attribute_nodes,   \* the map from names to nodes
          stack,             \* the nested create_attribute calls of a thread
          events,            \* how often create_attr_evt ran for a name
          returned,          \* what create_attribute returned so far
          failed             \* names for which the tree had no room

vars == <<attribute_nodes, stack, events, returned, failed>>

Node(n) == {n} \X Copies

(* An activation of create_attribute: where it is, its local node, and the *)
(* names its current callback has still to create.                         *)
Frame(n) == [name |-> n, pc |-> "lookup", node |-> Null, todo |-> <<>>]

Running(t) == stack[t] # <<>>

Top(t) == stack[t][Len(stack[t])]

At(t, pc) == Running(t) /\ Top(t).pc = pc

WithTop(t, f) == [stack EXCEPT ![t] = [stack[t] EXCEPT ![Len(stack[t])] = f]]

Init ==
  /\ attribute_nodes = [n \in Names |-> Null]
  /\ stack = [t \in Threads |-> <<>>]
  /\ events = [n \in Names |-> 0]
  /\ returned = {}
  /\ failed = {}

(* The program, or a service, calls create_attribute.                      *)
Call(t, n) ==
  /\ ~Running(t)
  /\ stack' = [stack EXCEPT ![t] = <<Frame(n)>>]
  /\ UNCHANGED <<attribute_nodes, events, returned, failed>>

(* The first look at the map, under attribute_lock.                        *)
Lookup(t) ==
  LET f == Top(t)
      found == attribute_nodes[f.name]
  IN  /\ At(t, "lookup")
      /\ stack' = WithTop(t, IF found # Null
                             THEN [f EXCEPT !.node = found, !.pc = "return"]
                             ELSE [f EXCEPT !.todo = Before[f.name], !.pc = "pre"])
      /\ UNCHANGED <<attribute_nodes, events, returned, failed>>

(* The callback creates the next attribute on its list, without the lock.  *)
CallbackCreate(t) ==
  LET f == Top(t)
      rest == [f EXCEPT !.todo = Tail(f.todo)]
  IN  /\ At(t, "pre") \/ At(t, "post")
      /\ f.todo # <<>>
      /\ stack' = [stack EXCEPT ![t] =
                     Append([stack[t] EXCEPT ![Len(stack[t])] = rest], Frame(Head(f.todo)))]
      /\ UNCHANGED <<attribute_nodes, events, returned, failed>>

(* pre_create_attr_evt is done: get_path finds or creates a node with the  *)
(* name, or finds the tree full, in which case the call returns nothing.   *)
MakeNode(t) ==
  LET f == Top(t)
  IN  /\ At(t, "pre") /\ f.todo = <<>>
      /\ \/ /\ \E x \in Node(f.name) :
                 stack' = WithTop(t, [f EXCEPT !.node = x, !.pc = "insert"])
            /\ UNCHANGED failed
         \/ /\ stack' = WithTop(t, [f EXCEPT !.pc = "return"])
            /\ failed' = failed \cup {f.name}
      /\ UNCHANGED <<attribute_nodes, events, returned>>

(* Defects: no second look; created_now is not set.                        *)
InsertUnchecked(t) ==
  LET f == Top(t)
  IN  /\ At(t, "insert")
      /\ attribute_nodes' = [attribute_nodes EXCEPT ![f.name] = f.node]
      /\ stack' = WithTop(t, [f EXCEPT !.pc = "event"])
      /\ UNCHANGED <<events, returned, failed>>

InsertSilently(t) ==
  LET f == Top(t)
  IN  /\ At(t, "insert")
      /\ attribute_nodes' = [attribute_nodes EXCEPT ![f.name] = IF @ = Null THEN f.node ELSE @]
      /\ stack' = WithTop(t, [f EXCEPT !.node = attribute_nodes'[f.name], !.pc = "return"])
      /\ UNCHANGED <<events, returned, failed>>

(* The second look, under attribute_lock: register the node, or take the   *)
(* one another thread has registered in the meantime.                      *)
Insert(t) ==
  LET f == Top(t)
      found == attribute_nodes[f.name]
  IN  /\ At(t, "insert")
      /\ IF found = Null
         THEN /\ attribute_nodes' = [attribute_nodes EXCEPT ![f.name] = f.node]
              /\ stack' = WithTop(t, [f EXCEPT !.pc = "event"])
         ELSE /\ stack' = WithTop(t, [f EXCEPT !.node = found, !.pc = "return"])
              /\ UNCHANGED attribute_nodes
      /\ UNCHANGED <<events, returned, failed>>

(* create_attr_evt(attr), which this call reached because created_now.     *)
CreateEvent(t) ==
  LET f == Top(t)
  IN  /\ At(t, "event")
      /\ events' = [events EXCEPT ![f.name] = @ + 1]
      /\ stack' = WithTop(t, [f EXCEPT !.todo = After[f.name], !.pc = "post"])
      /\ UNCHANGED <<attribute_nodes, returned, failed>>

EventDone(t) ==
  /\ At(t, "post") /\ Top(t).todo = <<>>
  /\ stack' = WithTop(t, [Top(t) EXCEPT !.pc = "return"])
  /\ UNCHANGED <<attribute_nodes, events, returned, failed>>

Return(t) ==
  /\ At(t, "return")
  /\ returned' = returned \cup {<<Top(t).name, Top(t).node>>}
  /\ stack' = [stack EXCEPT ![t] = SubSeq(@, 1, Len(@) - 1)]
  /\ UNCHANGED <<attribute_nodes, events, failed>>

(* get_attribute(name) of an attribute that exists.                        *)
GetAttribute(t, n) ==
  /\ ~Running(t)
  /\ attribute_nodes[n] # Null
  /\ returned' = returned \cup {<<n, attribute_nodes[n]>>}
  /\ UNCHANGED <<attribute_nodes, stack, events, failed>>

Step(t) == \/ Lookup(t) \/ CallbackCreate(t) \/ MakeNode(t) \/ Insert(t)
           \/ CreateEvent(t) \/ EventDone(t) \/ Return(t)

Next == \E t \in Threads : Step(t) \/ \E n \in Names : Call(t, n) \/ GetAttribute(t, n)

Spec == Init /\ [][Next]_vars /\ \A t \in Threads : WF_vars(Step(t))
-----------------------------------------------------------------------------
MaybeNode == (Names \X Copies) \cup {Null}

Activation == [name : Names,
               pc   : {"lookup", "pre", "insert", "event", "post", "return"},
               node : MaybeNode,
               todo : Seq(Names)]

(* Type invariant: every activation is at one of the steps of              *)
(* create_attribute, with a node of its own name or none.                  *)
TypeOK ==
  /\ attribute_nodes \in [Names -> MaybeNode]
  /\ stack \in [Threads -> Seq(Activation)]
  /\ events \in [Names -> Nat]
  /\ returned \in SUBSET (Names \X MaybeNode)
  /\ failed \in SUBSET Names

(* A name has one attribute for ever: every call that returned an          *)
(* attribute for a name, on any thread, returned the same one ("Attribute  *)
(* names must be unique. If an attribute with the given name already       *)
(* exists, the existing attribute is returned.", Caliper.cpp:542).         *)
OneAttributePerName ==
  \A r \in returned : r[2] # Null => r[2] = attribute_nodes[r[1]]

(* A call fails only where the tree had no room for the name: when two     *)
(* threads create an attribute at the same time, "both threads will        *)
(* successfully return the new attribute" (Caliper.cpp:551).               *)
CallsSucceed == \A r \in returned : r[2] # Null \/ r[1] \in failed

(* create_attr_evt runs at most once for a name, and never before the      *)
(* attribute can be looked up ("create_attr_evt will only be invoked       *)
(* once", Caliper.cpp:550).                                                *)
EventAtMostOnce ==
  \A n \in Names : events[n] <= 1 /\ (events[n] = 1 => attribute_nodes[n] # Null)

(* An attribute becomes visible only after the attributes that the         *)
(* pre_create_attr_evt callbacks derive from it, unless the tree had no    *)
(* room for those: event_begin_cb asserts that they exist                  *)
(* (EventTrigger.cpp:171).                                                 *)
DerivedFirst ==
  \A n \in Names : attribute_nodes[n] # Null =>
    \A i \in 1..Len(Before[n]) :
      attribute_nodes[Before[n][i]] # Null \/ Before[n][i] \in failed

(* Every call returns although callbacks call back into create_attribute.  *)
CallsReturn == \A t \in Threads : Running(t) ~> ~Running(t)

(* The services hear of every attribute: once a name is registered, its    *)
(* create_attr_evt runs.                                                   *)
EventDelivered == \A n \in Names : attribute_nodes[n] # Null ~> events[n] = 1

(* create_attribute keeps its promises together (Caliper.cpp:542-551): all   *)
(* calls agree on one attribute per name, fail only for want of a tree       *)
(* node, announce it at most once, and show it only after the attributes     *)
(* derived from it.                                                          *)
RegistrySound ==
  /\ TypeOK
  /\ OneAttributePerName
  /\ EventAtMostOnce
  /\ CallsSucceed
  /\ DerivedFirst

(* Nothing in create_attribute waits for ever: calls return, through         *)
(* whatever callbacks they go, and what they registered is announced.        *)
RegistryProgress == CallsReturn /\ EventDelivered
=============================================================================
