----------------------- MODULE AttributeRegistryProofs -----------------------
(***************************************************************************)
(* RegistrySound for any threads, names and derived attributes: calls agree*)
(* on one attribute per name, fail only for want of a tree node, announce  *)
(* it at most once and show it only after those derived from it.           *)
(***************************************************************************)
EXTENDS AttributeRegistry, TLAPS

(* What an activation may rely on between two steps of its thread: a node  *)
(* it has made but not registered is its own; one it is about to return is *)
(* the registered one; and before its create_attr_evt none has run.        *)
ActivationOK(f) ==
  /\ f.pc \in {"lookup", "pre"} => f.node = Null
  /\ f.pc = "insert" => f.node \in Node(f.name)
  /\ f.pc \in {"event", "post"} => attribute_nodes[f.name] = f.node /\ f.node # Null
  /\ f.pc = "return" /\ f.node # Null => attribute_nodes[f.name] = f.node
  /\ f.pc = "event" => events[f.name] = 0

StacksOK == \A t \in Threads : \A k \in 1..Len(stack[t]) : ActivationOK(stack[t][k])

(* At most one activation is between registering a name and its event.     *)
OneWinner ==
  \A t, u \in Threads : \A k \in 1..Len(stack[t]), l \in 1..Len(stack[u]) :
    /\ stack[t][k].pc = "event" /\ stack[u][l].pc = "event"
    /\ stack[t][k].name = stack[u][l].name
    => t = u /\ k = l

IInv == TypeOK /\ StacksOK /\ OneWinner /\ EventAtMostOnce /\ OneAttributePerName

-----------------------------------------------------------------------------
(* Replacing the top activation of a thread's stack.                       *)
LEMMA WithTopFacts ==
  ASSUME TypeOK, NEW t \in Threads, Running(t), NEW f \in Activation,
         stack' = WithTop(t, f)
  PROVE  /\ stack' \in [Threads -> Seq(Activation)]
         /\ Len(stack[t]) \in 1..Len(stack[t])
         /\ Top(t) = stack[t][Len(stack[t])]
         /\ Top(t) \in Activation
         /\ \A u \in Threads : Len(stack'[u]) = Len(stack[u])
         /\ \A u \in Threads : \A k \in 1..Len(stack[u]) :
              stack'[u][k] = IF u = t /\ k = Len(stack[t]) THEN f ELSE stack[u][k]
<1> DEFINE s == stack[t]
           r == [s EXCEPT ![Len(s)] = f]
<1>1. s \in Seq(Activation) /\ s # <<>>
  BY Zenon DEF TypeOK, Running
<1>2. Len(s) \in 1..Len(s) /\ s[Len(s)] \in Activation
  BY <1>1
<1>3. r \in Seq(Activation) /\ Len(r) = Len(s)
      /\ \A k \in 1..Len(s) : r[k] = IF k = Len(s) THEN f ELSE s[k]
  BY <1>1, <1>2
<1>4. stack' = [stack EXCEPT ![t] = r]
  BY Zenon DEF WithTop
<1> HIDE DEF r
<1>5. QED
  BY <1>2, <1>3, <1>4, Zenon DEF TypeOK, Top

(* A step that only moves the top activation on, to a state in which it    *)
(* may rely on what it must, and not to its event.                         *)
LEMMA QuietStep ==
  ASSUME IInv, NEW t \in Threads, Running(t), NEW f \in Activation,
         stack' = WithTop(t, f), ActivationOK(f), f.pc # "event",
         UNCHANGED <<attribute_nodes, events, returned>>, failed' \in SUBSET Names
  PROVE  IInv'
<1>1. /\ stack' \in [Threads -> Seq(Activation)]
      /\ \A u \in Threads : Len(stack'[u]) = Len(stack[u])
      /\ \A u \in Threads : \A k \in 1..Len(stack[u]) :
           stack'[u][k] = IF u = t /\ k = Len(stack[t]) THEN f ELSE stack[u][k]
  BY WithTopFacts DEF IInv
<1>2. TypeOK'
  BY <1>1, Zenon DEF IInv, TypeOK
<1>3. StacksOK'
  <2> SUFFICES ASSUME NEW u \in Threads, NEW k \in 1..Len(stack[u])
               PROVE  ActivationOK(stack[u][k])'
    BY <1>1, Zenon DEF StacksOK
  <2>1. PICK h : h = stack'[u][k]
    BY Zenon
  <2>2. ActivationOK(h)
    BY <1>1, <2>1, ZenonT(60) DEF IInv, StacksOK
  <2>3. QED
    BY <2>1, <2>2, Zenon DEF ActivationOK, Node
<1>4. OneWinner'
  BY <1>1, SMTT(30) DEF IInv, OneWinner
<1>5. EventAtMostOnce' /\ OneAttributePerName'
  BY Zenon DEF IInv, EventAtMostOnce, OneAttributePerName
<1>6. QED
  BY <1>2, <1>3, <1>4, <1>5, Zenon DEF IInv

(* The top activation is one of the stack.                                 *)
LEMMA TopFacts ==
  ASSUME IInv, NEW t \in Threads, Running(t)
  PROVE  /\ Top(t) \in Activation
         /\ ActivationOK(Top(t))
         /\ Len(stack[t]) \in 1..Len(stack[t])
<1>1. stack[t] \in Seq(Activation) /\ stack[t] # <<>>
  BY Zenon DEF IInv, TypeOK, Running
<1>2. QED
  BY <1>1 DEF IInv, StacksOK, Top

(* The first look takes the registered node or starts the callbacks.       *)
LEMMA LookupStep ==
  ASSUME IInv, NEW t \in Threads, Lookup(t)
  PROVE  IInv'
<1> DEFINE f == Top(t)
           found == attribute_nodes[f.name]
           g == IF found # Null THEN [f EXCEPT !.node = found, !.pc = "return"]
                ELSE [f EXCEPT !.todo = Before[f.name], !.pc = "pre"]
<1>1. Running(t) /\ f.pc = "lookup" /\ stack' = WithTop(t, g)
      /\ UNCHANGED <<attribute_nodes, events, returned>> /\ failed' \in SUBSET Names
  BY Zenon DEF Lookup, At, IInv, TypeOK
<1>2. f \in Activation /\ ActivationOK(f)
  BY <1>1, TopFacts, Zenon
<1>3. g \in Activation
  BY <1>2, DerivedAssumption, ZenonT(60) DEF Activation, IInv, TypeOK
<1>4. ActivationOK(g) /\ g.pc # "event"
  BY <1>1, <1>2, Zenon DEF ActivationOK, Activation
<1> HIDE DEF g
<1>5. QED
  BY <1>1, <1>3, <1>4, QuietStep, Zenon

(* get_path yields a node of the name, or none.                            *)
LEMMA MakeNodeStep ==
  ASSUME IInv, NEW t \in Threads, MakeNode(t)
  PROVE  IInv'
<1> DEFINE f == Top(t)
<1>1. /\ Running(t) /\ f.pc = "pre"
      /\ UNCHANGED <<attribute_nodes, events, returned>>
  BY Zenon DEF MakeNode, At
<1>2. f \in Activation /\ ActivationOK(f) /\ f.name \in Names
  BY <1>1, TopFacts, Zenon DEF Activation
<1>f. failed' \in SUBSET Names
  BY <1>2, Zenon DEF MakeNode, IInv, TypeOK
<1>3. ASSUME NEW x \in Node(f.name),
             stack' = WithTop(t, [f EXCEPT !.node = x, !.pc = "insert"])
      PROVE  IInv'
  <2> DEFINE g == [f EXCEPT !.node = x, !.pc = "insert"]
  <2>1. g \in Activation
    BY <1>2, Zenon DEF Activation, Node, MaybeNode
  <2>2. ActivationOK(g) /\ g.pc # "event"
    BY <1>2, Zenon DEF ActivationOK, Activation
  <2> HIDE DEF g
  <2>3. QED
    BY <1>1, <1>f, <1>3, <2>1, <2>2, QuietStep, Zenon DEF g
<1>4. ASSUME stack' = WithTop(t, [f EXCEPT !.pc = "return"])
      PROVE  IInv'
  <2> DEFINE g == [f EXCEPT !.pc = "return"]
  <2>1. g \in Activation
    BY <1>2, Zenon DEF Activation
  <2>2. ActivationOK(g) /\ g.pc # "event"
    BY <1>1, <1>2, Zenon DEF ActivationOK, Activation
  <2> HIDE DEF g
  <2>3. QED
    BY <1>1, <1>f, <1>4, <2>1, <2>2, QuietStep, ZenonT(60) DEF g
<1>5. QED
  BY <1>3, <1>4, Zenon DEF MakeNode

(* After its event an activation returns the node it registered.           *)
LEMMA EventDoneStep ==
  ASSUME IInv, NEW t \in Threads, EventDone(t)
  PROVE  IInv'
<1> DEFINE f == Top(t)
           g == [f EXCEPT !.pc = "return"]
<1>1. /\ Running(t) /\ f.pc = "post" /\ stack' = WithTop(t, g)
      /\ UNCHANGED <<attribute_nodes, events, returned>> /\ failed' \in SUBSET Names
  BY Zenon DEF EventDone, At, IInv, TypeOK
<1>2. f \in Activation /\ ActivationOK(f)
  BY <1>1, TopFacts, Zenon
<1>3. g \in Activation
  BY <1>2, Zenon DEF Activation
<1>4. ActivationOK(g) /\ g.pc # "event"
  BY <1>1, <1>2, Zenon DEF ActivationOK, Activation
<1> HIDE DEF g
<1>5. QED
  BY <1>1, <1>3, <1>4, QuietStep, Zenon

(* Registering a name: no other activation is at its event for this name,  *)
(* because that name was not registered.                                   *)
LEMMA InsertStep ==
  ASSUME IInv, NEW t \in Threads, Insert(t)
  PROVE  IInv'
<1> DEFINE f == Top(t)
           found == attribute_nodes[f.name]
<1>1. /\ Running(t) /\ f.pc = "insert"
      /\ UNCHANGED <<events, returned>> /\ failed' \in SUBSET Names
  BY Zenon DEF Insert, At, IInv, TypeOK
<1>2. f \in Activation /\ ActivationOK(f) /\ Len(stack[t]) \in 1..Len(stack[t])
  BY <1>1, TopFacts, Zenon
<1>3. f.name \in Names /\ f.node \in Node(f.name) /\ f.node \in MaybeNode /\ f.node # Null
  BY <1>1, <1>2, NullAssumption, Zenon DEF ActivationOK, Activation, Node
<1>4. CASE found # Null
  <2> DEFINE g == [f EXCEPT !.node = found, !.pc = "return"]
  <2>1. stack' = WithTop(t, g) /\ UNCHANGED attribute_nodes
    BY <1>4, Zenon DEF Insert
  <2>2. g \in Activation
    BY <1>2, Zenon DEF Activation, IInv, TypeOK
  <2>3. ActivationOK(g) /\ g.pc # "event"
    BY <1>2, Zenon DEF ActivationOK, Activation
  <2> HIDE DEF g
  <2>4. QED
    BY <1>1, <2>1, <2>2, <2>3, QuietStep, Zenon
<1>5. CASE found = Null
  <2> DEFINE g == [f EXCEPT !.pc = "event"]
  <2>1. /\ stack' = WithTop(t, g)
        /\ attribute_nodes' = [attribute_nodes EXCEPT ![f.name] = f.node]
    BY <1>5, Zenon DEF Insert
  <2>2. g \in Activation /\ g.pc = "event" /\ g.name = f.name /\ g.node = f.node
    BY <1>2, Zenon DEF Activation
  <2> HIDE DEF g
  <2>3. /\ stack' \in [Threads -> Seq(Activation)]
        /\ \A u \in Threads : Len(stack'[u]) = Len(stack[u])
        /\ \A u \in Threads : \A k \in 1..Len(stack[u]) :
             stack'[u][k] = IF u = t /\ k = Len(stack[t]) THEN g ELSE stack[u][k]
    BY <1>1, <2>1, <2>2, WithTopFacts, Zenon DEF IInv
  <2>4. TypeOK'
    BY <1>1, <1>3, <2>1, <2>3, Zenon DEF IInv, TypeOK
  <2>5. events[f.name] = 0
    <3>1. events[f.name] \in Nat /\ events[f.name] <= 1 /\ events[f.name] # 1
      BY <1>3, <1>5, Zenon DEF IInv, TypeOK, EventAtMostOnce
    <3>2. QED
      BY <3>1
  <2>6. /\ attribute_nodes'[f.name] = f.node
        /\ \A n \in Names : n # f.name => attribute_nodes'[n] = attribute_nodes[n]
    BY <1>3, <2>1, Zenon DEF IInv, TypeOK
  <2>7. StacksOK'
    <3> SUFFICES ASSUME NEW u \in Threads, NEW k \in 1..Len(stack[u])
                 PROVE  ActivationOK(stack[u][k])'
      BY <2>3, Zenon DEF StacksOK
    <3>1. CASE u = t /\ k = Len(stack[t])
      BY <1>1, <1>3, <2>2, <2>3, <2>5, <2>6, <3>1, Zenon DEF ActivationOK
    <3>2. CASE ~(u = t /\ k = Len(stack[t]))
      <4> DEFINE h == stack[u][k]
      <4>1. stack'[u][k] = h /\ h \in Activation /\ ActivationOK(h)
        BY <2>3, <3>2 DEF IInv, TypeOK, StacksOK
      <4> HIDE DEF h
      <4>2. h.name \in Names
        BY <4>1, Zenon DEF Activation
      <4>3. CASE h.name = f.name
        BY <1>1, <1>5, <4>1, <4>3, Zenon DEF ActivationOK, Node
      <4>4. CASE h.name # f.name
        BY <1>1, <2>6, <4>1, <4>2, <4>4, Zenon DEF ActivationOK, Node
      <4>5. QED
        BY <4>3, <4>4, Zenon
    <3>3. QED
      BY <3>1, <3>2, Zenon
  <2>8. \A u \in Threads : \A k \in 1..Len(stack[u]) :
          stack[u][k].pc = "event" => stack[u][k].name # f.name
    BY <1>5, Zenon DEF IInv, StacksOK, ActivationOK
  <2>9. OneWinner'
    <3> SUFFICES ASSUME NEW u \in Threads, NEW v \in Threads,
                        NEW k \in 1..Len(stack[u]), NEW l \in 1..Len(stack[v]),
                        stack'[u][k].pc = "event", stack'[v][l].pc = "event",
                        stack'[u][k].name = stack'[v][l].name
                 PROVE  u = v /\ k = l
      BY <2>3 DEF OneWinner
    <3>1. CASE u = t /\ k = Len(stack[t])
      BY <2>2, <2>3, <2>8, <3>1, SMTT(30)
    <3>2. CASE v = t /\ l = Len(stack[t])
      BY <2>2, <2>3, <2>8, <3>2, SMTT(30)
    <3>3. CASE ~(u = t /\ k = Len(stack[t])) /\ ~(v = t /\ l = Len(stack[t]))
      <4>1. stack'[u][k] = stack[u][k] /\ stack'[v][l] = stack[v][l]
        BY <2>3, <3>3, Zenon
      <4>2. QED
        BY <4>1 DEF IInv, OneWinner
    <3>4. QED
      BY <3>1, <3>2, <3>3, Zenon
  <2>10. EventAtMostOnce'
    BY <1>1, <1>3, <2>5, <2>6, Zenon DEF IInv, EventAtMostOnce
  <2>11. OneAttributePerName'
    <3> SUFFICES ASSUME NEW r \in returned, r[2] # Null
                 PROVE  r[2] = attribute_nodes'[r[1]]
      BY <1>1, Zenon DEF OneAttributePerName
    <3>1. r[1] \in Names /\ r[2] = attribute_nodes[r[1]]
      BY Zenon DEF IInv, TypeOK, OneAttributePerName
    <3>2. QED
      BY <1>5, <2>6, <3>1, Zenon
  <2>12. QED
    BY <2>4, <2>7, <2>9, <2>10, <2>11, Zenon DEF IInv
<1>6. QED
  BY <1>4, <1>5, Zenon

(* The event: the activation that registered the name is the only one.     *)
LEMMA CreateEventStep ==
  ASSUME IInv, NEW t \in Threads, CreateEvent(t)
  PROVE  IInv'
<1> DEFINE f == Top(t)
           g == [f EXCEPT !.todo = After[f.name], !.pc = "post"]
<1>1. /\ Running(t) /\ f.pc = "event" /\ stack' = WithTop(t, g)
      /\ events' = [events EXCEPT ![f.name] = @ + 1]
      /\ UNCHANGED <<attribute_nodes, returned, failed>>
  BY Zenon DEF CreateEvent, At
<1>2. f \in Activation /\ ActivationOK(f) /\ Len(stack[t]) \in 1..Len(stack[t])
  BY <1>1, TopFacts, Zenon
<1>3. g \in Activation /\ g.pc = "post" /\ g.name = f.name /\ g.node = f.node
  BY <1>2, DerivedAssumption, ZenonT(60) DEF Activation
<1> HIDE DEF g
<1>4. /\ stack' \in [Threads -> Seq(Activation)]
      /\ \A u \in Threads : Len(stack'[u]) = Len(stack[u])
      /\ \A u \in Threads : \A k \in 1..Len(stack[u]) :
           stack'[u][k] = IF u = t /\ k = Len(stack[t]) THEN g ELSE stack[u][k]
  BY <1>1, <1>3, WithTopFacts, Zenon DEF IInv
<1>5. f.name \in Names /\ events[f.name] = 0 /\ attribute_nodes[f.name] # Null
  BY <1>1, <1>2, Zenon DEF ActivationOK, Activation
<1>6. /\ events'[f.name] = 1
      /\ \A n \in Names : n # f.name => events'[n] = events[n]
  BY <1>1, <1>5 DEF IInv, TypeOK
<1>7. TypeOK'
  BY <1>1, <1>4, <1>5 DEF IInv, TypeOK
<1>8. StacksOK'
  <2> SUFFICES ASSUME NEW u \in Threads, NEW k \in 1..Len(stack[u])
               PROVE  ActivationOK(stack[u][k])'
    BY <1>4, Zenon DEF StacksOK
  <2>1. CASE u = t /\ k = Len(stack[t])
    BY <1>1, <1>2, <1>3, <1>4, <2>1 DEF ActivationOK
  <2>2. CASE ~(u = t /\ k = Len(stack[t]))
    <3> DEFINE h == stack[u][k]
    <3>1. stack'[u][k] = h /\ h \in Activation /\ ActivationOK(h)
      BY <1>4, <2>2 DEF IInv, TypeOK, StacksOK
    <3>2. h.pc = "event" => h.name # f.name
      BY <1>1, <1>2, <2>2, Zenon DEF IInv, OneWinner, Top
    <3> HIDE DEF h
    <3>3. h.name \in Names
      BY <3>1, Zenon DEF Activation
    <3>4. QED
      BY <1>1, <1>6, <3>1, <3>2, <3>3, Zenon DEF ActivationOK, Node
  <2>3. QED
    BY <2>1, <2>2, Zenon
<1>9. OneWinner'
  BY <1>3, <1>4 DEF IInv, OneWinner
<1>10. EventAtMostOnce'
  BY <1>1, <1>5, <1>6 DEF IInv, EventAtMostOnce
<1>11. OneAttributePerName'
  BY <1>1, Zenon DEF IInv, OneAttributePerName
<1>12. QED
  BY <1>7, <1>8, <1>9, <1>10, <1>11, Zenon DEF IInv

(* A fresh activation relies on nothing.                                   *)
LEMMA FrameFacts ==
  ASSUME NEW n \in Names
  PROVE  Frame(n) \in Activation /\ ActivationOK(Frame(n)) /\ Frame(n).pc = "lookup"
BY DEF Frame, Activation, ActivationOK, MaybeNode

(* Pushing a fresh activation, or popping one, keeps the others.           *)
LEMMA StackStep ==
  ASSUME IInv, NEW t \in Threads, NEW s \in Seq(Activation),
         stack' = [stack EXCEPT ![t] = s],
         \A k \in 1..Len(s) :
           \/ ActivationOK(s[k]) /\ s[k].pc # "event"
           \/ k \in 1..Len(stack[t]) /\ s[k] = stack[t][k],
         UNCHANGED <<attribute_nodes, events>>
  PROVE  /\ stack' \in [Threads -> Seq(Activation)]
         /\ StacksOK' /\ OneWinner' /\ EventAtMostOnce'
<1>1. /\ stack' \in [Threads -> Seq(Activation)] /\ stack'[t] = s
      /\ \A u \in Threads : u # t => stack'[u] = stack[u]
  BY Zenon DEF IInv, TypeOK
<1>2. StacksOK'
  BY <1>1 DEF IInv, StacksOK, ActivationOK
<1>3. \A u \in Threads : \A k \in 1..Len(stack'[u]) : stack'[u][k].pc = "event" =>
        k \in 1..Len(stack[u]) /\ stack'[u][k] = stack[u][k]
  BY <1>1, Zenon
<1>4. OneWinner'
  BY <1>3, SMTT(30) DEF IInv, OneWinner
<1>5. QED
  BY <1>1, <1>2, <1>4, Zenon DEF IInv, EventAtMostOnce

(* A callback pushes a fresh activation on its own.                        *)
LEMMA CallbackCreateStep ==
  ASSUME IInv, NEW t \in Threads, CallbackCreate(t)
  PROVE  IInv'
<1> DEFINE f == Top(t)
           s == stack[t]
           g == [f EXCEPT !.todo = Tail(f.todo)]
           h == Frame(Head(f.todo))
           r == [s EXCEPT ![Len(s)] = g]
<1>1. /\ Running(t) /\ f.pc \in {"pre", "post"} /\ f.todo # <<>>
      /\ stack' = [stack EXCEPT ![t] = Append(r, h)]
      /\ UNCHANGED <<attribute_nodes, events, returned, failed>>
  BY Zenon DEF CallbackCreate, At
<1>2. /\ f \in Activation /\ ActivationOK(f) /\ Len(s) \in 1..Len(s)
      /\ s \in Seq(Activation)
  BY <1>1, TopFacts, Zenon DEF IInv, TypeOK
<1>3. Tail(f.todo) \in Seq(Names) /\ Head(f.todo) \in Names
  BY <1>1, <1>2 DEF Activation
<1>4. g \in Activation /\ g.pc = f.pc /\ ActivationOK(g)
  BY <1>2, <1>3, Zenon DEF Activation, ActivationOK
<1>5. h \in Activation /\ ActivationOK(h) /\ h.pc = "lookup"
  BY <1>3, FrameFacts, Zenon
<1> HIDE DEF f, g, h
<1>6. /\ r \in Seq(Activation) /\ Len(r) = Len(s)
      /\ \A k \in 1..Len(s) : r[k] = IF k = Len(s) THEN g ELSE s[k]
  BY <1>2, <1>4
<1> HIDE DEF r
<1>7. PICK q \in Seq(Activation) : q = Append(r, h)
  <2>1. Append(r, h) \in Seq(Activation)
    BY <1>5, <1>6
  <2>2. QED
    BY <2>1, Zenon
<1>8. \A k \in 1..Len(q) : q[k] = h \/ q[k] = g \/ (k \in 1..Len(s) /\ q[k] = s[k])
  BY <1>5, <1>6, <1>7, <1>2
<1>9. \A k \in 1..Len(q) :
           \/ ActivationOK(q[k]) /\ q[k].pc # "event"
           \/ k \in 1..Len(stack[t]) /\ q[k] = stack[t][k]
  BY <1>1, <1>4, <1>5, <1>8, Zenon
<1>10. stack' = [stack EXCEPT ![t] = q]
  BY <1>1, <1>7, Zenon
<1>11. /\ stack' \in [Threads -> Seq(Activation)]
       /\ StacksOK' /\ OneWinner' /\ EventAtMostOnce'
  BY ONLY IInv, <1>1, <1>9, <1>10, StackStep, t \in Threads, q \in Seq(Activation), Zenon
<1>12. QED
  BY <1>1, <1>11, Zenon DEF IInv, TypeOK, OneAttributePerName

(* An idle thread starts with one fresh activation.                        *)
LEMMA CallStep ==
  ASSUME IInv, NEW t \in Threads, NEW n \in Names, Call(t, n)
  PROVE  IInv'
<1> DEFINE q == <<Frame(n)>>
<1>1. q \in Seq(Activation) /\ \A k \in 1..Len(q) : ActivationOK(q[k]) /\ q[k].pc # "event"
  BY FrameFacts
<1>2. stack' = [stack EXCEPT ![t] = q] /\ UNCHANGED <<attribute_nodes, events, returned, failed>>
  BY Zenon DEF Call
<1> HIDE DEF q
<1>3. /\ stack' \in [Threads -> Seq(Activation)]
      /\ StacksOK' /\ OneWinner' /\ EventAtMostOnce'
  BY <1>1, <1>2, StackStep, ZenonT(60)
<1>4. QED
  BY <1>2, <1>3, Zenon DEF IInv, TypeOK, OneAttributePerName

(* What a call returns is what is registered.                              *)
LEMMA ReturnStep ==
  ASSUME IInv, NEW t \in Threads, Return(t)
  PROVE  IInv'
<1> DEFINE f == Top(t)
           s == stack[t]
<1>1. /\ Running(t) /\ f.pc = "return"
      /\ returned' = returned \cup {<<f.name, f.node>>}
      /\ stack' = [stack EXCEPT ![t] = SubSeq(s, 1, Len(s) - 1)]
      /\ UNCHANGED <<attribute_nodes, events, failed>>
  BY Zenon DEF Return, At, IInv, TypeOK
<1>2. /\ f \in Activation /\ ActivationOK(f) /\ Len(s) \in 1..Len(s)
      /\ s \in Seq(Activation)
  BY <1>1, TopFacts, Zenon DEF IInv, TypeOK
<1>3. f.name \in Names /\ f.node \in MaybeNode
      /\ (f.node # Null => attribute_nodes[f.name] = f.node)
  BY <1>1, <1>2, Zenon DEF Activation, ActivationOK
<1> HIDE DEF f
<1>4. PICK q : q = SubSeq(s, 1, Len(s) - 1)
  BY Zenon
<1>5. q \in Seq(Activation) /\ \A k \in 1..Len(q) : k \in 1..Len(s) /\ q[k] = s[k]
  BY <1>2, <1>4
<1>6. stack' = [stack EXCEPT ![t] = q]
  BY <1>1, <1>4, Zenon
<1>7. /\ stack' \in [Threads -> Seq(Activation)]
      /\ StacksOK' /\ OneWinner' /\ EventAtMostOnce'
  BY <1>1, <1>5, <1>6, StackStep, Zenon
<1>8. TypeOK'
  BY <1>1, <1>3, <1>7 DEF IInv, TypeOK
<1>9. OneAttributePerName'
  BY <1>1, <1>3 DEF IInv, OneAttributePerName
<1>10. QED
  BY <1>7, <1>8, <1>9, Zenon DEF IInv

(* get_attribute returns what is registered.                               *)
LEMMA GetAttributeStep ==
  ASSUME IInv, NEW t \in Threads, NEW n \in Names, GetAttribute(t, n)
  PROVE  IInv'
<1>1. /\ returned' = returned \cup {<<n, attribute_nodes[n]>>}
      /\ UNCHANGED <<attribute_nodes, stack, events, failed>>
  BY Zenon DEF GetAttribute
<1>2. TypeOK'
  BY <1>1 DEF IInv, TypeOK
<1>3. OneAttributePerName'
  BY <1>1 DEF IInv, OneAttributePerName
<1>4. StacksOK' /\ OneWinner' /\ EventAtMostOnce'
  BY <1>1 DEF IInv, StacksOK, ActivationOK, OneWinner, EventAtMostOnce
<1>5. QED
  BY <1>2, <1>3, <1>4, Zenon DEF IInv

(* IInv is inductive: one case for each action.                            *)
LEMMA Inductive == IInv /\ [Next]_vars => IInv'
<1> SUFFICES ASSUME IInv, [Next]_vars
             PROVE  IInv'
  BY Zenon
<1>1. CASE UNCHANGED vars
  <2>1. UNCHANGED <<attribute_nodes, stack, events, returned, failed>>
    BY <1>1, Zenon DEF vars
  <2>2. TypeOK' /\ EventAtMostOnce' /\ OneAttributePerName'
    BY <2>1, Zenon DEF IInv, TypeOK, EventAtMostOnce, OneAttributePerName
  <2>3. OneWinner'
    BY <2>1 DEF IInv, OneWinner
  <2>4. StacksOK'
    BY <2>1 DEF IInv, StacksOK, ActivationOK, Node
  <2>5. QED
    BY <2>2, <2>3, <2>4, Zenon DEF IInv
<1>2. ASSUME NEW t \in Threads, Step(t)
      PROVE  IInv'
  BY <1>2, LookupStep, CallbackCreateStep, MakeNodeStep, InsertStep, CreateEventStep,
     EventDoneStep, ReturnStep, Zenon DEF Step
<1>3. ASSUME NEW t \in Threads, NEW n \in Names, Call(t, n) \/ GetAttribute(t, n)
      PROVE  IInv'
  BY <1>3, CallStep, GetAttributeStep, Zenon
<1>4. QED
  BY <1>1, <1>2, <1>3, Zenon DEF Next

-----------------------------------------------------------------------------
(* The second layer: failures and derived attributes.                      *)

Available(n) == attribute_nodes[n] # Null \/ n \in failed

(* The callback of the k-th activation of t has still to create n, or is   *)
(* creating it now.                                                        *)
Pending(t, k, n) ==
  \/ \E j \in 1..Len(stack[t][k].todo) : stack[t][k].todo[j] = n
  \/ k < Len(stack[t]) /\ stack[t][k + 1].name = n

(* What the k-th activation of t knows of failures and derived names.      *)
KnowsDerived(t, k) ==
  LET f == stack[t][k]
      b == Before[f.name]
  IN  /\ f.pc = "return" /\ f.node = Null => f.name \in failed
      /\ f.pc = "pre" => \A i \in 1..Len(b) : Available(b[i]) \/ Pending(t, k, b[i])
      /\ f.pc = "insert" => \A i \in 1..Len(b) : Available(b[i])

DInv ==
  /\ \A t \in Threads : \A k \in 1..Len(stack[t]) : KnowsDerived(t, k)
  /\ CallsSucceed
  /\ DerivedFirst

(* Nothing is unregistered and no failure forgotten, so what is available  *)
(* stays available.                                                        *)
Grows ==
  /\ \A n \in Names : Available(n) => Available(n)'
  /\ failed \subseteq failed'

(* The activations of other threads only need Grows.                       *)
LEMMA OthersKnow ==
  ASSUME TypeOK, DInv, Grows, NEW u \in Threads, stack'[u] = stack[u],
         NEW k \in 1..Len(stack[u])
  PROVE  KnowsDerived(u, k)'
<1> DEFINE f == stack[u][k]
           b == Before[f.name]
<1>1. f \in Activation
  BY DEF TypeOK
<1>n. f.name \in Names
  BY <1>1, Zenon DEF Activation
<1>2. b \in Seq(Names) /\ \A i \in 1..Len(b) : b[i] \in Names
  BY <1>n, DerivedAssumption
<1>3. KnowsDerived(u, k)
  BY Zenon DEF DInv
<1>4. \A i \in 1..Len(b) : Pending(u, k, b[i]) => Pending(u, k, b[i])'
  BY Zenon DEF Pending
<1> HIDE DEF b
<1>5. QED
  BY <1>2, <1>3, <1>4, Zenon DEF KnowsDerived, Grows, b

(* A step of the top activation that keeps its name.                       *)
LEMMA TopKnows ==
  ASSUME IInv, DInv, Grows, NEW t \in Threads, Running(t), NEW f \in Activation,
         f.name = Top(t).name, stack' = WithTop(t, f),
         NEW n \in Nat, n = Len(stack[t]), KnowsDerived(t, n)'
  PROVE  \A u \in Threads : \A k \in 1..Len(stack'[u]) : KnowsDerived(u, k)'
<1>1. /\ Len(stack[t]) \in 1..Len(stack[t])
      /\ Top(t) = stack[t][Len(stack[t])]
      /\ \A u \in Threads : Len(stack'[u]) = Len(stack[u])
      /\ \A u \in Threads : \A k \in 1..Len(stack[u]) :
           stack'[u][k] = IF u = t /\ k = Len(stack[t]) THEN f ELSE stack[u][k]
  BY WithTopFacts, Zenon DEF IInv
<1> SUFFICES ASSUME NEW u \in Threads, NEW k \in 1..Len(stack[u])
             PROVE  KnowsDerived(u, k)'
  BY <1>1, Zenon
<1>2. CASE u # t
  <2>1. stack'[u] = stack[u]
    BY <1>2, Zenon DEF WithTop, IInv, TypeOK
  <2>2. QED
    BY <2>1, OthersKnow, Zenon DEF IInv
<1>3. CASE u = t /\ k = n
  BY <1>3, Zenon
<1>4. CASE u = t /\ k # n
  <2> DEFINE g == stack[t][k]
             b == Before[g.name]
  <2>1. /\ stack'[t][k] = g /\ k + 1 \in 1..Len(stack[t])
        /\ stack'[t][k + 1].name = stack[t][k + 1].name
        /\ Len(stack'[t]) = Len(stack[t])
    BY <1>1, <1>4
  <2>2. g \in Activation
    BY <1>4 DEF IInv, TypeOK
  <2>n. g.name \in Names
    BY <2>2, Zenon DEF Activation
  <2>3. b \in Seq(Names) /\ \A i \in 1..Len(b) : b[i] \in Names
    BY <2>n, DerivedAssumption
  <2>4. KnowsDerived(t, k)
    BY <1>4, Zenon DEF DInv
  <2>5. \A i \in 1..Len(b) : Pending(t, k, b[i]) => Pending(t, k, b[i])'
    BY <2>1, Zenon DEF Pending
  <2> HIDE DEF b
  <2>6. KnowsDerived(t, k)'
    BY <2>1, <2>3, <2>4, <2>5, ZenonT(60) DEF KnowsDerived, Grows, b
  <2>7. QED
    BY <1>4, <2>6, Zenon
<1>5. QED
  BY <1>2, <1>3, <1>4, Zenon

(* As long as no name is registered, DerivedFirst only needs Grows.        *)
LEMMA DerivedKept ==
  ASSUME TypeOK, DerivedFirst, Grows, UNCHANGED attribute_nodes
  PROVE  DerivedFirst'
<1> SUFFICES ASSUME NEW n \in Names, attribute_nodes[n] # Null, NEW i \in 1..Len(Before[n])
             PROVE  Available(Before[n][i])'
  BY Zenon DEF DerivedFirst, Available
<1>1. Before[n][i] \in Names
  BY DerivedAssumption
<1>2. Available(Before[n][i])
  BY Zenon DEF DerivedFirst, Available
<1>3. QED
  BY <1>1, <1>2, Zenon DEF Grows

(* The first look.                                                         *)
LEMMA LookupDerived ==
  ASSUME IInv, DInv, NEW t \in Threads, Lookup(t)
  PROVE  DInv'
<1> DEFINE f == Top(t)
           found == attribute_nodes[f.name]
           g == IF found # Null THEN [f EXCEPT !.node = found, !.pc = "return"]
                ELSE [f EXCEPT !.todo = Before[f.name], !.pc = "pre"]
<1>1. /\ Running(t) /\ f.pc = "lookup" /\ stack' = WithTop(t, g)
      /\ UNCHANGED <<attribute_nodes, events, returned, failed>>
  BY Zenon DEF Lookup, At
<1>2. f \in Activation /\ f.name \in Names
  BY <1>1, TopFacts, Zenon DEF Activation
<1>n. PICK n \in Nat : n = Len(stack[t]) /\ n \in 1..Len(stack[t])
  BY <1>1, TopFacts
<1>3. /\ g \in Activation /\ g.name = f.name /\ g.pc \in {"return", "pre"}
      /\ g.pc = "return" => g.node # Null
      /\ g.pc = "pre" => g.todo = Before[g.name]
  BY <1>2, DerivedAssumption, ZenonT(60) DEF Activation, IInv, TypeOK
<1> HIDE DEF g
<1>4. stack'[t][n] = g
  BY <1>1, <1>n, <1>3, WithTopFacts, Zenon DEF IInv
<1>5. KnowsDerived(t, n)'
  BY <1>3, <1>4, Zenon DEF KnowsDerived, Pending
<1>6. Grows
  BY <1>1, Zenon DEF Grows, Available
<1>7. \A u \in Threads : \A k \in 1..Len(stack'[u]) : KnowsDerived(u, k)'
  BY <1>1, <1>n, <1>3, <1>5, <1>6, TopKnows, Zenon
<1>8. QED
  BY <1>1, <1>6, <1>7, DerivedKept, Zenon DEF DInv, CallsSucceed, IInv

(* MakeNode: the callbacks are done, so what they had to create is there.  *)
LEMMA MakeNodeDerived ==
  ASSUME IInv, DInv, NEW t \in Threads, MakeNode(t)
  PROVE  DInv'
<1> DEFINE f == Top(t)
           b == Before[f.name]
<1>1. /\ Running(t) /\ f.pc = "pre" /\ f.todo = <<>>
      /\ UNCHANGED <<attribute_nodes, events, returned>>
  BY ZenonT(60) DEF MakeNode, At
<1>2. f \in Activation /\ f.name \in Names
  BY <1>1, TopFacts, Zenon DEF Activation
<1>n. PICK n \in Nat : n = Len(stack[t]) /\ n \in 1..Len(stack[t]) /\ f = stack[t][n]
  BY <1>1, TopFacts DEF Top
<1>3. b \in Seq(Names) /\ \A i \in 1..Len(b) : b[i] \in Names
  BY <1>2, DerivedAssumption
<1>4. \A i \in 1..Len(b) : Available(b[i])
  <2>1. KnowsDerived(t, n)
    BY <1>n, Zenon DEF DInv
  <2>2. \A i \in 1..Len(b) : ~Pending(t, n, b[i])
    BY <1>1, <1>n DEF Pending
  <2>3. QED
    BY <1>1, <1>n, <2>1, <2>2, Zenon DEF KnowsDerived
<1>5. Grows
  BY <1>1, ZenonT(60) DEF MakeNode, Grows, Available
<1>6. PICK g \in Activation :
        /\ stack' = WithTop(t, g) /\ g.name = f.name
        /\ \/ g.pc = "insert"
           \/ g.pc = "return" /\ f.name \in failed'
  <2>1. ASSUME NEW x \in Node(f.name), stack' = WithTop(t, [f EXCEPT !.node = x, !.pc = "insert"])
        PROVE  \E g \in Activation : stack' = WithTop(t, g) /\ g.name = f.name /\ g.pc = "insert"
    <3> DEFINE g == [f EXCEPT !.node = x, !.pc = "insert"]
    <3>1. g \in Activation /\ g.name = f.name /\ g.pc = "insert"
      BY <1>2, ZenonT(60) DEF Activation, Node, MaybeNode
    <3> HIDE DEF g
    <3>2. QED
      BY <2>1, <3>1, Zenon DEF g
  <2>2. ASSUME stack' = WithTop(t, [f EXCEPT !.pc = "return"])
        PROVE  \E g \in Activation : stack' = WithTop(t, g) /\ g.name = f.name /\ g.pc = "return"
    BY <1>2, <2>2 DEF Activation
  <2>3. QED
    BY <2>1, <2>2, ZenonT(60) DEF MakeNode
<1>7. stack'[t][n] = g
  BY <1>1, <1>n, <1>6, WithTopFacts, Zenon DEF IInv
<1> HIDE DEF f
<1>8. KnowsDerived(t, n)'
  BY <1>3, <1>4, <1>5, <1>6, <1>7, Zenon DEF KnowsDerived, Grows
<1>9. \A u \in Threads : \A k \in 1..Len(stack'[u]) : KnowsDerived(u, k)'
  BY <1>1, <1>n, <1>5, <1>6, <1>8, TopKnows, Zenon DEF f
<1>10. QED
  BY <1>1, <1>5, <1>9, DerivedKept, Zenon DEF DInv, CallsSucceed, IInv, Grows

(* Registering a name: its derived attributes are there.                   *)
LEMMA InsertDerived ==
  ASSUME IInv, DInv, NEW t \in Threads, Insert(t)
  PROVE  DInv'
<1> DEFINE f == Top(t)
           b == Before[f.name]
           found == attribute_nodes[f.name]
<1>1. Running(t) /\ f.pc = "insert" /\ UNCHANGED <<events, returned, failed>>
  BY Zenon DEF Insert, At
<1>2. f \in Activation /\ f.name \in Names /\ f.node \in Node(f.name) /\ f.node # Null
  BY <1>1, TopFacts, NullAssumption, Zenon DEF Activation, ActivationOK, Node
<1>n. PICK n \in Nat : n = Len(stack[t]) /\ n \in 1..Len(stack[t]) /\ f = stack[t][n]
  BY <1>1, TopFacts DEF Top
<1>3. b \in Seq(Names) /\ \A i \in 1..Len(b) : b[i] \in Names
  BY <1>2, DerivedAssumption
<1>4. \A i \in 1..Len(b) : Available(b[i])
  BY <1>1, <1>n, ZenonT(60) DEF DInv, KnowsDerived
<1>5. \A m \in Names : attribute_nodes'[m] = IF m = f.name /\ found = Null
                                             THEN f.node ELSE attribute_nodes[m]
  BY <1>2, Zenon DEF Insert, IInv, TypeOK
<1>6. Grows
  BY <1>1, <1>2, <1>5, Zenon DEF Grows, Available
<1>7. PICK g \in Activation :
        /\ stack' = WithTop(t, g) /\ g.name = f.name
        /\ g.pc = "event" \/ (g.pc = "return" /\ g.node # Null)
  <2>1. CASE found = Null
    <3> DEFINE g == [f EXCEPT !.pc = "event"]
    <3>1. g \in Activation /\ g.name = f.name /\ g.pc = "event"
      BY <1>2, Zenon DEF Activation
    <3> HIDE DEF g
    <3>2. QED
      BY <2>1, <3>1, Zenon DEF Insert, g
  <2>2. CASE found # Null
    <3> DEFINE g == [f EXCEPT !.node = found, !.pc = "return"]
    <3>1. g \in Activation /\ g.name = f.name /\ g.pc = "return" /\ g.node # Null
      BY <1>2, <2>2, ZenonT(60) DEF Activation, IInv, TypeOK
    <3> HIDE DEF g
    <3>2. QED
      BY <2>2, <3>1, Zenon DEF Insert, g
  <2>3. QED
    BY <2>1, <2>2, Zenon
<1>8. stack'[t][n] = g
  BY <1>1, <1>n, <1>7, WithTopFacts, Zenon DEF IInv
<1>9. KnowsDerived(t, n)'
  BY <1>7, <1>8, Zenon DEF KnowsDerived
<1>10. \A u \in Threads : \A k \in 1..Len(stack'[u]) : KnowsDerived(u, k)'
  BY <1>1, <1>n, <1>6, <1>7, <1>9, TopKnows, Zenon
<1>11. DerivedFirst'
  <2> SUFFICES ASSUME NEW m \in Names, attribute_nodes'[m] # Null, NEW i \in 1..Len(Before[m])
               PROVE  Available(Before[m][i])'
    BY Zenon DEF DerivedFirst, Available
  <2>1. Before[m][i] \in Names
    BY DerivedAssumption
  <2>2. Available(Before[m][i])
    BY <1>4, <1>5, Zenon DEF DInv, DerivedFirst, Available
  <2>3. QED
    BY <1>6, <2>1, <2>2, Zenon DEF Grows
<1>12. QED
  BY <1>1, <1>10, <1>11, Zenon DEF DInv, CallsSucceed

(* After it is registered an attribute only needs what is available.       *)
LEMMA EventDerived ==
  ASSUME IInv, DInv, NEW t \in Threads, CreateEvent(t) \/ EventDone(t)
  PROVE  DInv'
<1> DEFINE f == Top(t)
<1>1. /\ Running(t) /\ f.pc \in {"event", "post"}
      /\ UNCHANGED <<attribute_nodes, returned, failed>>
  BY Zenon DEF CreateEvent, EventDone, At
<1>2. f \in Activation /\ f.name \in Names /\ f.node # Null
  BY <1>1, TopFacts, Zenon DEF Activation, ActivationOK
<1>n. PICK n \in Nat : n = Len(stack[t]) /\ n \in 1..Len(stack[t])
  BY <1>1, TopFacts
<1>3. PICK g \in Activation :
        /\ stack' = WithTop(t, g) /\ g.name = f.name
        /\ g.pc = "post" \/ (g.pc = "return" /\ g.node # Null)
  <2>1. CASE CreateEvent(t)
    <3> DEFINE g == [f EXCEPT !.todo = After[f.name], !.pc = "post"]
    <3>1. g \in Activation /\ g.name = f.name /\ g.pc = "post"
      BY <1>2, DerivedAssumption, Zenon DEF Activation
    <3> HIDE DEF g
    <3>2. QED
      BY <2>1, <3>1, Zenon DEF CreateEvent, g
  <2>2. CASE EventDone(t)
    <3> DEFINE g == [f EXCEPT !.pc = "return"]
    <3>1. g \in Activation /\ g.name = f.name /\ g.pc = "return" /\ g.node # Null
      BY <1>2, Zenon DEF Activation
    <3> HIDE DEF g
    <3>2. QED
      BY <2>2, <3>1, ZenonT(60) DEF EventDone, g
  <2>3. QED
    BY <2>1, <2>2, Zenon
<1>4. stack'[t][n] = g
  BY <1>1, <1>n, <1>3, WithTopFacts, Zenon DEF IInv
<1>5. KnowsDerived(t, n)'
  BY <1>3, <1>4, Zenon DEF KnowsDerived
<1>6. Grows
  BY <1>1, Zenon DEF Grows, Available
<1>7. \A u \in Threads : \A k \in 1..Len(stack'[u]) : KnowsDerived(u, k)'
  BY <1>1, <1>n, <1>3, <1>5, <1>6, TopKnows, Zenon
<1>8. QED
  BY <1>1, <1>6, <1>7, DerivedKept, Zenon DEF DInv, CallsSucceed, IInv

(* An activation that stays where it is while nothing is registered or     *)
(* fails: each name it waits for is available or still waited for.         *)
LEMMA StillKnows ==
  ASSUME NEW u, NEW k, KnowsDerived(u, k), UNCHANGED <<attribute_nodes, failed>>,
         NEW g, g = stack'[u][k], NEW f, f = stack[u][k],
         g.name = f.name, g.pc = f.pc, g.node = f.node, NEW b, b = Before[f.name],
         \A i \in 1..Len(b) : Pending(u, k, b[i]) => Available(b[i]) \/ Pending(u, k, b[i])'
  PROVE  KnowsDerived(u, k)'
<1>1. \A n : Available(n) <=> Available(n)'
  BY Zenon DEF Available
<1>2. QED
  BY <1>1, ZenonT(60) DEF KnowsDerived

(* A callback takes the next name from its list and starts to create it.   *)
LEMMA CallbackDerived ==
  ASSUME IInv, DInv, NEW t \in Threads, CallbackCreate(t)
  PROVE  DInv'
<1> DEFINE f == Top(t)
           s == stack[t]
           g == [f EXCEPT !.todo = Tail(f.todo)]
           h == Frame(Head(f.todo))
           r == [s EXCEPT ![Len(s)] = g]
           q == Append(r, h)
<1>1. /\ Running(t) /\ f.todo # <<>>
      /\ stack' = [stack EXCEPT ![t] = q]
      /\ UNCHANGED <<attribute_nodes, events, returned, failed>>
  BY Zenon DEF CallbackCreate, At
<1>2. f \in Activation /\ s \in Seq(Activation)
  BY <1>1, TopFacts, Zenon DEF IInv, TypeOK
<1>n. PICK n \in Nat : n = Len(s) /\ n \in 1..Len(s) /\ f = s[n]
  BY <1>1, TopFacts DEF Top
<1>3. f.todo \in Seq(Names) /\ Tail(f.todo) \in Seq(Names) /\ Head(f.todo) \in Names
      /\ Head(f.todo) = f.todo[1] /\ Len(f.todo) \in Nat /\ Len(Tail(f.todo)) = Len(f.todo) - 1
      /\ \A j \in 1..Len(f.todo) : j # 1 => Tail(f.todo)[j - 1] = f.todo[j]
  BY <1>1, <1>2 DEF Activation
<1>4. /\ g \in Activation /\ g.pc = f.pc /\ g.name = f.name /\ g.node = f.node
      /\ g.todo = Tail(f.todo)
  BY <1>2, <1>3, ZenonT(60) DEF Activation
<1>5. h \in Activation /\ h.pc = "lookup" /\ h.name = Head(f.todo)
  BY <1>3, FrameFacts, Zenon DEF Frame
<1> HIDE DEF f, g, h
<1>6. /\ r \in Seq(Activation) /\ Len(r) = n
      /\ \A k \in 1..n : r[k] = IF k = n THEN g ELSE s[k]
  BY <1>2, <1>4, <1>n
<1> HIDE DEF r
<1>7. /\ Len(q) = n + 1 /\ q[n + 1] = h
      /\ \A k \in 1..n : q[k] = r[k]
  BY <1>5, <1>6
<1> HIDE DEF q
<1>8. stack'[t] = q /\ \A u \in Threads : u # t => stack'[u] = stack[u]
  BY <1>1, Zenon DEF IInv, TypeOK
<1>9. Grows
  BY <1>1, Zenon DEF Grows, Available
<1>10. ASSUME NEW k \in 1..(n + 1)
       PROVE  KnowsDerived(t, k)'
  <2>1. CASE k = n + 1
    BY <1>5, <1>7, <1>8, <2>1, Zenon DEF KnowsDerived
  <2>2. CASE k = n
    <3> PICK b : b = Before[f.name]
      BY Zenon
    <3>1. KnowsDerived(t, n)
      BY <1>n, Zenon DEF DInv
    <3>2. ASSUME NEW i \in 1..Len(b), Pending(t, n, b[i])
          PROVE  Pending(t, n, b[i])'
      <4>a. stack[t][n] = f /\ ~(n < Len(stack[t]))
        BY <1>n
      <4>1. PICK j \in 1..Len(f.todo) : f.todo[j] = b[i]
        BY <3>2, <4>a, ZenonT(60) DEF Pending
      <4>2. CASE j = 1
        BY <1>3, <1>5, <1>7, <1>8, <4>1, <4>2 DEF Pending
      <4>3. CASE j # 1
        <5>1. j - 1 \in 1..Len(g.todo) /\ g.todo[j - 1] = b[i]
          BY <1>3, <1>4, <4>1, <4>3
        <5>2. stack'[t][n] = g
          BY <1>n, <1>6, <1>7, <1>8, Zenon
        <5>3. QED
          BY <5>1, <5>2, Zenon DEF Pending
      <4>4. QED
        BY <4>2, <4>3, Zenon
    <3>3. stack'[t][n] = g
      BY <1>n, <1>6, <1>7, <1>8, Zenon
    <3>4. KnowsDerived(t, n)'
      BY <1>1, <1>n, <1>4, <3>1, <3>2, <3>3, StillKnows, SMTT(30)
    <3>5. QED
      BY <2>2, <3>4, Zenon
  <2>3. CASE k \in 1..(n - 1)
    <3> PICK x, b : x = s[k] /\ b = Before[x.name]
      BY Zenon
    <3>1. KnowsDerived(t, k)
      BY <1>n, <2>3 DEF DInv
    <3>2. stack'[t][k] = x /\ stack'[t][k + 1].name = s[k + 1].name /\ k < Len(stack'[t]) /\ k < Len(s)
      <4>1. k \in 1..n /\ k + 1 \in 1..n /\ k # n /\ k < n + 1 /\ k < n
        BY ONLY n \in Nat, <2>3
      <4>2. stack'[t][k] = x
        BY <1>6, <1>7, <1>8, <4>1, Zenon
      <4>3. stack'[t][k + 1].name = s[k + 1].name
        BY <1>n, <1>4, <1>6, <1>7, <1>8, <4>1, Zenon
      <4>4. QED
        BY <1>n, <1>7, <1>8, <4>1, <4>2, <4>3, Zenon
    <3>3. \A i \in 1..Len(b) : Pending(t, k, b[i]) => Pending(t, k, b[i])'
      BY <3>2, Zenon DEF Pending
    <3>4. QED
      BY <1>1, <3>1, <3>2, <3>3, StillKnows, Zenon
  <2>4. QED
    BY <1>n, <2>1, <2>2, <2>3
<1>11. \A u \in Threads : \A k \in 1..Len(stack'[u]) : KnowsDerived(u, k)'
  BY <1>7, <1>8, <1>9, <1>10, OthersKnow, Zenon DEF IInv
<1>12. QED
  BY <1>1, <1>9, <1>11, DerivedKept, Zenon DEF DInv, CallsSucceed, IInv

(* What a nested call returns is available to the callback below it.       *)
LEMMA ReturnDerived ==
  ASSUME IInv, DInv, NEW t \in Threads, Return(t)
  PROVE  DInv'
<1> DEFINE f == Top(t)
           s == stack[t]
           q == SubSeq(s, 1, Len(s) - 1)
<1>1. /\ Running(t) /\ f.pc = "return"
      /\ returned' = returned \cup {<<f.name, f.node>>}
      /\ stack' = [stack EXCEPT ![t] = q]
      /\ UNCHANGED <<attribute_nodes, events, failed>>
  BY Zenon DEF Return, At
<1>2. f \in Activation /\ f.name \in Names /\ s \in Seq(Activation)
  BY <1>1, TopFacts, Zenon DEF IInv, TypeOK, Activation
<1>n. PICK n \in Nat : n = Len(s) /\ n \in 1..Len(s) /\ f = s[n]
  BY <1>1, TopFacts DEF Top
<1>3. f.node # Null \/ f.name \in failed
  BY <1>1, <1>n, Zenon DEF DInv, KnowsDerived
<1>4. Available(f.name)
  BY <1>1, <1>3, TopFacts, Zenon DEF ActivationOK, Available
<1> HIDE DEF f
<1>5. Len(q) = n - 1 /\ \A k \in 1..(n - 1) : q[k] = s[k]
  BY <1>2, <1>n
<1> HIDE DEF q
<1>6. stack'[t] = q /\ \A u \in Threads : u # t => stack'[u] = stack[u]
  BY <1>1, Zenon DEF IInv, TypeOK
<1>7. Grows
  BY <1>1, Zenon DEF Grows, Available
<1>8. ASSUME NEW k \in 1..(n - 1)
      PROVE  KnowsDerived(t, k)'
  <2> PICK x, b : x = s[k] /\ b = Before[x.name]
    BY Zenon
  <2>1. KnowsDerived(t, k) /\ stack'[t][k] = x
    BY <1>n, <1>5, <1>6 DEF DInv
  <2>2. ASSUME NEW i \in 1..Len(b), Pending(t, k, b[i])
        PROVE  Available(b[i]) \/ Pending(t, k, b[i])'
    <3>1. CASE k = n - 1
      <4>1. stack[t][k] = x /\ stack[t][k + 1] = f
        BY <1>n, <3>1
      <4>2. CASE \E j \in 1..Len(stack[t][k].todo) : stack[t][k].todo[j] = b[i]
        BY <2>1, <4>1, <4>2, Zenon DEF Pending
      <4>3. CASE f.name = b[i]
        BY <1>4, <4>3, Zenon
      <4>4. QED
        BY <2>2, <4>1, <4>2, <4>3, ZenonT(60) DEF Pending
    <3>2. CASE k # n - 1
      <4>1. k + 1 \in 1..(n - 1) /\ stack'[t][k + 1] = s[k + 1] /\ k < Len(stack'[t])
        BY <1>5, <1>6, <3>2
      <4>2. QED
        BY <2>1, <2>2, <4>1, ZenonT(60) DEF Pending
    <3>3. QED
      BY <3>1, <3>2, Zenon
  <2>3. QED
    BY <1>1, <2>1, <2>2, StillKnows, Zenon
<1>9. \A u \in Threads : \A k \in 1..Len(stack'[u]) : KnowsDerived(u, k)'
  BY <1>5, <1>6, <1>7, <1>8, OthersKnow, Zenon DEF IInv
<1>10. CallsSucceed'
  BY <1>1, <1>3 DEF DInv, CallsSucceed
<1>11. QED
  BY <1>1, <1>7, <1>9, <1>10, DerivedKept, Zenon DEF DInv, IInv

(* A call from the program, and get_attribute.                             *)
LEMMA CallDerived ==
  ASSUME IInv, DInv, NEW t \in Threads, NEW n \in Names, Call(t, n) \/ GetAttribute(t, n)
  PROVE  DInv'
<1>1. UNCHANGED <<attribute_nodes, failed>>
  BY Zenon DEF Call, GetAttribute
<1>2. Grows
  BY <1>1, Zenon DEF Grows, Available
<1>3. CallsSucceed'
  BY DEF Call, GetAttribute, DInv, CallsSucceed
<1>4. CASE Call(t, n)
  <2>1. /\ Len(stack'[t]) = 1 /\ stack'[t][1].pc = "lookup"
        /\ \A u \in Threads : u # t => stack'[u] = stack[u]
    BY <1>4, Zenon DEF Call, Frame, IInv, TypeOK
  <2>2. \A k \in 1..Len(stack'[t]) : KnowsDerived(t, k)'
    BY <2>1 DEF KnowsDerived
  <2>3. \A u \in Threads : \A k \in 1..Len(stack'[u]) : KnowsDerived(u, k)'
    BY <1>2, <2>1, <2>2, OthersKnow, ZenonT(60) DEF IInv
  <2>4. QED
    BY <1>1, <1>2, <1>3, <2>3, DerivedKept, Zenon DEF DInv, IInv
<1>5. CASE GetAttribute(t, n)
  <2>1. stack' = stack
    BY <1>5, Zenon DEF GetAttribute
  <2>2. \A u \in Threads : \A k \in 1..Len(stack'[u]) : KnowsDerived(u, k)'
    BY <1>2, <2>1, OthersKnow, Zenon DEF IInv
  <2>3. QED
    BY <1>1, <1>2, <1>3, <2>2, DerivedKept, Zenon DEF DInv, IInv
<1>6. QED
  BY <1>4, <1>5, Zenon

(* DInv is inductive relative to IInv: one case for each action.           *)
LEMMA DerivedInductive == IInv /\ DInv /\ [Next]_vars => DInv'
<1> SUFFICES ASSUME IInv, DInv, [Next]_vars
             PROVE  DInv'
  BY Zenon
<1>1. CASE UNCHANGED vars
  <2>1. UNCHANGED <<attribute_nodes, stack, returned, failed>>
    BY <1>1, Zenon DEF vars
  <2>2. Grows
    BY <2>1, Zenon DEF Grows, Available
  <2>3. \A u \in Threads : \A k \in 1..Len(stack'[u]) : KnowsDerived(u, k)'
    BY <2>1, <2>2, OthersKnow, Zenon DEF IInv
  <2>4. QED
    BY <2>1, <2>2, <2>3, DerivedKept, Zenon DEF DInv, CallsSucceed, IInv
<1>2. ASSUME NEW t \in Threads, Step(t)
      PROVE  DInv'
  BY <1>2, LookupDerived, CallbackDerived, MakeNodeDerived, InsertDerived, EventDerived,
     ReturnDerived, Zenon DEF Step
<1>3. ASSUME NEW t \in Threads, NEW n \in Names, Call(t, n) \/ GetAttribute(t, n)
      PROVE  DInv'
  BY <1>3, CallDerived, Zenon
<1>4. QED
  BY <1>1, <1>2, <1>3, Zenon DEF Next

(* create_attribute keeps all its promises, for any threads, names,        *)
(* callbacks and interleaving, and whether or not the tree runs out of     *)
(* nodes: all calls that return an attribute for a name return the same    *)
(* one, a call fails only where the tree had no room, create_attr_evt runs *)
(* at most once for a name, after it can be looked up, and a name can be   *)
(* looked up only after those its pre_create_attr_evt callbacks derive     *)
(* from it (Caliper.cpp:542-551, EventTrigger.cpp:171).                    *)
THEOREM RegistryAlwaysSound == Spec => []RegistrySound
<1>1. Init => IInv /\ DInv
  <2>1. Init => IInv
    BY NullAssumption DEF Init, IInv, TypeOK, StacksOK, OneWinner, EventAtMostOnce,
                          OneAttributePerName, MaybeNode
  <2>2. Init => DInv
    BY DEF Init, DInv, CallsSucceed, DerivedFirst
  <2>3. QED
    BY <2>1, <2>2, Zenon
<1>2. IInv /\ DInv => RegistrySound
  BY Zenon DEF IInv, DInv, RegistrySound
<1>3. QED
  BY <1>1, <1>2, Inductive, DerivedInductive, PTL DEF Spec
=============================================================================
