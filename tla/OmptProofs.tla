----------------------------- MODULE OmptProofs -----------------------------
(***************************************************************************)
(* The OMPT service: the callbacks of the OpenMP runtime, each of them on  *)
(* the thread it is about, proved for any number of threads, parallel      *)
(* regions and nested events.  A thread's open regions are compared with   *)
(* what was begun for them through positions in the sequence of events.    *)
(***************************************************************************)
EXTENDS Ompt, WellFoundedInduction, TLAPS

(* A nonempty set of numbers has a least element.                          *)
LEMMA LeastOf ==
  ASSUME NEW T, T \subseteq Nat, T # {}
  PROVE  \E i \in T : \A j \in T : i <= j
<1>1. PICK R : R = OpToRel(<, Nat)
  BY Zenon
<1>2. IsWellFoundedOn(R, Nat)
  BY <1>1, NatLessThanWellFounded, Zenon
<1>3. PICK i \in T : \A j \in T : ~(<<j, i>> \in R)
  BY <1>2, WFMin, Zenon
<1>4. \A j \in Nat, k \in Nat : j < k => <<j, k>> \in R
  BY <1>1, Zenon DEF OpToRel
<1>5. \A j \in T : i <= j
  <2> SUFFICES ASSUME NEW j \in T, ~(i <= j) PROVE FALSE
    BY Zenon
  <2>1. i \in Nat /\ j \in Nat /\ j < i
    OBVIOUS
  <2>2. QED
    BY <1>3, <1>4, <2>1, Zenon
<1>6. QED
  BY <1>5, Zenon

(* Subsequences.  r consists of the elements of s at the positions in P,   *)
(* in their order.                                                         *)

Selects(P, r, s) ==
  \E f \in [1..Len(r) -> 1..Len(s)] :
    /\ \A i, j \in 1..Len(r) : i < j => f[i] < f[j]
    /\ \A k \in 1..Len(s) : k \in P <=> \E i \in 1..Len(r) : f[i] = k
    /\ \A i \in 1..Len(r) : r[i] = s[f[i]]

LEMMA SelectsNone ==
  ASSUME NEW S, NEW s \in Seq(S), NEW P, \A k \in 1..Len(s) : k \notin P
  PROVE  Selects(P, <<>>, s)
<1>1. PICK f : f = [i \in {} |-> 1]
  BY Zenon
<1>2. f \in [{} -> 1..Len(s)]
  BY <1>1, Zenon
<1>3. 1..Len(<<>>) = {}
  OBVIOUS
<1>4. QED
  BY <1>2, <1>3, Zenon DEF Selects

LEMMA SelectsAppend ==
  ASSUME NEW S, NEW r \in Seq(S), NEW s \in Seq(S), NEW c \in S, NEW P, NEW Q,
         Selects(P, r, s), \A k \in 1..Len(s) : k \in Q <=> k \in P
  PROVE  IF Len(s) + 1 \in Q THEN Selects(Q, Append(r, c), Append(s, c))
                             ELSE Selects(Q, r, Append(s, c))
<1>1. PICK f \in [1..Len(r) -> 1..Len(s)] :
        /\ \A i, j \in 1..Len(r) : i < j => f[i] < f[j]
        /\ \A k \in 1..Len(s) : k \in P <=> \E i \in 1..Len(r) : f[i] = k
        /\ \A i \in 1..Len(r) : r[i] = s[f[i]]
  BY Zenon DEF Selects
<1>2. PICK n \in Nat, m \in Nat : n = Len(r) /\ m = Len(s)
  OBVIOUS
<1>3. PICK q : q = Append(s, c)
  BY Zenon
<1>4. Len(q) = m + 1 /\ q[m + 1] = c /\ \A k \in 1..m : q[k] = s[k]
  BY <1>2, <1>3
<1>5. CASE m + 1 \in Q
  <2>1. PICK p : p = Append(r, c)
    BY Zenon
  <2>2. Len(p) = n + 1 /\ p[n + 1] = c /\ \A i \in 1..n : p[i] = r[i]
    BY <1>2, <2>1
  <2>3. PICK g : g = [i \in 1..Len(p) |-> IF i = n + 1 THEN m + 1 ELSE f[i]]
    BY Zenon
  <2>4. g[n + 1] = m + 1 /\ \A i \in 1..n : g[i] = f[i] /\ f[i] \in 1..m
    <3>1. f \in [1..n -> 1..m] /\ g = [i \in 1..(n + 1) |-> IF i = n + 1 THEN m + 1 ELSE f[i]]
      BY <1>2, <2>2, <2>3, Zenon
    <3>2. n + 1 \in 1..(n + 1) /\ \A i \in 1..n : i \in 1..(n + 1) /\ i # n + 1
      BY ONLY n \in Nat
    <3>3. QED
      BY ONLY <3>1, <3>2, Zenon
  <2>5. g \in [1..Len(p) -> 1..Len(q)]
    BY ONLY <1>1, <1>2, <1>4, <2>2, <2>3
  <2>6. \A i, j \in 1..Len(p) : i < j => g[i] < g[j]
    <3> SUFFICES ASSUME NEW i \in 1..Len(p), NEW j \in 1..Len(p), i < j
                 PROVE  g[i] < g[j]
      BY Zenon
    <3>1. i \in 1..n /\ (j = n + 1 \/ j \in 1..n)
      BY ONLY <1>2, <2>2, i \in 1..Len(p), j \in 1..Len(p), i < j
    <3>2. CASE j = n + 1
      BY ONLY <1>2, <2>4, <3>1, <3>2
    <3>3. CASE j \in 1..n
      <4>1. f[i] < f[j]
        BY ONLY <1>1, <1>2, <3>1, <3>3, i < j, Zenon
      <4>2. QED
        BY ONLY <2>4, <3>1, <3>3, <4>1, Zenon
    <3>4. QED
      BY <3>1, <3>2, <3>3, Zenon
  <2>7. \A k \in 1..Len(q) : k \in Q <=> \E i \in 1..Len(p) : g[i] = k
    <3> SUFFICES ASSUME NEW k \in 1..Len(q)
                 PROVE  k \in Q <=> \E i \in 1..Len(p) : g[i] = k
      BY Zenon
    <3>1. CASE k = m + 1
      <4>1. n + 1 \in 1..Len(p) /\ g[n + 1] = k
        BY ONLY <1>2, <2>2, <2>4, <3>1
      <4>2. QED
        BY <1>5, <3>1, <4>1, Zenon
    <3>2. CASE k \in 1..m
      <4>1. \A i \in 1..Len(p) : g[i] = k <=> i \in 1..n /\ f[i] = k
        BY ONLY <1>2, <2>2, <2>3, <2>4, <3>2
      <4>2. \A i \in 1..n : i \in 1..Len(p)
        BY ONLY <1>2, <2>2
      <4>3. k \in Q <=> \E i \in 1..n : f[i] = k
        BY <1>1, <1>2, <3>2, Zenon
      <4>4. QED
        BY ONLY <4>1, <4>2, <4>3, Zenon
    <3>3. QED
      BY ONLY <1>2, <1>4, <3>1, <3>2, k \in 1..Len(q)
  <2>8. \A i \in 1..Len(p) : p[i] = q[g[i]]
    <3> SUFFICES ASSUME NEW i \in 1..Len(p)
                 PROVE  p[i] = q[g[i]]
      BY Zenon
    <3>1. CASE i = n + 1
      BY ONLY <1>4, <2>2, <2>4, <3>1, Zenon
    <3>2. CASE i \in 1..n
      <4>1. p[i] = r[i] /\ r[i] = s[f[i]] /\ g[i] = f[i] /\ f[i] \in 1..m
        BY ONLY <1>1, <1>2, <2>2, <2>4, <3>2, Zenon
      <4>2. QED
        BY ONLY <1>4, <4>1, Zenon
    <3>3. QED
      BY ONLY <1>2, <2>2, <3>1, <3>2, i \in 1..Len(p)
  <2>9. Selects(Q, p, q)
    BY ONLY <2>5, <2>6, <2>7, <2>8, Zenon DEF Selects
  <2>10. QED
    BY <1>2, <1>3, <1>5, <2>1, <2>9, Zenon
<1>6. CASE m + 1 \notin Q
  <2>1. f \in [1..Len(r) -> 1..Len(q)]
    BY ONLY <1>1, <1>2, <1>4
  <2>2. \A k \in 1..Len(q) : k \in Q <=> \E i \in 1..Len(r) : f[i] = k
    <3> SUFFICES ASSUME NEW k \in 1..Len(q)
                 PROVE  k \in Q <=> \E i \in 1..Len(r) : f[i] = k
      BY Zenon
    <3>1. CASE k = m + 1
      <4>1. \A i \in 1..Len(r) : f[i] # k
        BY ONLY <1>1, <1>2, <3>1
      <4>2. QED
        BY <1>6, <3>1, <4>1, Zenon
    <3>2. CASE k \in 1..m
      BY <1>1, <1>2, <3>2, Zenon
    <3>3. QED
      BY ONLY <1>2, <1>4, <3>1, <3>2, k \in 1..Len(q)
  <2>3. \A i \in 1..Len(r) : r[i] = q[f[i]]
    BY ONLY <1>1, <1>2, <1>4, Zenon
  <2>4. Selects(Q, r, q)
    BY ONLY <1>1, <2>1, <2>2, <2>3, Zenon DEF Selects
  <2>5. QED
    BY <1>2, <1>3, <1>6, <2>4, Zenon
<1>7. QED
  BY <1>5, <1>6, Zenon

(* All but the last element.                                               *)
AllButLast(s) == SubSeq(s, 1, Len(s) - 1)

LEMMA LastGone ==
  ASSUME NEW S, NEW s \in Seq(S), s # <<>>
  PROVE  /\ AllButLast(s) \in Seq(S) /\ Len(AllButLast(s)) = Len(s) - 1
         /\ \A k \in 1..(Len(s) - 1) : AllButLast(s)[k] = s[k]
         /\ Len(s) \in Nat /\ Len(s) \in 1..Len(s) /\ s[Len(s)] \in S
<1>1. PICK n \in Nat : n = Len(s) /\ n > 0
  OBVIOUS
<1>2. Len(AllButLast(s)) = n - 1 /\ \A k \in 1..(n - 1) : AllButLast(s)[k] = s[k]
  BY <1>1 DEF AllButLast
<1>3. AllButLast(s) \in Seq(S)
  BY <1>1 DEF AllButLast
<1>4. QED
  BY <1>1, <1>2, <1>3

LEMMA SelectsPop ==
  ASSUME NEW S, NEW r \in Seq(S), NEW s \in Seq(S), s # <<>>, NEW P, NEW Q,
         Selects(P, r, s), \A k \in 1..(Len(s) - 1) : k \in Q <=> k \in P
  PROVE  IF Len(s) \in P THEN r # <<>> /\ r[Len(r)] = s[Len(s)] /\ Selects(Q, AllButLast(r), AllButLast(s))
                         ELSE Selects(Q, r, AllButLast(s))
<1>1. PICK f \in [1..Len(r) -> 1..Len(s)] :
        /\ \A i, j \in 1..Len(r) : i < j => f[i] < f[j]
        /\ \A k \in 1..Len(s) : k \in P <=> \E i \in 1..Len(r) : f[i] = k
        /\ \A i \in 1..Len(r) : r[i] = s[f[i]]
  BY Zenon DEF Selects
<1>2. PICK n \in Nat, m \in Nat : n = Len(r) /\ m = Len(s) /\ m > 0
  OBVIOUS
<1>3. PICK q : q = AllButLast(s)
  BY Zenon
<1>4. Len(q) = m - 1 /\ \A k \in 1..(m - 1) : q[k] = s[k]
  BY <1>2, <1>3 DEF AllButLast
<1>5. CASE m \in P
  <2>1. PICK e \in 1..n : f[e] = m
    BY ONLY <1>1, <1>2, <1>5
  <2>2. n > 0 /\ e = n /\ f[n] = m /\ r[n] = s[m]
    BY ONLY <1>1, <1>2, <2>1
  <2>3. PICK p : p = AllButLast(r)
    BY Zenon
  <2>4. Len(p) = n - 1 /\ \A i \in 1..(n - 1) : p[i] = r[i]
    BY <1>2, <2>2, <2>3 DEF AllButLast
  <2>5. PICK g : g = [i \in 1..Len(p) |-> f[i]]
    BY Zenon
  <2>6. g \in [1..Len(p) -> 1..Len(q)] /\ \A i \in 1..(n - 1) : g[i] = f[i] /\ f[i] \in 1..(m - 1)
    <3>1. f \in [1..n -> 1..m] /\ g = [i \in 1..(n - 1) |-> f[i]]
      BY <1>2, <2>4, <2>5, Zenon
    <3>2. \A i \in 1..(n - 1) : i \in 1..n /\ f[i] < f[n]
      BY ONLY <1>1, <1>2, <2>2
    <3>3. \A i \in 1..(n - 1) : f[i] \in 1..(m - 1)
      <4> SUFFICES ASSUME NEW i \in 1..(n - 1)
                   PROVE  f[i] \in 1..(m - 1)
        BY Zenon
      <4>1. f[i] \in 1..m /\ f[i] < m
        BY ONLY <2>2, <3>1, <3>2, i \in 1..(n - 1), Zenon
      <4>2. QED
        BY ONLY <4>1, m \in Nat
    <3>4. QED
      BY ONLY <1>4, <2>4, <3>1, <3>3, Zenon
  <2>7. \A i, j \in 1..Len(p) : i < j => g[i] < g[j]
    BY ONLY <1>1, <1>2, <2>4, <2>6
  <2>8. \A k \in 1..Len(q) : k \in Q <=> \E i \in 1..Len(p) : g[i] = k
    <3> SUFFICES ASSUME NEW k \in 1..(m - 1)
                 PROVE  k \in Q <=> \E i \in 1..(n - 1) : g[i] = k
      BY <1>4, <2>4, Zenon
    <3>1. k \in Q <=> \E i \in 1..n : f[i] = k
      <4>1. k \in Q <=> k \in P
        BY <1>2, Zenon
      <4>2. k \in P <=> \E i \in 1..n : f[i] = k
        BY ONLY <1>1, <1>2, k \in 1..(m - 1)
      <4>3. QED
        BY <4>1, <4>2, Zenon
    <3>2. \A i \in 1..n : f[i] = k => i \in 1..(n - 1)
      BY ONLY <1>2, <2>2, k \in 1..(m - 1)
    <3>3. \A i \in 1..(n - 1) : i \in 1..n
      BY ONLY <1>2
    <3>4. QED
      BY ONLY <2>6, <3>1, <3>2, <3>3, Zenon
  <2>9. \A i \in 1..Len(p) : p[i] = q[g[i]]
    <3> SUFFICES ASSUME NEW i \in 1..(n - 1)
                 PROVE  p[i] = q[g[i]]
      BY <2>4, Zenon
    <3>1. p[i] = r[i] /\ r[i] = s[f[i]] /\ g[i] = f[i] /\ f[i] \in 1..(m - 1)
      BY ONLY <1>1, <1>2, <2>4, <2>6, i \in 1..(n - 1)
    <3>2. QED
      BY ONLY <1>4, <3>1, Zenon
  <2>10. Selects(Q, p, q)
    BY ONLY <2>6, <2>7, <2>8, <2>9, Zenon DEF Selects
  <2>11. QED
    BY <1>2, <1>3, <1>5, <2>2, <2>3, <2>10
<1>6. CASE m \notin P
  <2>1. \A i \in 1..n : f[i] # m /\ f[i] \in 1..(m - 1)
    BY ONLY <1>1, <1>2, <1>6
  <2>2. f \in [1..Len(r) -> 1..Len(q)]
    BY ONLY <1>1, <1>2, <1>4, <2>1, Zenon
  <2>3. \A k \in 1..Len(q) : k \in Q <=> \E i \in 1..Len(r) : f[i] = k
    <3> SUFFICES ASSUME NEW k \in 1..(m - 1)
                 PROVE  k \in Q <=> \E i \in 1..Len(r) : f[i] = k
      BY <1>4, Zenon
    <3>1. k \in Q <=> k \in P
      BY <1>2, Zenon
    <3>2. k \in P <=> \E i \in 1..Len(r) : f[i] = k
      BY ONLY <1>1, <1>2, k \in 1..(m - 1)
    <3>3. QED
      BY <3>1, <3>2, Zenon
  <2>4. \A i \in 1..Len(r) : r[i] = q[f[i]]
    BY ONLY <1>1, <1>2, <1>4, <2>1, Zenon
  <2>5. Selects(Q, r, q)
    BY ONLY <1>1, <2>2, <2>3, <2>4, Zenon DEF Selects
  <2>6. QED
    BY <1>2, <1>3, <1>6, <2>5, Zenon
<1>7. QED
  BY <1>5, <1>6, Zenon
-----------------------------------------------------------------------------
(* The OpenMP tools service.                                               *)

Kinds == {Constructs[i] : i \in 1..Len(Constructs)}
CbSet == ({"thread", "control"} \cup Kinds) \X {"begin", "end", "any"}
OmRecord == [enabled : BOOLEAN, permOff : BOOLEAN, finished : BOOLEAN, mapping : BOOLEAN,
             events : BOOLEAN, states : BOOLEAN, up : BOOLEAN, cbs : SUBSET CbSet,
             controls : Nat, paused : BOOLEAN]
ScopeRecord == [live : BOOLEAN, tid : OmThreads \cup {0}, state : RunStates \cup {"none"},
                region : Seq(Kinds)]
ThreadRecord == [at : {"out", "insert", "run", "release"}, ctx : Nat, in : Seq(Kinds),
                 lives : Nat, state : RunStates \cup {"none"}]

OmTypeOK ==
  /\ om \in OmRecord /\ threadEnv \in [OmThreads -> Nat]
  /\ scopes \in Seq(ScopeRecord) /\ Len(scopes) > 0
  /\ omth \in [OmThreads -> ThreadRecord]

(* Callbacks are set in order, so no construct is captured unless threads  *)
(* are followed from beginning to end; before any is set nothing runs.     *)
CbsInOrder ==
  /\ \A c \in Kinds : Calls(c, "begin") => Calls("thread", "end")
  /\ Calls("thread", "end") => Calls("thread", "begin")
  /\ ~Calls("thread", "end") => \A s \in 1..Len(scopes) : scopes[s].region = <<>>
  /\ ~om.up => /\ om.cbs = {}
               /\ \A t \in OmThreads : EnvOf(t) = 0 /\ omth[t].at = "out" /\ omth[t].lives = 0
  /\ ~om.paused => om.enabled
  /\ ~om.mapping => \A t \in OmThreads : EnvOf(t) = 0 /\ omth[t].at # "release"

(* The scope in a thread's map entry, or in its hands on the way there or  *)
(* back, is live and its own; the default scope is the initial thread's.   *)
Owns(t, s) == s # 0 /\ (EnvOf(t) = s \/ (omth[t].at \in {"insert", "release"} /\ omth[t].ctx = s))
Owned(t, s) ==
  Owns(t, s) =>
    /\ s \in 1..Len(scopes) /\ scopes[s].live
    /\ s = Default => t = Initial
    /\ \A u \in OmThreads : Owns(u, s) => u = t

(* A map entry outlives its thread only if thread ends are not followed.   *)
Stale == om.finished \/ ~Calls("thread", "end")
ThreadSound(t) ==
  /\ omth[t].at = "run" /\ Calls("thread", "begin") => EnvOf(t) # 0 /\ scopes[EnvOf(t)].tid = t
  /\ omth[t].at = "insert" => /\ Calls("thread", "begin") /\ omth[t].ctx # 0 /\ omth[t].in = <<>>
                              /\ scopes[omth[t].ctx].region = <<>>
  /\ omth[t].at \in {"out", "insert"} /\ EnvOf(t) # 0 => Stale
  /\ omth[t].at = "release" => EnvOf(t) = 0 /\ omth[t].ctx # 0
  /\ t = Initial /\ omth[t].lives = 0 =>
       /\ EnvOf(t) = 0 /\ omth[t].at = "out"
       /\ scopes[Default].live /\ scopes[Default].region = <<>>

(* The positions of s with a construct whose begin is captured.            *)
Begun(cbs, s) == {k \in 1..Len(s) : <<s[k], "begin">> \in cbs}
Symmetric == \A i \in 1..Len(Constructs) : Calls(Constructs[i], "begin") = Calls(Constructs[i], "end")
RegionsOwn(t) ==
  omth[t].at = "run" /\ ~om.paused /\ ~om.finished /\ Symmetric =>
    Selects(Begun(om.cbs, omth[t].in), scopes[GetThreadScope(t)].region, omth[t].in)

OmInv ==
  /\ OmTypeOK /\ CbsInOrder
  /\ om.mapping => /\ \A t \in OmThreads, s \in Nat : Owned(t, s)
                   /\ \A t \in OmThreads : ThreadSound(t) /\ RegionsOwn(t)

LEMMA Joined ==
  ASSUME NEW S, NEW a \in Seq(S), NEW b \in Seq(S)
  PROVE  a \o b \in Seq(S) /\ Len(a \o b) = Len(a) + Len(b) /\ Len(b) \in Nat
  OBVIOUS

LEMMA CallbackFacts ==
  ASSUME OmTypeOK, NEW n \in 0..Len(Callbacks), NEW C, C = {Callbacks[i] : i \in 1..n}
  PROVE  /\ C \in SUBSET CbSet
         /\ \A c \in Kinds : <<c, "begin">> \in C => <<"thread", "end">> \in C
         /\ <<"thread", "end">> \in C => <<"thread", "begin">> \in C
<1>1. PICK L \in Nat : L = Len(Constructs)
  BY OmptAssumption
<1>2. PICK B : B = IF ~om.events THEN <<>>
                   ELSE [i \in 1..2 * Len(Constructs) |->
                           <<Constructs[(i + 1) \div 2], IF i % 2 = 1 THEN "begin" ELSE "end">>]
  BY Zenon
<1>3. B \in Seq(CbSet)
  <2>1. CASE ~om.events
    BY <1>2, <2>1
  <2>2. CASE om.events
    <3>1. \A i \in 1..2 * L : (i + 1) \div 2 \in 1..L
      BY ONLY L \in Nat
    <3>2. \A i \in 1..2 * L : Constructs[(i + 1) \div 2] \in Kinds
      BY <1>1, <3>1, Zenon DEF Kinds
    <3>3. \A i \in 1..2 * L : <<Constructs[(i + 1) \div 2], IF i % 2 = 1 THEN "begin" ELSE "end">> \in CbSet
      BY <3>2, Zenon DEF CbSet
    <3>4. B = [i \in 1..2 * L |-> <<Constructs[(i + 1) \div 2], IF i % 2 = 1 THEN "begin" ELSE "end">>]
      BY <1>1, <1>2, <2>2, Zenon
    <3>5. B \in [1..2 * L -> CbSet] /\ 2 * L \in Nat
      BY <3>3, <3>4
    <3>6. QED
      BY ONLY <3>5
  <2>3. QED
    BY <2>1, <2>2, Zenon
<1>4. PICK A : A = <<<<"thread", "begin">>, <<"thread", "end">>, <<"control", "any">>>>
  BY Zenon
<1>5. A \in Seq(CbSet) /\ Len(A) = 3
  BY <1>4 DEF CbSet
<1>6. Callbacks = A \o B
  BY <1>2, <1>4, Zenon DEF Callbacks
<1>7. Callbacks \in Seq(CbSet) /\ Len(Callbacks) >= 3
  <2>1. A \o B \in Seq(CbSet) /\ Len(A \o B) = Len(A) + Len(B) /\ Len(B) \in Nat
    BY <1>3, <1>5, Joined, Zenon
  <2>2. Len(A \o B) >= 3
    BY ONLY <1>5, <2>1
  <2>3. QED
    BY <1>6, <2>1, <2>2, Zenon
<1>8. Callbacks[1] = <<"thread", "begin">> /\ Callbacks[2] = <<"thread", "end">> /\ Callbacks[3] = <<"control", "any">>
  BY ONLY <1>3, <1>4, <1>5, <1>6
<1>9. \A i \in 1..n : Callbacks[i] \in CbSet
  BY <1>7
<1>10. \A c \in Kinds : <<c, "begin">> \in C => <<"thread", "end">> \in C
  <2> SUFFICES ASSUME NEW c \in Kinds, <<c, "begin">> \in C
               PROVE  <<"thread", "end">> \in C
    BY Zenon
  <2>1. PICK i \in 1..n : Callbacks[i] = <<c, "begin">>
    BY Zenon
  <2>2. c # "thread"
    BY OmptAssumption, Zenon DEF Kinds
  <2>3. i # 1
    BY <1>8, <2>1, <2>2
  <2>4. 2 \in 1..n
    BY ONLY <2>3, i \in 1..n, n \in 0..Len(Callbacks), <1>7
  <2>5. QED
    BY <1>8, <2>4, Zenon
<1>11. <<"thread", "end">> \in C => <<"thread", "begin">> \in C
  <2> SUFFICES ASSUME <<"thread", "end">> \in C
               PROVE  <<"thread", "begin">> \in C
    BY Zenon
  <2>1. PICK i \in 1..n : Callbacks[i] = <<"thread", "end">>
    BY Zenon
  <2>2. 1 \in 1..n
    BY ONLY i \in 1..n, n \in 0..Len(Callbacks), <1>7
  <2>3. QED
    BY <1>8, <2>2, Zenon
<1>12. QED
  BY <1>9, <1>10, <1>11, Zenon

(* A thread's scope exists; two running threads that capture constructs    *)
(* have different ones.                                                    *)
LEMMA ScopeExists ==
  ASSUME OmInv, NEW t \in OmThreads
  PROVE  GetThreadScope(t) \in 1..Len(scopes) /\ scopes[GetThreadScope(t)] \in ScopeRecord
<1>1. scopes \in Seq(ScopeRecord) /\ Len(scopes) > 0 /\ threadEnv \in [OmThreads -> Nat]
  BY Zenon DEF OmInv, OmTypeOK
<1>2. om.mapping => Owned(t, EnvOf(t))
  BY <1>1, Zenon DEF OmInv, EnvOf
<1>3. GetThreadScope(t) \in 1..Len(scopes)
  BY <1>1, <1>2 DEF GetThreadScope, Owned, Owns, Default
<1>4. QED
  BY <1>1, <1>3

LEMMA OwnScope ==
  ASSUME OmInv, om.mapping, Calls("thread", "begin"), NEW t \in OmThreads, omth[t].at = "run"
  PROVE  /\ EnvOf(t) # 0 /\ GetThreadScope(t) = EnvOf(t) /\ Owns(t, GetThreadScope(t))
         /\ \A u \in OmThreads : Owns(u, GetThreadScope(t)) => u = t
         /\ GetThreadScope(t) = Default => t = Initial
<1>1. EnvOf(t) # 0 /\ EnvOf(t) \in Nat
  BY Zenon DEF OmInv, ThreadSound, OmTypeOK, EnvOf
<1>2. GetThreadScope(t) = EnvOf(t) /\ Owns(t, EnvOf(t)) /\ Owned(t, EnvOf(t))
  BY <1>1, Zenon DEF OmInv, GetThreadScope, Owns
<1>3. QED
  BY <1>1, <1>2, Zenon DEF Owned

LEMMA ScopeSet ==
  ASSUME NEW S, NEW q \in Seq(S), NEW s \in 1..Len(q), NEW r \in S
  PROVE  /\ [q EXCEPT ![s] = r] \in Seq(S) /\ Len([q EXCEPT ![s] = r]) = Len(q)
         /\ [q EXCEPT ![s] = r][s] = r
         /\ \A i \in 1..Len(q) : i # s => [q EXCEPT ![s] = r][i] = q[i]
  OBVIOUS

(* What the callbacks write into a scope.                                  *)
LEMMA ScopeTid ==
  ASSUME NEW r \in ScopeRecord, NEW t \in OmThreads
  PROVE  /\ [r EXCEPT !.tid = t] \in ScopeRecord /\ [r EXCEPT !.tid = t].live = r.live
         /\ [r EXCEPT !.tid = t].region = r.region /\ [r EXCEPT !.tid = t].tid = t
  BY Zenon DEF ScopeRecord

LEMMA ScopeState ==
  ASSUME NEW r \in ScopeRecord, NEW z \in RunStates
  PROVE  /\ [r EXCEPT !.state = z] \in ScopeRecord /\ [r EXCEPT !.state = z].live = r.live
         /\ [r EXCEPT !.state = z].region = r.region /\ [r EXCEPT !.state = z].tid = r.tid
  BY Zenon DEF ScopeRecord

LEMMA ScopeRegion ==
  ASSUME NEW r \in ScopeRecord, NEW q \in Seq(Kinds)
  PROVE  /\ [r EXCEPT !.region = q] \in ScopeRecord /\ [r EXCEPT !.region = q].live = r.live
         /\ [r EXCEPT !.region = q].region = q /\ [r EXCEPT !.region = q].tid = r.tid
  BY Zenon DEF ScopeRecord

LEMMA ScopeGone ==
  ASSUME NEW r \in ScopeRecord
  PROVE  /\ [r EXCEPT !.live = FALSE] \in ScopeRecord
         /\ [r EXCEPT !.live = FALSE].region = r.region /\ [r EXCEPT !.live = FALSE].tid = r.tid
  BY Zenon DEF ScopeRecord

LEMMA OmInitially == OmInit => OmInv
<1> SUFFICES ASSUME OmInit PROVE OmInv
  BY Zenon
<1>1. PICK c \in OmConfigs :
        om = [enabled |-> TRUE, permOff |-> FALSE, finished |-> FALSE,
              mapping |-> c.mapping, events |-> c.events, states |-> c.states,
              up |-> FALSE, cbs |-> {}, controls |-> 0, paused |-> FALSE]
  BY Zenon DEF OmInit
<1>2. om \in OmRecord /\ om.cbs = {} /\ ~om.up /\ ~om.paused /\ om.enabled
  BY <1>1, OmptAssumption, Zenon DEF OmRecord
<1>3. /\ threadEnv = [t \in OmThreads |-> 0] /\ scopes = <<EmptyScope>>
      /\ omth = [t \in OmThreads |->
                  [at |-> "out", ctx |-> 0, in |-> <<>>, lives |-> 0, state |-> "none"]]
  BY Zenon DEF OmInit
<1>4. EmptyScope \in ScopeRecord /\ EmptyScope.live /\ EmptyScope.region = <<>>
  BY DEF EmptyScope, ScopeRecord
<1>5. scopes \in Seq(ScopeRecord) /\ Len(scopes) = 1 /\ scopes[1] = EmptyScope
  BY <1>3, <1>4
<1>6. omth \in [OmThreads -> ThreadRecord]
  BY <1>3 DEF ThreadRecord
<1>7. \A t \in OmThreads : EnvOf(t) = 0 /\ omth[t].at = "out" /\ omth[t].lives = 0
  BY <1>3, Zenon DEF EnvOf
<1>8. OmTypeOK
  BY <1>2, <1>3, <1>5, <1>6 DEF OmTypeOK
<1>9. CbsInOrder
  <2>1. \A s \in 1..Len(scopes) : scopes[s].region = <<>>
    BY <1>4, <1>5
  <2>2. QED
    BY <1>2, <1>7, <2>1, Zenon DEF CbsInOrder, Calls
<1>10. \A t \in OmThreads, s \in Nat : Owned(t, s)
  BY <1>7 DEF Owned, Owns
<1>11. \A t \in OmThreads : ThreadSound(t) /\ RegionsOwn(t)
  BY <1>4, <1>5, <1>7, Zenon DEF ThreadSound, RegionsOwn, Default
<1>12. QED
  BY <1>8, <1>9, <1>10, <1>11, Zenon DEF OmInv

(* Steps that leave the map, the threads' places and what scopes hold of   *)
(* regions alone.                                                          *)
SameScopes == /\ Len(scopes') = Len(scopes)
              /\ \A s \in 1..Len(scopes) : /\ scopes'[s].live = scopes[s].live
                                           /\ scopes'[s].tid = scopes[s].tid
                                           /\ scopes'[s].region = scopes[s].region
SamePlaces == /\ threadEnv' = threadEnv
              /\ \A t \in OmThreads : /\ omth'[t].at = omth[t].at /\ omth'[t].ctx = omth[t].ctx
                                      /\ omth'[t].in = omth[t].in /\ omth'[t].lives = omth[t].lives
SameMode == /\ om'.cbs = om.cbs /\ om'.mapping = om.mapping /\ om'.up = om.up
            /\ (om.finished => om'.finished) /\ (om.paused => om'.paused)
            /\ (~om'.paused => om'.enabled)

LEMMA OmFrame ==
  ASSUME OmInv, OmTypeOK', SameScopes, SamePlaces, SameMode
  PROVE  OmInv'
<1>1. CbsInOrder'
  <2>0. CbsInOrder
    BY Zenon DEF OmInv
  <2>1. \A c, w : Calls(c, w)' <=> Calls(c, w)
    BY Zenon DEF SameMode, Calls
  <2>2. ~Calls("thread", "end")' => \A s \in 1..Len(scopes') : scopes'[s].region = <<>>
    BY <2>0, <2>1, Zenon DEF CbsInOrder, SameScopes
  <2>3. QED
    BY <2>0, <2>1, <2>2, Zenon DEF CbsInOrder, SamePlaces, SameMode, EnvOf
<1>2. ASSUME om'.mapping
      PROVE  /\ \A t \in OmThreads, s \in Nat : Owned(t, s)'
             /\ \A t \in OmThreads : ThreadSound(t)' /\ RegionsOwn(t)'
  <2>0. om.mapping /\ (\A t \in OmThreads, s \in Nat : Owned(t, s)) /\ (\A t \in OmThreads : ThreadSound(t) /\ RegionsOwn(t))
    BY <1>2, Zenon DEF OmInv, SameMode
  <2>1. \A t \in OmThreads, s \in Nat : Owns(t, s)' <=> Owns(t, s)
    BY Zenon DEF Owns, SamePlaces, EnvOf
  <2>2. \A t \in OmThreads, s \in Nat : Owned(t, s)'
    BY <2>0, <2>1, Zenon DEF Owned, SameScopes
  <2>3. ASSUME NEW t \in OmThreads
        PROVE  ThreadSound(t)' /\ RegionsOwn(t)'
    <3>1. EnvOf(t)' = EnvOf(t) /\ omth'[t].at = omth[t].at /\ omth'[t].ctx = omth[t].ctx
          /\ omth'[t].in = omth[t].in /\ omth'[t].lives = omth[t].lives
      BY Zenon DEF SamePlaces, EnvOf
    <3>2. \A c, w : Calls(c, w)' <=> Calls(c, w)
      BY Zenon DEF SameMode, Calls
    <3>3. EnvOf(t) \in Nat /\ omth[t].ctx \in Nat /\ 1 \in 1..Len(scopes)
      BY DEF OmInv, OmTypeOK, EnvOf, ThreadRecord
    <3>4. (EnvOf(t) # 0 => EnvOf(t) \in 1..Len(scopes))
          /\ (omth[t].at = "insert" /\ omth[t].ctx # 0 => omth[t].ctx \in 1..Len(scopes))
      BY <2>0, <3>3, Zenon DEF Owned, Owns
    <3>5. Stale => Stale'
      BY <3>2, Zenon DEF Stale, SameMode
    <3>6. ThreadSound(t)'
      BY <2>0, <3>1, <3>2, <3>3, <3>4, <3>5 DEF ThreadSound, SameScopes, Default
    <3>7. GetThreadScope(t)' = GetThreadScope(t) /\ GetThreadScope(t) \in 1..Len(scopes)
      BY <1>2, <2>0, <3>1, ScopeExists, Zenon DEF GetThreadScope
    <3>8. scopes'[GetThreadScope(t)'].region = scopes[GetThreadScope(t)].region
      BY <3>7, Zenon DEF SameScopes
    <3>9. Symmetric' => Symmetric
      BY <3>2, Zenon DEF Symmetric
    <3>10. Begun(om.cbs, omth[t].in)' = Begun(om.cbs, omth[t].in)
      BY <3>1, Zenon DEF Begun, SameMode
    <3>11. RegionsOwn(t)'
      BY <2>0, <3>1, <3>8, <3>9, <3>10, Zenon DEF RegionsOwn, SameMode
    <3>12. QED
      BY <3>6, <3>11, Zenon
  <2>4. QED
    BY <2>2, <2>3, Zenon
<1>3. QED
  BY <1>1, <1>2, Zenon DEF OmInv
LEMMA OmControl == ASSUME OmInv, NEW cmd \in {1, 2, 4}, Control(cmd) PROVE OmInv'
<1>0. om \in OmRecord
  BY Zenon DEF OmInv, OmTypeOK
<1>1. om' \in OmRecord
  <2>1. PICK e : e = CASE cmd = 1 -> om.enabled \/ ~om.permOff
                       [] cmd \in {2, 4} -> FALSE
                       [] OTHER -> om.enabled
    BY Zenon
  <2>2. e \in BOOLEAN
    BY <1>0, <2>1, Zenon DEF OmRecord
  <2>3. PICK o \in BOOLEAN : o = (om.permOff \/ cmd = 4)
    BY Zenon
  <2>6. PICK p \in BOOLEAN : p = (om.paused \/ cmd \in {2, 4})
    BY Zenon
  <2>7. PICK n \in Nat : n = om.controls + 1
    BY <1>0 DEF OmRecord
  <2>4. om' = [om EXCEPT !.controls = n, !.permOff = o, !.enabled = e, !.paused = p]
    BY <2>1, <2>3, <2>6, <2>7, Zenon DEF Control
  <2>5. QED
    BY <1>0, <2>2, <2>4, ZenonT(60) DEF OmRecord
<1>2. OmTypeOK' /\ SameScopes /\ SamePlaces
  BY <1>1, Zenon DEF Control, OmInv, OmTypeOK, SameScopes, SamePlaces
<1>3. SameMode
  <2>1. om.paused \/ om.enabled
    BY Zenon DEF OmInv, CbsInOrder
  <2>2. QED
    BY <1>0, <2>1, Zenon DEF Control, OmRecord, SameMode
<1>4. QED
  BY <1>2, <1>3, OmFrame, Zenon

LEMMA OmFinishes == ASSUME OmInv, OmFinish PROVE OmInv'
<1>0. om \in OmRecord /\ (om.paused \/ om.enabled)
  BY Zenon DEF OmInv, OmTypeOK, CbsInOrder
<1>1. om' \in OmRecord /\ SameMode
  BY <1>0, Zenon DEF OmFinish, OmRecord, SameMode
<1>2. OmTypeOK' /\ SameScopes /\ SamePlaces
  BY <1>1, Zenon DEF OmFinish, OmInv, OmTypeOK, SameScopes, SamePlaces
<1>3. QED
  BY <1>1, <1>2, OmFrame, Zenon

LEMMA OmRuntimeState ==
  ASSUME OmInv, NEW t \in OmThreads, NEW s \in RunStates, RuntimeState(t, s)
  PROVE  OmInv'
<1>0. omth \in [OmThreads -> ThreadRecord] /\ (om.paused \/ om.enabled)
  BY Zenon DEF OmInv, OmTypeOK, CbsInOrder
<1>1. omth' \in [OmThreads -> ThreadRecord] /\ SamePlaces
  BY <1>0, Zenon DEF RuntimeState, ThreadRecord, SamePlaces
<1>2. OmTypeOK' /\ SameScopes /\ SameMode
  BY <1>0, <1>1, Zenon DEF RuntimeState, OmInv, OmTypeOK, SameScopes, SameMode
<1>3. QED
  BY <1>1, <1>2, OmFrame, Zenon

LEMMA OmSnapshot == ASSUME OmInv, NEW t \in OmThreads, Snapshot(t) PROVE OmInv'
<1>0. scopes \in Seq(ScopeRecord) /\ Len(scopes) > 0 /\ (om.paused \/ om.enabled)
  BY Zenon DEF OmInv, OmTypeOK, CbsInOrder
<1>1. PICK g \in 1..Len(scopes) : g = GetThreadScope(t)
  BY ScopeExists, Zenon
<1>2. PICK r : r = [scopes[g] EXCEPT !.state = omth[t].state]
  BY Zenon
<1>3. /\ r \in ScopeRecord /\ r.live = scopes[g].live /\ r.tid = scopes[g].tid
      /\ r.region = scopes[g].region
  <2>1. scopes[g] \in ScopeRecord /\ omth[t].state \in RunStates
    BY <1>0 DEF Snapshot
  <2>2. QED
    BY <1>2, <2>1, ScopeState, Zenon
<1>4. scopes' = [scopes EXCEPT ![g] = r]
  BY <1>1, <1>2, Zenon DEF Snapshot
<1>5. scopes' \in Seq(ScopeRecord) /\ Len(scopes') = Len(scopes) /\ scopes'[g] = r
      /\ \A s \in 1..Len(scopes) : s # g => scopes'[s] = scopes[s]
  BY <1>0, <1>3, <1>4, ScopeSet
<1>6. SameScopes
  BY <1>3, <1>5, Zenon DEF SameScopes
<1>7. OmTypeOK' /\ SamePlaces /\ SameMode
  BY <1>0, <1>5, Zenon DEF Snapshot, OmInv, OmTypeOK, SamePlaces, SameMode
<1>8. QED
  BY <1>6, <1>7, OmFrame, Zenon

LEMMA OmInitialize ==
  ASSUME OmInv, NEW n \in 0..Len(Callbacks), OmptInitialize(n)
  PROVE  OmInv'
<1>0. om \in OmRecord /\ scopes \in Seq(ScopeRecord) /\ Len(scopes) > 0 /\ (om.paused \/ om.enabled)
      /\ CbsInOrder
  BY Zenon DEF OmInv, OmTypeOK, CbsInOrder
<1>1. PICK C : C = {Callbacks[i] : i \in 1..n}
  BY Zenon
<1>2. /\ C \in SUBSET CbSet
      /\ \A c \in Kinds : <<c, "begin">> \in C => <<"thread", "end">> \in C
      /\ <<"thread", "end">> \in C => <<"thread", "begin">> \in C
  BY <1>1, CallbackFacts, Zenon DEF OmInv
<1>3. ~om.up /\ om' = [om EXCEPT !.up = TRUE, !.cbs = C, !.states = @ /\ n = Len(Callbacks)]
  BY <1>1, Zenon DEF OmptInitialize
<1>4. om' \in OmRecord /\ om'.up /\ om'.cbs = C /\ om'.mapping = om.mapping
      /\ om'.paused = om.paused /\ om'.enabled = om.enabled
  BY <1>0, <1>2, <1>3, Zenon DEF OmRecord
<1>5. /\ \A t \in OmThreads : EnvOf(t) = 0 /\ omth[t].at = "out" /\ omth[t].lives = 0
      /\ om.cbs = {} /\ threadEnv' = threadEnv /\ omth' = omth
  BY <1>0, <1>3, Zenon DEF CbsInOrder, OmptInitialize
<1>6. \A s \in 1..Len(scopes) : scopes[s].region = <<>>
  BY <1>0, <1>5, Zenon DEF CbsInOrder, Calls
<1>7. scopes' \in Seq(ScopeRecord) /\ Len(scopes') = Len(scopes)
      /\ \A s \in 1..Len(scopes) : scopes'[s].live = scopes[s].live /\ scopes'[s].region = <<>>
  <2>1. CASE n # Len(Callbacks)
    BY <1>0, <1>6, <2>1, Zenon DEF OmptInitialize
  <2>2. CASE n = Len(Callbacks)
    <3>1. GetThreadScope(Initial) = 1 /\ 1 \in 1..Len(scopes)
      BY <1>0, <1>5, OmptAssumption DEF GetThreadScope, Default
    <3>2. PICK r : r = [scopes[1] EXCEPT !.tid = Initial]
      BY Zenon
    <3>3. r \in ScopeRecord /\ r.live = scopes[1].live /\ r.region = scopes[1].region
      <4>1. scopes[1] \in ScopeRecord
        BY <1>0, <3>1
      <4>2. QED
        BY <3>2, <4>1, ScopeTid, OmptAssumption, ZenonT(60)
    <3>4. scopes' = [scopes EXCEPT ![1] = r]
      BY <2>2, <3>1, <3>2, Zenon DEF OmptInitialize
    <3>5. scopes' \in Seq(ScopeRecord) /\ Len(scopes') = Len(scopes) /\ scopes'[1] = r
          /\ \A s \in 1..Len(scopes) : s # 1 => scopes'[s] = scopes[s]
      BY <1>0, <3>1, <3>3, <3>4, ScopeSet
    <3>6. QED
      BY <1>6, <3>1, <3>3, <3>5, Zenon
  <2>3. QED
    BY <2>1, <2>2, Zenon
<1>8. OmTypeOK'
  BY <1>0, <1>4, <1>5, <1>7, Zenon DEF OmInv, OmTypeOK
<1>9. CbsInOrder'
  <2>1. \A t \in OmThreads : EnvOf(t)' = 0 /\ omth'[t].at = "out"
    BY <1>5, Zenon DEF EnvOf
  <2>2. QED
    BY <1>0, <1>2, <1>4, <1>7, <2>1, Zenon DEF CbsInOrder, Calls
<1>10. ASSUME om'.mapping
       PROVE  /\ \A t \in OmThreads, s \in Nat : Owned(t, s)'
              /\ \A t \in OmThreads : ThreadSound(t)' /\ RegionsOwn(t)'
  <2>1. \A t \in OmThreads : EnvOf(t)' = 0 /\ omth'[t].at = "out" /\ omth'[t].lives = 0
    BY <1>5, Zenon DEF EnvOf
  <2>2. \A t \in OmThreads, s \in Nat : Owned(t, s)'
    BY <2>1 DEF Owned, Owns
  <2>3. scopes[Default].live /\ scopes'[Default].live /\ scopes'[Default].region = <<>>
    <3>1. ThreadSound(Initial)
      BY <1>4, <1>10, OmptAssumption, Zenon DEF OmInv
    <3>2. QED
      BY <1>0, <1>5, <1>7, <3>1, OmptAssumption DEF ThreadSound, Default
  <2>4. \A t \in OmThreads : ThreadSound(t)' /\ RegionsOwn(t)'
    BY <2>1, <2>3, Zenon DEF ThreadSound, RegionsOwn
  <2>5. QED
    BY <2>2, <2>4, Zenon
<1>11. QED
  BY <1>8, <1>9, <1>10, Zenon DEF OmInv
(* How a step that moves one thread changes the rest.                      *)
LEMMA Moved ==
  ASSUME OmInv, NEW t \in OmThreads, NEW r \in ThreadRecord, omth' = [omth EXCEPT ![t] = r]
  PROVE  /\ omth' \in [OmThreads -> ThreadRecord] /\ omth'[t] = r
         /\ \A u \in OmThreads : u # t => omth'[u] = omth[u]
<1>1. omth \in [OmThreads -> ThreadRecord]
  BY Zenon DEF OmInv, OmTypeOK
<1>2. QED
  BY <1>1, Zenon

LEMMA RegionsKept ==
  ASSUME NEW u \in OmThreads, RegionsOwn(u), om'.cbs = om.cbs,
         om.finished => om'.finished, om.paused => om'.paused,
         omth'[u].at = omth[u].at, omth'[u].in = omth[u].in,
         omth[u].at = "run" /\ Symmetric =>
           scopes'[GetThreadScope(u)'].region = scopes[GetThreadScope(u)].region
  PROVE  RegionsOwn(u)'
<1>1. Symmetric' => Symmetric
  BY Zenon DEF Symmetric, Calls
<1>2. Begun(om.cbs, omth[u].in)' = Begun(om.cbs, omth[u].in)
  BY Zenon DEF Begun
<1>3. QED
  BY <1>1, <1>2, Zenon DEF RegionsOwn

LEMMA OmThreadBegins == ASSUME OmInv, NEW t \in OmThreads, ThreadBegin(t) PROVE OmInv'
<1>0. /\ om \in OmRecord /\ scopes \in Seq(ScopeRecord) /\ Len(scopes) > 0 /\ omth[t] \in ThreadRecord
      /\ threadEnv \in [OmThreads -> Nat] /\ CbsInOrder
  BY Zenon DEF OmInv, OmTypeOK
<1>1. PICK new \in BOOLEAN : new = (Calls("thread", "begin") /\ om.mapping /\ t # Initial)
  BY Zenon
<1>2. PICK r : r = [omth[t] EXCEPT !.at = IF Calls("thread", "begin") THEN "insert" ELSE "run",
                                   !.lives = @ + 1, !.in = <<>>,
                                   !.ctx = IF new THEN Len(scopes) + 1 ELSE Default]
  BY Zenon
<1>3. /\ r \in ThreadRecord /\ r.at = (IF Calls("thread", "begin") THEN "insert" ELSE "run")
      /\ r.lives # 0 /\ r.in = <<>> /\ r.ctx = (IF new THEN Len(scopes) + 1 ELSE 1) /\ r.ctx # 0
  <2>1. PICK a \in {"insert", "run"} : a = IF Calls("thread", "begin") THEN "insert" ELSE "run"
    BY Zenon
  <2>2. PICK x \in Nat : x = (IF new THEN Len(scopes) + 1 ELSE 1) /\ x # 0
    BY <1>0
  <2>3. PICK n \in Nat : n = omth[t].lives + 1 /\ n # 0
    BY <1>0 DEF ThreadRecord
  <2>4. r = [omth[t] EXCEPT !.at = a, !.lives = n, !.in = <<>>, !.ctx = x]
    BY <1>2, <2>1, <2>2, <2>3, Zenon DEF Default
  <2>5. r \in ThreadRecord /\ r.at = a /\ r.lives = n /\ r.in = <<>> /\ r.ctx = x
    <3>0. PICK q : q = <<>>
      BY Zenon
    <3>1. q = <<>> /\ q \in Seq(Kinds)
      BY <3>0
    <3>2. PICK z \in ThreadRecord : z = omth[t]
      BY <1>0, Zenon
    <3>3. a \in {"out", "insert", "run", "release"}
      BY <2>1, Zenon
    <3>4. r = [z EXCEPT !.at = a, !.lives = n, !.in = q, !.ctx = x]
      BY <2>4, <3>1, <3>2, Zenon
    <3>5. r \in ThreadRecord /\ r.at = a /\ r.lives = n /\ r.in = q /\ r.ctx = x
      BY ONLY <3>1, <3>3, <3>4, n \in Nat, x \in Nat, z \in ThreadRecord, Zenon DEF ThreadRecord
    <3>6. QED
      BY <3>1, <3>5, Zenon
  <2>6. QED
    BY <2>1, <2>2, <2>3, <2>5, Zenon
<1>4. omth' = [omth EXCEPT ![t] = r]
  BY <1>1, <1>2, Zenon DEF ThreadBegin
<1>5. /\ omth' \in [OmThreads -> ThreadRecord] /\ omth'[t] = r
      /\ \A u \in OmThreads : u # t => omth'[u] = omth[u]
  BY <1>3, <1>4, Moved, Zenon
<1>6. /\ om' = om /\ threadEnv' = threadEnv /\ om.up /\ omth[t].at = "out"
      /\ (t = Initial => omth[t].lives = 0)
  BY <1>0 DEF ThreadBegin, ThreadRecord
<1>7. EmptyScope \in ScopeRecord /\ EmptyScope.live /\ EmptyScope.region = <<>>
  BY DEF EmptyScope, ScopeRecord
<1>8. /\ scopes' \in Seq(ScopeRecord)
      /\ \A s \in 1..Len(scopes) : s \in 1..Len(scopes') /\ scopes'[s] = scopes[s]
      /\ IF new THEN Len(scopes') = Len(scopes) + 1 /\ scopes'[Len(scopes) + 1] = EmptyScope
                ELSE scopes' = scopes
  <2>1. scopes' = IF new THEN Append(scopes, EmptyScope) ELSE scopes
    BY <1>1, Zenon DEF ThreadBegin
  <2>2. QED
    BY <1>0, <1>7, <2>1
<1>9. Len(scopes) \in Nat /\ Len(scopes') \in Nat /\ Len(scopes') > 0 /\ 1 \in 1..Len(scopes)
  BY <1>0, <1>8
<1>10. OmTypeOK'
  BY <1>0, <1>5, <1>6, <1>8, <1>9, Zenon DEF OmTypeOK
<1>11. /\ \A c, w : Calls(c, w)' <=> Calls(c, w)
       /\ \A u \in OmThreads : EnvOf(u)' = EnvOf(u)
  BY <1>6, Zenon DEF Calls, EnvOf
<1>12. CbsInOrder'
  <2>1. ~Calls("thread", "end") => \A s \in 1..Len(scopes') : scopes'[s].region = <<>>
    BY <1>0, <1>7, <1>8, <1>9 DEF CbsInOrder
  <2>2. \A u \in OmThreads : omth[u].at # "release" => omth'[u].at # "release"
    BY <1>3, <1>5, Zenon
  <2>3. QED
    BY <1>0, <1>6, <1>11, <2>1, <2>2, Zenon DEF CbsInOrder
<1>13. ASSUME om'.mapping
       PROVE  /\ \A u \in OmThreads, s \in Nat : Owned(u, s)'
              /\ \A u \in OmThreads : ThreadSound(u)' /\ RegionsOwn(u)'
  <2>0. /\ om.mapping /\ (\A u \in OmThreads, s \in Nat : Owned(u, s))
        /\ (\A u \in OmThreads : ThreadSound(u) /\ RegionsOwn(u))
    BY <1>6, <1>13, Zenon DEF OmInv
  <2>1. t = Initial => scopes[1].live /\ scopes[1].region = <<>>
    BY <1>6, <2>0, Zenon DEF ThreadSound, Default
  <2>2. \A u \in OmThreads, s \in Nat :
          Owns(u, s)' => Owns(u, s) \/ (u = t /\ Calls("thread", "begin") /\ s = r.ctx)
    BY <1>3, <1>5, <1>6, <1>11, Zenon DEF Owns
  <2>3. \A u \in OmThreads, s \in Nat : Owns(u, s) => s \in 1..Len(scopes) /\ scopes[s].live
    BY <2>0, Zenon DEF Owned
  <2>4. ASSUME NEW u \in OmThreads, NEW s \in Nat, Owns(u, s)'
        PROVE  /\ s \in 1..Len(scopes') /\ scopes'[s].live
               /\ s = Default => u = Initial
               /\ \A v \in OmThreads : Owns(v, s)' => v = u
    <3>1. Calls("thread", "begin") => new \/ t = Initial
      BY <1>1, <2>0, Zenon
    <3>2. CASE Owns(u, s)
      <4>1. s \in 1..Len(scopes') /\ scopes'[s].live
        BY <1>8, <2>3, <3>2, Zenon
      <4>2. s = Default => u = Initial
        BY <2>0, <3>2, Zenon DEF Owned
      <4>3. ASSUME NEW v \in OmThreads, Owns(v, s)'
            PROVE  v = u
        <5>1. CASE Owns(v, s)
          BY <2>0, <3>2, <5>1, Zenon DEF Owned
        <5>2. CASE v = t /\ Calls("thread", "begin") /\ s = r.ctx
          <6>1. s \in 1..Len(scopes)
            BY <2>3, <3>2, Zenon
          <6>2. ~new
            BY <1>3, <1>9, <5>2, <6>1
          <6>3. t = Initial /\ s = Default
            BY <1>3, <3>1, <5>2, <6>2, Zenon DEF Default
          <6>4. QED
            BY <4>2, <5>2, <6>3, Zenon
        <5>3. QED
          BY <2>2, <4>3, <5>1, <5>2, Zenon
      <4>4. QED
        BY <4>1, <4>2, <4>3, Zenon
    <3>3. CASE u = t /\ Calls("thread", "begin") /\ s = r.ctx
      <4>1. CASE new
        <5>1. s = Len(scopes) + 1
          BY <1>3, <3>3, <4>1, Zenon
        <5>2. s \in 1..Len(scopes') /\ scopes'[s].live /\ s # Default
          BY <1>7, <1>8, <1>9, <4>1, <5>1 DEF Default
        <5>3. \A v \in OmThreads : ~Owns(v, s)
          BY <1>9, <2>3, <5>1
        <5>4. QED
          BY <2>2, <3>3, <5>2, <5>3, Zenon
      <4>2. CASE ~new
        <5>1. s = 1 /\ t = Initial
          BY <1>3, <3>1, <3>3, <4>2, Zenon
        <5>2. s \in 1..Len(scopes') /\ scopes'[s].live
          BY <1>8, <1>9, <2>1, <5>1, Zenon
        <5>3. \A v \in OmThreads : Owns(v, s) => v = Initial
          BY <2>0, <5>1, Zenon DEF Owned, Default
        <5>4. QED
          BY <2>2, <3>3, <5>1, <5>2, <5>3, Zenon
      <4>3. QED
        BY <4>1, <4>2, Zenon
    <3>4. QED
      BY <2>2, <2>4, <3>2, <3>3, Zenon
  <2>5. \A u \in OmThreads, s \in Nat : Owned(u, s)'
    BY <2>4, Zenon DEF Owned
  <2>6. ASSUME NEW u \in OmThreads, u # t
        PROVE  ThreadSound(u)' /\ RegionsOwn(u)'
    <3>1. omth'[u] = omth[u] /\ EnvOf(u)' = EnvOf(u) /\ (Stale <=> Stale')
      BY <1>5, <1>6, <1>11, <2>6, Zenon DEF Stale
    <3>2. EnvOf(u) \in Nat /\ omth[u].ctx \in Nat
      BY <1>0, Zenon DEF OmInv, OmTypeOK, EnvOf, ThreadRecord
    <3>3. (EnvOf(u) # 0 => EnvOf(u) \in 1..Len(scopes))
          /\ (omth[u].at = "insert" /\ omth[u].ctx # 0 => omth[u].ctx \in 1..Len(scopes))
      BY <2>3, <3>2, Zenon DEF Owns
    <3>4. ThreadSound(u)'
      BY <1>8, <1>9, <1>11, <2>0, <3>1, <3>3 DEF ThreadSound, Default
    <3>5. GetThreadScope(u)' = GetThreadScope(u) /\ GetThreadScope(u) \in 1..Len(scopes)
      BY <1>6, <3>1, ScopeExists, Zenon DEF GetThreadScope
    <3>6. scopes'[GetThreadScope(u)'] = scopes[GetThreadScope(u)]
      BY <1>8, <3>5, Zenon
    <3>7. RegionsOwn(u)'
      BY <1>6, <2>0, <3>1, <3>6, RegionsKept, Zenon
    <3>8. QED
      BY <3>4, <3>7, Zenon
  <2>7. ThreadSound(t)'
    <3>1. Calls("thread", "begin") => scopes'[r.ctx].region = <<>>
      BY <1>1, <1>3, <1>7, <1>8, <1>9, <2>0, <2>1, Zenon
    <3>2. EnvOf(t) # 0 => Stale
      BY <1>6, <2>0, Zenon DEF ThreadSound
    <3>3. Stale' <=> Stale
      BY <1>6, <1>11, Zenon DEF Stale
    <3>4. QED
      BY <1>3, <1>5, <1>11, <3>1, <3>2, <3>3, Zenon DEF ThreadSound
  <2>8. RegionsOwn(t)'
    <3> SUFFICES ASSUME r.at = "run"
                 PROVE  Selects(Begun(om.cbs, omth[t].in), scopes[GetThreadScope(t)].region, omth[t].in)'
      BY <1>5, Zenon DEF RegionsOwn
    <3>1. ~Calls("thread", "begin") /\ ~Calls("thread", "end") /\ ~new
      BY <1>0, <1>1, <1>3, Zenon DEF CbsInOrder
    <3>2. GetThreadScope(t)' = GetThreadScope(t) /\ GetThreadScope(t) \in 1..Len(scopes)
      BY <1>6, <1>11, ScopeExists, Zenon DEF GetThreadScope
    <3>3. scopes'[GetThreadScope(t)'].region = <<>>
      BY <1>0, <1>8, <3>1, <3>2, Zenon DEF CbsInOrder
    <3>4. <<>> \in Seq(Kinds) /\ \A k \in 1..Len(<<>>) : k \notin Begun(om'.cbs, <<>>)
      OBVIOUS
    <3>5. Selects(Begun(om'.cbs, <<>>), <<>>, <<>>)
      BY <3>4, SelectsNone, Zenon
    <3>6. QED
      BY <1>3, <1>5, <3>3, <3>5, Zenon
  <2>9. QED
    BY <2>5, <2>6, <2>7, <2>8, Zenon
<1>14. QED
  BY <1>10, <1>12, <1>13, Zenon DEF OmInv
LEMMA OmThreadKnown == ASSUME OmInv, NEW t \in OmThreads, ThreadKnown(t) PROVE OmInv'
<1>0. /\ om \in OmRecord /\ scopes \in Seq(ScopeRecord) /\ Len(scopes) > 0 /\ omth[t] \in ThreadRecord
      /\ threadEnv \in [OmThreads -> Nat] /\ CbsInOrder
  BY Zenon DEF OmInv, OmTypeOK
<1>1. PICK r : r = [omth[t] EXCEPT !.at = "run"]
  BY Zenon
<1>2. r \in ThreadRecord /\ r.at = "run" /\ r.lives = omth[t].lives /\ r.in = omth[t].in
  BY <1>0, <1>1, Zenon DEF ThreadRecord
<1>3. omth' = [omth EXCEPT ![t] = r] /\ omth[t].at = "insert" /\ om' = om
  BY <1>1, Zenon DEF ThreadKnown
<1>4. /\ omth' \in [OmThreads -> ThreadRecord] /\ omth'[t] = r
      /\ \A u \in OmThreads : u # t => omth'[u] = omth[u]
  BY <1>2, <1>3, Moved, Zenon
<1>5. /\ threadEnv' \in [OmThreads -> Nat]
      /\ \A u \in OmThreads : u # t => threadEnv'[u] = threadEnv[u]
      /\ threadEnv'[t] = IF om.mapping /\ threadEnv[t] = 0 THEN omth[t].ctx ELSE threadEnv[t]
  BY <1>0, Zenon DEF ThreadKnown, InsertEnv, EnvOf, ThreadRecord
<1>6. \A c, w : Calls(c, w)' <=> Calls(c, w)
  BY <1>3, Zenon DEF Calls
<1>7. PICK g : g = IF om.mapping THEN threadEnv'[t] ELSE GetThreadScope(t)
  BY Zenon
<1>8. om.mapping => /\ (\A u \in OmThreads, s \in Nat : Owned(u, s))
                    /\ (\A u \in OmThreads : ThreadSound(u) /\ RegionsOwn(u))
  BY Zenon DEF OmInv
<1>9. om.mapping => Owns(t, g) /\ g \in Nat
  <2>1. om.mapping => omth[t].ctx # 0
    BY <1>3, <1>8, Zenon DEF ThreadSound
  <2>2. QED
    BY <1>0, <1>3, <1>5, <1>7, <2>1, Zenon DEF Owns, EnvOf, ThreadRecord
<1>10. g \in 1..Len(scopes)
  BY <1>7, <1>8, <1>9, ScopeExists, Zenon DEF Owned
<1>11. /\ scopes' \in Seq(ScopeRecord) /\ Len(scopes') = Len(scopes) /\ scopes'[g].tid = t
       /\ \A s \in 1..Len(scopes) : /\ scopes'[s].live = scopes[s].live
                                    /\ scopes'[s].region = scopes[s].region
                                    /\ s # g => scopes'[s].tid = scopes[s].tid
  <2>1. PICK q : q = [scopes[g] EXCEPT !.tid = t]
    BY Zenon
  <2>2. scopes[g] \in ScopeRecord
    BY <1>0, <1>10
  <2>3. q \in ScopeRecord /\ q.live = scopes[g].live /\ q.region = scopes[g].region /\ q.tid = t
    BY <2>1, <2>2, ScopeTid, Zenon
  <2>4. scopes' = [scopes EXCEPT ![g] = q]
    BY <1>7, <2>1, Zenon DEF ThreadKnown
  <2>5. scopes' \in Seq(ScopeRecord) /\ Len(scopes') = Len(scopes) /\ scopes'[g] = q
        /\ \A s \in 1..Len(scopes) : s # g => scopes'[s] = scopes[s]
    BY <1>0, <1>10, <2>3, <2>4, ScopeSet
  <2>6. QED
    BY <1>10, <2>3, <2>5, Zenon
<1>12. OmTypeOK'
  BY <1>0, <1>3, <1>4, <1>5, <1>11, Zenon DEF OmTypeOK
<1>13. CbsInOrder'
  <2>1. ~Calls("thread", "end") => \A s \in 1..Len(scopes') : scopes'[s].region = <<>>
    BY <1>0, <1>11, Zenon DEF CbsInOrder
  <2>2. \A u \in OmThreads : omth[u].at # "release" => omth'[u].at # "release"
    BY <1>2, <1>4, Zenon
  <2>3. om.up
    BY <1>0, <1>3, Zenon DEF CbsInOrder
  <2>4. ~om.mapping => \A u \in OmThreads : EnvOf(u)' = EnvOf(u)
    BY <1>5, Zenon DEF EnvOf
  <2>5. QED
    BY <1>0, <1>3, <1>6, <2>1, <2>2, <2>3, <2>4, Zenon DEF CbsInOrder
<1>14. ASSUME om'.mapping
       PROVE  /\ \A u \in OmThreads, s \in Nat : Owned(u, s)'
              /\ \A u \in OmThreads : ThreadSound(u)' /\ RegionsOwn(u)'
  <2>0. /\ om.mapping /\ (\A u \in OmThreads, s \in Nat : Owned(u, s))
        /\ (\A u \in OmThreads : ThreadSound(u) /\ RegionsOwn(u))
    BY <1>3, <1>8, <1>14, Zenon
  <2>1. \A u \in OmThreads, s \in Nat : Owns(u, s)' => Owns(u, s)
    <3>1. \A s \in Nat : Owns(t, s)' => s = g
      BY <1>2, <1>4, <1>7, <2>0, Zenon DEF Owns, EnvOf
    <3>2. QED
      BY <1>4, <1>5, <1>9, <2>0, <3>1, Zenon DEF Owns, EnvOf
  <2>2. \A u \in OmThreads, s \in Nat : Owned(u, s)'
    BY <1>11, <2>0, <2>1, Zenon DEF Owned
  <2>3. \A u \in OmThreads : Owns(u, g) => u = t
    BY <1>9, <2>0, Zenon DEF Owned
  <2>4. EnvOf(t)' = g /\ g # 0
    BY <1>7, <1>9, <2>0, Zenon DEF EnvOf, Owns
  <2>5. ASSUME NEW u \in OmThreads, u # t
        PROVE  ThreadSound(u)' /\ RegionsOwn(u)'
    <3>1. omth'[u] = omth[u] /\ EnvOf(u)' = EnvOf(u) /\ (Stale <=> Stale')
      BY <1>3, <1>4, <1>5, <1>6, <2>5, Zenon DEF Stale, EnvOf
    <3>2. EnvOf(u) \in Nat /\ omth[u].ctx \in Nat
      BY <1>0, Zenon DEF OmInv, OmTypeOK, EnvOf, ThreadRecord
    <3>3. /\ EnvOf(u) # 0 => EnvOf(u) \in 1..Len(scopes) /\ EnvOf(u) # g
          /\ omth[u].at = "insert" /\ omth[u].ctx # 0 => omth[u].ctx \in 1..Len(scopes)
      BY <2>0, <2>3, <2>5, <3>2, Zenon DEF Owned, Owns
    <3>4. ThreadSound(u)'
      <4>1. 1 \in 1..Len(scopes)
        BY <1>0
      <4>2. QED
        BY <1>6, <1>11, <2>0, <3>1, <3>3, <4>1 DEF ThreadSound, Default
    <3>5. GetThreadScope(u)' = GetThreadScope(u) /\ GetThreadScope(u) \in 1..Len(scopes)
      BY <1>3, <3>1, ScopeExists, Zenon DEF GetThreadScope
    <3>6. scopes'[GetThreadScope(u)'].region = scopes[GetThreadScope(u)].region
      BY <1>11, <3>5, Zenon
    <3>7. RegionsOwn(u)'
      BY <1>3, <2>0, <3>1, <3>6, RegionsKept, Zenon
    <3>8. QED
      BY <3>4, <3>7, Zenon
  <2>6. ThreadSound(t)'
    <3>1. ~(t = Initial /\ omth[t].lives = 0)
      BY <1>3, <2>0, Zenon DEF ThreadSound
    <3>2. QED
      BY <1>2, <1>4, <1>11, <2>4, <3>1, Zenon DEF ThreadSound
  <2>7. RegionsOwn(t)'
    <3> SUFFICES ASSUME ~om.finished
                 PROVE  Selects(Begun(om.cbs, omth[t].in), scopes[GetThreadScope(t)].region, omth[t].in)'
      BY <1>3, Zenon DEF RegionsOwn
    <3>1. omth[t].in = <<>> /\ omth'[t].in = <<>>
      BY <1>2, <1>3, <1>4, <2>0, Zenon DEF ThreadSound
    <3>2. scopes[g].region = <<>>
      <4>1. CASE EnvOf(t) = 0
        BY <1>3, <1>5, <1>7, <2>0, <4>1 DEF ThreadSound, EnvOf
      <4>2. CASE EnvOf(t) # 0
        BY <1>0, <1>3, <1>10, <2>0, <4>2, Zenon DEF ThreadSound, Stale, CbsInOrder
      <4>3. QED
        BY <4>1, <4>2, Zenon
    <3>3. scopes'[GetThreadScope(t)'].region = <<>>
      BY <1>10, <1>11, <1>14, <2>4, <3>2, Zenon DEF GetThreadScope
    <3>4. <<>> \in Seq(Kinds) /\ \A k \in 1..Len(<<>>) : k \notin Begun(om'.cbs, <<>>)
      OBVIOUS
    <3>5. Selects(Begun(om'.cbs, <<>>), <<>>, <<>>)
      BY <3>4, SelectsNone, Zenon
    <3>6. QED
      BY <3>1, <3>3, <3>5, Zenon
  <2>8. QED
    BY <2>2, <2>5, <2>6, <2>7, Zenon
<1>15. QED
  BY <1>12, <1>13, <1>14, Zenon DEF OmInv
(* The step changes the region of scope g to q and nothing else of scopes. *)
RegionIs(g, q) ==
  /\ scopes' \in Seq(ScopeRecord) /\ Len(scopes') = Len(scopes) /\ scopes'[g].region = q
  /\ \A s \in 1..Len(scopes) : /\ scopes'[s].live = scopes[s].live
                               /\ scopes'[s].tid = scopes[s].tid
                               /\ s # g => scopes'[s].region = scopes[s].region

LEMMA RegionWritten ==
  ASSUME OmInv, NEW t \in OmThreads, NEW q \in Seq(Kinds),
         scopes' = [scopes EXCEPT ![GetThreadScope(t)].region = q]
  PROVE  RegionIs(GetThreadScope(t), q)
<1>0. scopes \in Seq(ScopeRecord)
  BY Zenon DEF OmInv, OmTypeOK
<1>1. PICK g \in 1..Len(scopes) : g = GetThreadScope(t) /\ scopes[g] \in ScopeRecord
  BY ScopeExists, Zenon
<1>2. PICK z : z = [scopes[g] EXCEPT !.region = q]
  BY Zenon
<1>3. z \in ScopeRecord /\ z.live = scopes[g].live /\ z.region = q /\ z.tid = scopes[g].tid
  BY <1>1, <1>2, ScopeRegion, Zenon
<1>4. scopes' = [scopes EXCEPT ![g] = z]
  BY <1>1, <1>2, Zenon
<1>5. scopes' \in Seq(ScopeRecord) /\ Len(scopes') = Len(scopes) /\ scopes'[g] = z
      /\ \A s \in 1..Len(scopes) : s # g => scopes'[s] = scopes[s]
  BY ONLY <1>0, <1>3, <1>4, g \in 1..Len(scopes), ScopeSet
<1>6. QED
  BY <1>1, <1>3, <1>5, Zenon DEF RegionIs

(* Entering or leaving a construct changes the region of one scope, g, and *)
(* the constructs of one thread; the scope is that thread's own whenever   *)
(* the region really changes.                                              *)
LEMMA OmConstruct ==
  ASSUME OmInv, NEW t \in OmThreads, NEW d \in Seq(Kinds), NEW q \in Seq(Kinds),
         omth[t].at = "run", omth' = [omth EXCEPT ![t].in = d], om' = om, threadEnv' = threadEnv,
         RegionIs(GetThreadScope(t), q),
         scopes[GetThreadScope(t)].region = <<>> /\ ~Calls("thread", "end") => q = <<>>,
         q # scopes[GetThreadScope(t)].region => Calls("thread", "begin"),
         om.mapping /\ ~om.paused /\ ~om.finished /\ Symmetric => Selects(Begun(om.cbs, d), q, d)
  PROVE  OmInv'
<1>0. /\ om \in OmRecord /\ scopes \in Seq(ScopeRecord) /\ Len(scopes) > 0 /\ omth[t] \in ThreadRecord
      /\ threadEnv \in [OmThreads -> Nat] /\ CbsInOrder
  BY Zenon DEF OmInv, OmTypeOK
<1>1. PICK r : r = [omth[t] EXCEPT !.in = d]
  BY Zenon
<1>2. /\ r \in ThreadRecord /\ r.at = "run" /\ r.lives = omth[t].lives /\ r.in = d
      /\ r.ctx = omth[t].ctx
  BY <1>0, <1>1, Zenon DEF ThreadRecord
<1>3. omth' = [omth EXCEPT ![t] = r]
  BY <1>1, Zenon
<1>4. /\ omth' \in [OmThreads -> ThreadRecord] /\ omth'[t] = r
      /\ \A u \in OmThreads : u # t => omth'[u] = omth[u]
  BY <1>2, <1>3, Moved, Zenon
<1>5. PICK g \in 1..Len(scopes) : g = GetThreadScope(t) /\ scopes[g] \in ScopeRecord
  BY ScopeExists, Zenon
<1>6. /\ \A c, w : Calls(c, w)' <=> Calls(c, w)
      /\ \A u \in OmThreads : EnvOf(u)' = EnvOf(u) /\ GetThreadScope(u)' = GetThreadScope(u)
  BY Zenon DEF Calls, EnvOf, GetThreadScope
<1>7. /\ scopes' \in Seq(ScopeRecord) /\ Len(scopes') = Len(scopes) /\ scopes'[g].region = q
      /\ \A s \in 1..Len(scopes) : /\ scopes'[s].live = scopes[s].live
                                   /\ scopes'[s].tid = scopes[s].tid
                                   /\ s # g => scopes'[s].region = scopes[s].region
  BY <1>5, Zenon DEF RegionIs
<1>8. OmTypeOK'
  BY <1>0, <1>4, <1>7, Zenon DEF OmTypeOK
<1>9. CbsInOrder'
  <2>1. ~Calls("thread", "end") => \A s \in 1..Len(scopes') : scopes'[s].region = <<>>
    BY <1>0, <1>5, <1>7, Zenon DEF CbsInOrder
  <2>2. \A u \in OmThreads : omth[u].at # "release" => omth'[u].at # "release"
    BY <1>2, <1>4, Zenon
  <2>3. om.up
    BY <1>0, Zenon DEF CbsInOrder
  <2>4. QED
    BY <1>0, <1>6, <2>1, <2>2, <2>3, Zenon DEF CbsInOrder
<1>10. ASSUME om'.mapping
       PROVE  /\ \A u \in OmThreads, s \in Nat : Owned(u, s)'
              /\ \A u \in OmThreads : ThreadSound(u)' /\ RegionsOwn(u)'
  <2>0. /\ om.mapping /\ (\A u \in OmThreads, s \in Nat : Owned(u, s))
        /\ (\A u \in OmThreads : ThreadSound(u) /\ RegionsOwn(u))
    BY <1>10, Zenon DEF OmInv
  <2>1. \A u \in OmThreads : omth'[u].at = omth[u].at /\ omth'[u].ctx = omth[u].ctx
                             /\ omth'[u].lives = omth[u].lives
    BY <1>2, <1>4, Zenon
  <2>2. \A u \in OmThreads, s \in Nat : Owns(u, s)' <=> Owns(u, s)
    BY <1>6, <2>1, Zenon DEF Owns
  <2>3. \A u \in OmThreads, s \in Nat : Owned(u, s)'
    BY <1>7, <2>0, <2>2, Zenon DEF Owned
  <2>4. q # scopes[g].region =>
          /\ \A u \in OmThreads : Owns(u, g) => u = t
          /\ g = Default => t = Initial
          /\ Calls("thread", "begin")
    BY <1>5, <2>0, OwnScope, ZenonT(60)
  <2>5. ~(t = Initial /\ omth[t].lives = 0)
    BY <2>0, Zenon DEF ThreadSound
  <2>6. \A u \in OmThreads : EnvOf(u) \in Nat /\ omth[u].ctx \in Nat
    BY <1>0, Zenon DEF OmInv, OmTypeOK, EnvOf, ThreadRecord
  <2>7. ASSUME NEW u \in OmThreads
        PROVE  ThreadSound(u)'
    <3>1. EnvOf(u)' = EnvOf(u) /\ (Stale <=> Stale')
      BY <1>6, Zenon DEF Stale
    <3>2. /\ EnvOf(u) # 0 => EnvOf(u) \in 1..Len(scopes)
          /\ omth[u].at = "insert" /\ omth[u].ctx # 0 => omth[u].ctx \in 1..Len(scopes)
      BY <2>0, <2>6, Zenon DEF Owned, Owns
    <3>3. omth[u].at = "insert" => omth'[u].in = omth[u].in
      BY <1>4, Zenon
    <3>4. omth[u].at = "insert" /\ omth[u].ctx # 0 =>
            scopes'[omth[u].ctx].region = scopes[omth[u].ctx].region
      BY <1>7, <2>4, <2>6, <3>2, Zenon DEF Owns
    <3>6. 1 \in 1..Len(scopes)
      BY <1>0
    <3>5. u = Initial /\ omth[u].lives = 0 => scopes'[1].region = scopes[1].region
      <4>1. CASE g # 1
        BY <1>7, <3>6, <4>1, Zenon
      <4>2. CASE g = 1
        BY <1>7, <2>4, <2>5, <4>2, Zenon DEF Default
      <4>3. QED
        BY <4>1, <4>2, Zenon
    <3>7. QED
      BY <1>6, <1>7, <2>0, <2>1, <3>1, <3>2, <3>3, <3>4, <3>5, <3>6, SMTT(30) DEF ThreadSound, Default
  <2>8. ASSUME NEW u \in OmThreads, u # t
        PROVE  RegionsOwn(u)'
    <3>1. GetThreadScope(u) \in 1..Len(scopes) /\ omth'[u] = omth[u]
      BY <1>4, <2>8, ScopeExists, Zenon
    <3>2. omth[u].at = "run" =>
            scopes'[GetThreadScope(u)'].region = scopes[GetThreadScope(u)].region
      BY <1>6, <1>7, <2>0, <2>4, <2>8, <3>1, OwnScope, Zenon
    <3>3. QED
      BY <2>0, <3>1, <3>2, RegionsKept, Zenon
  <2>9. RegionsOwn(t)'
    <3>1. Symmetric' => Symmetric
      BY Zenon DEF Symmetric, Calls
    <3>2. QED
      BY <1>2, <1>4, <1>5, <1>6, <1>7, <2>0, <3>1, Zenon DEF RegionsOwn
  <2>10. QED
    BY <2>3, <2>7, <2>8, <2>9, Zenon
<1>11. QED
  BY <1>8, <1>9, <1>10, Zenon DEF OmInv
LEMMA OmBeginConstruct ==
  ASSUME OmInv, NEW t \in OmThreads, NEW c \in Kinds, BeginConstruct(t, c)
  PROVE  OmInv'
<1>0. /\ scopes \in Seq(ScopeRecord) /\ omth[t] \in ThreadRecord /\ CbsInOrder
      /\ omth[t].at = "run"
  BY Zenon DEF OmInv, OmTypeOK, BeginConstruct
<1>1. PICK g \in 1..Len(scopes) : g = GetThreadScope(t) /\ scopes[g] \in ScopeRecord
  BY ScopeExists, Zenon
<1>2. PICK s \in Seq(Kinds), p \in Seq(Kinds) : s = omth[t].in /\ p = scopes[g].region
  BY <1>0, <1>1, Zenon DEF ThreadRecord, ScopeRecord
<1>3. PICK d : d = Append(s, c)
  BY Zenon
<1>4. d \in Seq(Kinds) /\ Len(d) = Len(s) + 1 /\ d[Len(s) + 1] = c /\ \A k \in 1..Len(s) : d[k] = s[k]
  BY <1>3
<1>5. omth' = [omth EXCEPT ![t].in = d] /\ om' = om /\ threadEnv' = threadEnv
  BY <1>2, <1>3, Zenon DEF BeginConstruct
<1>6. PICK q : q = IF Recording /\ Calls(c, "begin") THEN Append(p, c) ELSE p
  BY Zenon
<1>7. q \in Seq(Kinds) /\ (q # p => Calls(c, "begin"))
  BY <1>6
<1>8. Calls(c, "begin") => Calls("thread", "end") /\ Calls("thread", "begin")
  BY <1>0, Zenon DEF CbsInOrder
<1>9. RegionIs(g, q)
  <2>1. CASE Recording /\ Calls(c, "begin")
    <3>1. scopes' = [scopes EXCEPT ![GetThreadScope(t)].region = q]
      BY <1>1, <1>2, <1>6, <2>1, Zenon DEF BeginConstruct
    <3>2. QED
      BY <1>1, <1>7, <3>1, RegionWritten, Zenon
  <2>2. CASE ~(Recording /\ Calls(c, "begin"))
    BY <1>0, <1>2, <1>6, <2>2, Zenon DEF BeginConstruct, RegionIs
  <2>3. QED
    BY <2>1, <2>2, Zenon
<1>10. ASSUME om.mapping, ~om.paused, ~om.finished, Symmetric
       PROVE  Selects(Begun(om.cbs, d), q, d)
  <2>1. Selects(Begun(om.cbs, s), p, s)
    BY <1>0, <1>1, <1>2, <1>10, Zenon DEF OmInv, RegionsOwn
  <2>2. \A k \in 1..Len(s) : k \in Begun(om.cbs, d) <=> k \in Begun(om.cbs, s)
    BY <1>4, SMTT(30) DEF Begun
  <2>3. Len(s) + 1 \in Begun(om.cbs, d) <=> Calls(c, "begin")
    <3>1. PICK l : l = Len(s) + 1 /\ l \in 1..Len(d) /\ d[l] = c
      BY <1>4
    <3>2. QED
      BY ONLY <3>1, Zenon DEF Begun, Calls
  <2>4. IF Len(s) + 1 \in Begun(om.cbs, d) THEN Selects(Begun(om.cbs, d), Append(p, c), Append(s, c))
        ELSE Selects(Begun(om.cbs, d), p, Append(s, c))
    BY <2>1, <2>2, SelectsAppend, Zenon
  <2>5. Recording
    BY <1>0, <1>10, Zenon DEF CbsInOrder, Recording
  <2>6. QED
    BY <1>3, <1>6, <2>3, <2>4, <2>5, Zenon
<1>11. QED
  BY <1>0, <1>1, <1>2, <1>4, <1>5, <1>7, <1>8, <1>9, <1>10, OmConstruct, Zenon

LEMMA OmEndConstruct == ASSUME OmInv, NEW t \in OmThreads, EndConstruct(t) PROVE OmInv'
<1>0. /\ scopes \in Seq(ScopeRecord) /\ omth[t] \in ThreadRecord /\ CbsInOrder
      /\ omth[t].at = "run"
  BY Zenon DEF OmInv, OmTypeOK, EndConstruct
<1>1. PICK g \in 1..Len(scopes) : g = GetThreadScope(t) /\ scopes[g] \in ScopeRecord
  BY ScopeExists, Zenon
<1>2. PICK s \in Seq(Kinds), p \in Seq(Kinds) : s = omth[t].in /\ p = scopes[g].region
  BY <1>0, <1>1, Zenon DEF ThreadRecord, ScopeRecord
<1>3. s # <<>> /\ Len(s) \in 1..Len(s) /\ s[Len(s)] \in Kinds
  BY <1>2 DEF EndConstruct
<1>4. PICK c \in Kinds : c = s[Len(s)]
  BY <1>3, Zenon
<1>5. PICK d : d = AllButLast(s)
  BY Zenon
<1>6. d \in Seq(Kinds) /\ Len(d) = Len(s) - 1 /\ \A k \in 1..(Len(s) - 1) : d[k] = s[k]
  BY <1>3, <1>5, LastGone, Zenon
<1>7. omth' = [omth EXCEPT ![t].in = d] /\ om' = om /\ threadEnv' = threadEnv
  BY <1>2, <1>3, <1>5, Zenon DEF EndConstruct, PopRegion, AllButLast
<1>8. PICK q : q = IF Recording /\ Calls(c, "end") /\ p # <<>> THEN AllButLast(p) ELSE p
  BY Zenon
<1>9. q \in Seq(Kinds) /\ (q # p => Calls(c, "end") /\ p # <<>>)
  <2>1. p # <<>> => AllButLast(p) \in Seq(Kinds)
    BY DEF AllButLast
  <2>2. QED
    BY <1>8, <2>1, Zenon
<1>10. p # <<>> => Calls("thread", "end") /\ Calls("thread", "begin")
  BY <1>0, <1>2, Zenon DEF CbsInOrder
<1>11. RegionIs(g, q)
  <2>1. CASE Recording /\ Calls(c, "end")
    <3>1. q = PopRegion(p)
      BY <1>8, <2>1, Zenon DEF PopRegion, AllButLast
    <3>2. scopes' = [scopes EXCEPT ![GetThreadScope(t)].region = q]
      BY <1>1, <1>2, <1>4, <2>1, <3>1, Zenon DEF EndConstruct
    <3>3. QED
      BY <1>1, <1>9, <3>2, RegionWritten, Zenon
  <2>2. CASE ~(Recording /\ Calls(c, "end"))
    BY <1>0, <1>2, <1>4, <1>8, <2>2, Zenon DEF EndConstruct, RegionIs
  <2>3. QED
    BY <2>1, <2>2, Zenon
<1>12. ASSUME om.mapping, ~om.paused, ~om.finished, Symmetric
       PROVE  Selects(Begun(om.cbs, d), q, d)
  <2>1. Selects(Begun(om.cbs, s), p, s)
    BY <1>0, <1>1, <1>2, <1>12, Zenon DEF OmInv, RegionsOwn
  <2>2. \A k \in 1..(Len(s) - 1) : k \in Begun(om.cbs, d) <=> k \in Begun(om.cbs, s)
    <3>1. \A k \in 1..(Len(s) - 1) : k \in 1..Len(d) /\ k \in 1..Len(s) /\ d[k] = s[k]
      BY <1>6
    <3>2. QED
      BY ONLY <3>1, Zenon DEF Begun
  <2>3. Len(s) \in Begun(om.cbs, s) <=> Calls(c, "begin")
    BY <1>3, <1>4, Zenon DEF Begun, Calls
  <2>4. IF Len(s) \in Begun(om.cbs, s)
        THEN p # <<>> /\ p[Len(p)] = s[Len(s)] /\ Selects(Begun(om.cbs, d), AllButLast(p), AllButLast(s))
        ELSE Selects(Begun(om.cbs, d), p, AllButLast(s))
    BY <1>3, <2>1, <2>2, SelectsPop, Zenon
  <2>5. Recording /\ (Calls(c, "begin") <=> Calls(c, "end"))
    <3>1. Calls(c, "begin") = Calls(c, "end")
      BY <1>12, Zenon DEF Symmetric, Kinds
    <3>2. QED
      BY <1>0, <1>12, <3>1, Zenon DEF CbsInOrder, Recording
  <2>6. QED
    BY <1>5, <1>8, <2>3, <2>4, <2>5, Zenon
<1>13. QED
  BY <1>0, <1>1, <1>2, <1>6, <1>7, <1>9, <1>10, <1>11, <1>12, OmConstruct, Zenon

LEMMA OmThreadEnds == ASSUME OmInv, NEW t \in OmThreads, OmThreadEnd(t) PROVE OmInv'
<1>0. /\ om \in OmRecord /\ scopes \in Seq(ScopeRecord) /\ Len(scopes) > 0 /\ omth[t] \in ThreadRecord
      /\ threadEnv \in [OmThreads -> Nat] /\ CbsInOrder
  BY Zenon DEF OmInv, OmTypeOK
<1>1. PICK keep \in BOOLEAN :
        keep = (om.finished \/ ~om.mapping \/ EnvOf(t) = 0 \/ ~Calls("thread", "end"))
  BY Zenon
<1>2. PICK a \in {"out", "release"}, x \in Nat :
        a = (IF keep THEN "out" ELSE "release") /\ x = (IF keep THEN 0 ELSE EnvOf(t))
  BY <1>0, Zenon DEF EnvOf
<1>3. PICK r : r = [omth[t] EXCEPT !.at = a, !.ctx = x]
  BY Zenon
<1>4. r \in ThreadRecord /\ r.at = a /\ r.ctx = x /\ r.lives = omth[t].lives
  BY <1>0, <1>3, Zenon DEF ThreadRecord
<1>5. /\ omth' = [omth EXCEPT ![t] = r] /\ om' = om /\ scopes' = scopes
      /\ omth[t].at = "run" /\ threadEnv' = IF keep THEN threadEnv ELSE EraseEnv(t)
  BY <1>1, <1>2, <1>3, Zenon DEF OmThreadEnd
<1>6. /\ omth' \in [OmThreads -> ThreadRecord] /\ omth'[t] = r
      /\ \A u \in OmThreads : u # t => omth'[u] = omth[u]
  BY <1>4, <1>5, Moved, Zenon
<1>7. /\ threadEnv' \in [OmThreads -> Nat]
      /\ \A u \in OmThreads : u # t => EnvOf(u)' = EnvOf(u)
      /\ EnvOf(t)' = IF keep THEN EnvOf(t) ELSE 0
  BY <1>0, <1>5, Zenon DEF EraseEnv, EnvOf
<1>8. \A c, w : Calls(c, w)' <=> Calls(c, w)
  BY <1>5, Zenon DEF Calls
<1>9. OmTypeOK'
  BY <1>0, <1>5, <1>6, <1>7, Zenon DEF OmTypeOK
<1>10. CbsInOrder'
  <2>1. om.up
    BY <1>0, <1>5, Zenon DEF CbsInOrder
  <2>2. ~om.mapping => keep /\ a = "out"
    BY <1>1, <1>2, Zenon
  <2>3. ~om.mapping => \A u \in OmThreads : EnvOf(u)' = 0 /\ omth'[u].at # "release"
    BY <1>0, <1>4, <1>6, <1>7, <2>2, Zenon DEF CbsInOrder
  <2>4. QED
    BY <1>0, <1>5, <1>8, <2>1, <2>3, Zenon DEF CbsInOrder
<1>11. ASSUME om'.mapping
       PROVE  /\ \A u \in OmThreads, s \in Nat : Owned(u, s)'
              /\ \A u \in OmThreads : ThreadSound(u)' /\ RegionsOwn(u)'
  <2>0. /\ om.mapping /\ (\A u \in OmThreads, s \in Nat : Owned(u, s))
        /\ (\A u \in OmThreads : ThreadSound(u) /\ RegionsOwn(u))
    BY <1>5, <1>11, Zenon DEF OmInv
  <2>1. \A u \in OmThreads, s \in Nat : Owns(u, s)' => Owns(u, s)
    BY <1>2, <1>4, <1>6, <1>7 DEF Owns
  <2>2. \A u \in OmThreads, s \in Nat : Owned(u, s)'
    BY <1>5, <2>0, <2>1, Zenon DEF Owned
  <2>3. ASSUME NEW u \in OmThreads, u # t
        PROVE  ThreadSound(u)' /\ RegionsOwn(u)'
    <3>1. omth'[u] = omth[u] /\ EnvOf(u)' = EnvOf(u) /\ (Stale <=> Stale')
      BY <1>5, <1>6, <1>7, <1>8, <2>3, Zenon DEF Stale
    <3>2. ThreadSound(u)'
      BY <1>5, <1>8, <2>0, <3>1, SMTT(30) DEF ThreadSound
    <3>3. GetThreadScope(u)' = GetThreadScope(u)
      BY <1>5, <3>1, Zenon DEF GetThreadScope
    <3>4. RegionsOwn(u)'
      BY <1>5, <2>0, <3>1, <3>3, RegionsKept, Zenon
    <3>5. QED
      BY <3>2, <3>4, Zenon
  <2>4. ThreadSound(t)'
    <3>1. ~(t = Initial /\ omth[t].lives = 0)
      BY <1>5, <2>0, Zenon DEF ThreadSound
    <3>2. a = "out" /\ EnvOf(t)' # 0 => Stale'
      BY <1>1, <1>2, <1>5, <1>7, <1>8, <2>0, Zenon DEF Stale
    <3>3. a = "release" => EnvOf(t)' = 0 /\ x # 0
      BY <1>1, <1>2, <1>7, Zenon
    <3>4. QED
      BY <1>2, <1>4, <1>6, <3>1, <3>2, <3>3, Zenon DEF ThreadSound
  <2>5. RegionsOwn(t)'
    BY <1>2, <1>4, <1>6, Zenon DEF RegionsOwn
  <2>6. QED
    BY <2>2, <2>3, <2>4, <2>5, Zenon
<1>12. QED
  BY <1>9, <1>10, <1>11, Zenon DEF OmInv

LEMMA OmReleases == ASSUME OmInv, NEW t \in OmThreads, OmReleaseScope(t) PROVE OmInv'
<1>0. /\ om \in OmRecord /\ scopes \in Seq(ScopeRecord) /\ Len(scopes) > 0 /\ omth[t] \in ThreadRecord
      /\ threadEnv \in [OmThreads -> Nat] /\ CbsInOrder
  BY Zenon DEF OmInv, OmTypeOK
<1>1. PICK r : r = [omth[t] EXCEPT !.at = "out", !.ctx = 0]
  BY Zenon
<1>2. r \in ThreadRecord /\ r.at = "out" /\ r.lives = omth[t].lives
  BY <1>0, <1>1, Zenon DEF ThreadRecord
<1>3. omth' = [omth EXCEPT ![t] = r] /\ omth[t].at = "release" /\ om' = om /\ threadEnv' = threadEnv
  BY <1>1, Zenon DEF OmReleaseScope
<1>4. /\ omth' \in [OmThreads -> ThreadRecord] /\ omth'[t] = r
      /\ \A u \in OmThreads : u # t => omth'[u] = omth[u]
  BY <1>2, <1>3, Moved, Zenon
<1>5. /\ om.mapping /\ (\A u \in OmThreads, s \in Nat : Owned(u, s))
      /\ (\A u \in OmThreads : ThreadSound(u) /\ RegionsOwn(u))
  BY <1>0, <1>3, Zenon DEF OmInv, CbsInOrder
<1>6. PICK g \in Nat : g = omth[t].ctx
  BY <1>0, Zenon DEF ThreadRecord
<1>7. Owns(t, g) /\ EnvOf(t) = 0
  BY <1>3, <1>5, <1>6, Zenon DEF ThreadSound, Owns
<1>8. g \in 1..Len(scopes) /\ (g = Default => t = Initial) /\ \A u \in OmThreads : Owns(u, g) => u = t
  BY <1>5, <1>7, Zenon DEF Owned
<1>9. /\ scopes' \in Seq(ScopeRecord) /\ Len(scopes') = Len(scopes)
      /\ \A s \in 1..Len(scopes) : /\ scopes'[s].tid = scopes[s].tid
                                   /\ scopes'[s].region = scopes[s].region
                                   /\ s # g => scopes'[s].live = scopes[s].live
  <2>0. scopes \in Seq(ScopeRecord) /\ scopes[g] \in ScopeRecord
    BY <1>0, <1>8
  <2>1. PICK q : q = [scopes[g] EXCEPT !.live = FALSE]
    BY Zenon
  <2>2. q \in ScopeRecord /\ q.region = scopes[g].region /\ q.tid = scopes[g].tid
    BY <2>0, <2>1, ScopeGone, Zenon
  <2>3. scopes' = [scopes EXCEPT ![g] = q]
    BY <1>6, <2>1, Zenon DEF OmReleaseScope
  <2>4. scopes' \in Seq(ScopeRecord) /\ Len(scopes') = Len(scopes) /\ scopes'[g] = q
        /\ \A s \in 1..Len(scopes) : s # g => scopes'[s] = scopes[s]
    BY ONLY <1>8, <2>0, <2>2, <2>3, ScopeSet
  <2>5. QED
    BY <2>2, <2>4, Zenon
<1>10. /\ \A c, w : Calls(c, w)' <=> Calls(c, w)
       /\ \A u \in OmThreads : EnvOf(u)' = EnvOf(u) /\ GetThreadScope(u)' = GetThreadScope(u)
  BY <1>3, Zenon DEF Calls, EnvOf, GetThreadScope
<1>11. OmTypeOK'
  BY <1>0, <1>3, <1>4, <1>9, Zenon DEF OmTypeOK
<1>12. CbsInOrder'
  <2>1. ~Calls("thread", "end") => \A s \in 1..Len(scopes') : scopes'[s].region = <<>>
    BY <1>0, <1>9, Zenon DEF CbsInOrder
  <2>2. om.up
    BY <1>0, <1>3, Zenon DEF CbsInOrder
  <2>3. QED
    BY <1>0, <1>3, <1>5, <1>10, <2>1, <2>2, Zenon DEF CbsInOrder
<1>13. \A u \in OmThreads, s \in Nat : Owned(u, s)'
  <2>1. \A u \in OmThreads, s \in Nat : Owns(u, s)' => Owns(u, s) /\ u # t
    BY <1>2, <1>4, <1>7, <1>10, Zenon DEF Owns
  <2>2. QED
    BY <1>5, <1>8, <1>9, <2>1 DEF Owned
<1>14. ASSUME NEW u \in OmThreads, u # t
       PROVE  ThreadSound(u)' /\ RegionsOwn(u)'
  <2>1. omth'[u] = omth[u] /\ (Stale <=> Stale')
    BY <1>3, <1>4, <1>10, <1>14, Zenon DEF Stale
  <2>2. EnvOf(u) \in Nat /\ omth[u].ctx \in Nat
    BY <1>0, Zenon DEF OmInv, OmTypeOK, EnvOf, ThreadRecord
  <2>3. /\ EnvOf(u) # 0 => EnvOf(u) \in 1..Len(scopes)
        /\ omth[u].at = "insert" /\ omth[u].ctx # 0 => omth[u].ctx \in 1..Len(scopes)
    BY <1>5, <2>2, Zenon DEF Owned, Owns
  <2>4. 1 \in 1..Len(scopes) /\ (u = Initial => g # 1)
    BY <1>0, <1>8, <1>14 DEF Default
  <2>5. ThreadSound(u)'
    BY <1>5, <1>9, <1>10, <2>1, <2>3, <2>4 DEF ThreadSound, Default
  <2>6. GetThreadScope(u) \in 1..Len(scopes)
    BY ScopeExists, Zenon
  <2>7. scopes'[GetThreadScope(u)'].region = scopes[GetThreadScope(u)].region
    BY <1>9, <1>10, <2>6, Zenon
  <2>8. RegionsOwn(u)'
    BY <1>3, <1>5, <2>1, <2>7, RegionsKept, Zenon
  <2>9. QED
    BY <2>5, <2>8, Zenon
<1>15. ThreadSound(t)' /\ RegionsOwn(t)'
  <2>1. ~(t = Initial /\ omth[t].lives = 0)
    BY <1>3, <1>5, Zenon DEF ThreadSound
  <2>2. QED
    BY <1>2, <1>4, <1>7, <1>10, <2>1, Zenon DEF ThreadSound, RegionsOwn
<1>16. QED
  BY <1>11, <1>12, <1>13, <1>14, <1>15, Zenon DEF OmInv

LEMMA OmInductive == OmInv /\ [OmNext]_omVars => OmInv'
<1> SUFFICES ASSUME OmInv, [OmNext]_omVars
             PROVE  OmInv'
  BY Zenon
<1>1. ASSUME NEW t \in OmThreads, ThreadBegin(t) PROVE OmInv'
  BY <1>1, OmThreadBegins, Zenon
<1>2. ASSUME NEW t \in OmThreads, ThreadKnown(t) PROVE OmInv'
  BY <1>2, OmThreadKnown, Zenon
<1>3. ASSUME NEW t \in OmThreads, OmThreadEnd(t) PROVE OmInv'
  BY <1>3, OmThreadEnds, Zenon
<1>4. ASSUME NEW t \in OmThreads, OmReleaseScope(t) PROVE OmInv'
  BY <1>4, OmReleases, Zenon
<1>5. ASSUME NEW t \in OmThreads, Snapshot(t) PROVE OmInv'
  BY <1>5, OmSnapshot, Zenon
<1>6. ASSUME NEW t \in OmThreads, EndConstruct(t) PROVE OmInv'
  BY <1>6, OmEndConstruct, Zenon
<1>7. ASSUME NEW t \in OmThreads, NEW i \in 1..Len(Constructs), BeginConstruct(t, Constructs[i])
      PROVE  OmInv'
  <2>1. Constructs[i] \in Kinds
    BY Zenon DEF Kinds
  <2>2. QED
    BY <1>7, <2>1, OmBeginConstruct, Zenon
<1>8. ASSUME NEW t \in OmThreads, NEW s \in RunStates, RuntimeState(t, s) PROVE OmInv'
  BY <1>8, OmRuntimeState, Zenon
<1>9. ASSUME NEW cmd \in {1, 2, 4}, Control(cmd) PROVE OmInv'
  BY <1>9, OmControl, Zenon
<1>10. ASSUME NEW n \in 0..Len(Callbacks), OmptInitialize(n) PROVE OmInv'
  BY <1>10, OmInitialize, Zenon
<1>11. CASE OmFinish
  BY <1>11, OmFinishes, Zenon
<1>12. CASE UNCHANGED omVars
  <2>1. UNCHANGED <<om, threadEnv, scopes, omth>>
    BY <1>12, Zenon DEF omVars
  <2>2. OmTypeOK' /\ SameScopes /\ SamePlaces
    BY <2>1, Zenon DEF OmInv, OmTypeOK, SameScopes, SamePlaces
  <2>3. SameMode
    BY <2>1, Zenon DEF OmInv, CbsInOrder, SameMode
  <2>4. QED
    BY <2>2, <2>3, OmFrame, Zenon
<1>13. QED
  BY <1>1, <1>2, <1>3, <1>4, <1>5, <1>6, <1>7, <1>8, <1>9, <1>10, <1>11, <1>12, Zenon DEF OmNext

(* The scope a running OpenMP thread finds through thread_env is live, its *)
(* own, carries its id, and holds exactly the captured constructs the      *)
(* thread is in, in their order, for any number of threads and constructs  *)
(* (OmptService.cpp).                                                      *)
THEOREM OmptAlwaysSound == OmSpec => []OmptScopesSound
<1>1. OmInv => OmptScopesSound
  <2> SUFFICES ASSUME OmInv PROVE OmptScopesSound
    BY Zenon
  <2>1. threadEnv \in [OmThreads -> Nat]
    BY Zenon DEF OmInv, OmTypeOK
  <2>2. EnvScopesLive
    <3> SUFFICES ASSUME NEW t \in OmThreads, EnvOf(t) # 0
                 PROVE  scopes[EnvOf(t)].live /\ \A u \in OmThreads \ {t} : EnvOf(u) # EnvOf(t)
      BY Zenon DEF EnvScopesLive
    <3>1. om.mapping /\ EnvOf(t) \in Nat
      BY <2>1, Zenon DEF OmInv, CbsInOrder, EnvOf
    <3>2. Owned(t, EnvOf(t)) /\ Owns(t, EnvOf(t))
      BY <3>1, Zenon DEF OmInv, Owns
    <3>3. QED
      BY <3>2, Zenon DEF Owned, Owns
  <2>3. ScopeOfThread
    <3> SUFFICES ASSUME NEW t \in OmThreads, om.mapping, omth[t].at = "run"
                 PROVE  /\ Calls("thread", "begin") => scopes[GetThreadScope(t)].tid = t
                        /\ ~om.paused /\ ~om.finished /\ Symmetric =>
                             CapturedOf(scopes[GetThreadScope(t)].region, omth[t].in)
      BY Zenon DEF ScopeOfThread, Symmetric
    <3>1. ThreadSound(t) /\ RegionsOwn(t)
      BY Zenon DEF OmInv
    <3>2. Calls("thread", "begin") => scopes[GetThreadScope(t)].tid = t
      BY <3>1, Zenon DEF ThreadSound, GetThreadScope
    <3>3. ASSUME ~om.paused, ~om.finished, Symmetric
          PROVE  CapturedOf(scopes[GetThreadScope(t)].region, omth[t].in)
      <4>1. Selects(Begun(om.cbs, omth[t].in), scopes[GetThreadScope(t)].region, omth[t].in)
        BY <3>1, <3>3, Zenon DEF RegionsOwn
      <4>2. \A k \in 1..Len(omth[t].in) : k \in Begun(om.cbs, omth[t].in) <=> Captured((omth[t].in)[k])
        BY Zenon DEF Begun, Captured, Calls
      <4>3. QED
        BY <4>1, <4>2, Zenon DEF Selects, CapturedOf
    <3>4. QED
      BY <3>2, <3>3, Zenon
  <2>4. QED
    BY <2>2, <2>3, Zenon DEF OmptScopesSound
<1>2. QED
  BY <1>1, OmInitially, OmInductive, PTL DEF OmSpec
=============================================================================
