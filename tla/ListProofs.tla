----------------------------- MODULE ListProofs -----------------------------
(***************************************************************************)
(* The doubly linked lists of per-thread buffers: the aggregation          *)
(* databases (Aggregate.cpp) and the trace buffers (Trace.cpp).  Threads   *)
(* put theirs at the front while others walk the list, and clear takes out *)
(* those whose thread has ended.  The lemmas about lists come first; what  *)
(* keeps the walks on live elements is in the invariants of the services.  *)
(***************************************************************************)
EXTENDS AggregateThreads, Trace, WellFoundedInduction, TLAPS

(* s[1], ..., s[n] are different, follow each other by nxt and lead back   *)
(* by prv, from first to the end of the list.                              *)
Chain(none, n, s, first, nxt, prv) ==
  /\ \A i \in 1..n : \A j \in 1..n : s[i] = s[j] => i = j
  /\ first = IF n = 0 THEN none ELSE s[1]
  /\ \A i \in 1..n : nxt[s[i]] = IF i = n THEN none ELSE s[i + 1]
  /\ \A i \in 1..n : prv[s[i]] = IF i = 1 THEN none ELSE s[i - 1]

Holds(n, s, L) == \A x : x \in L <=> \E i \in 1..n : x = s[i]

(* The elements of L, and no others, are on the list.                      *)
OnList(T, none, L, first, nxt, prv) ==
  \E n \in Nat : \E s \in [1..n -> T] : Chain(none, n, s, first, nxt, prv) /\ Holds(n, s, L)

Pointers(T, none, nxt, prv) ==
  nxt \in [T -> T \cup {none}] /\ prv \in [T -> T \cup {none}]

(* t is put in front of the list, or d is taken out of it.                 *)
Pushed(none, first, nxt, prv, t, nxt2, prv2) ==
  /\ nxt2 = [nxt EXCEPT ![t] = first]
  /\ prv2 = IF first = none THEN prv ELSE [prv EXCEPT ![first] = t]

Unlinked(none, first, nxt, prv, d, first2, nxt2, prv2) ==
  /\ nxt2 = IF prv[d] = none THEN nxt ELSE [nxt EXCEPT ![prv[d]] = nxt[d]]
  /\ prv2 = IF nxt[d] = none THEN prv ELSE [prv EXCEPT ![nxt[d]] = prv[d]]
  /\ first2 = IF d = first THEN nxt[d] ELSE first

(* A nonempty set of numbers has a least element.                          *)
LEMMA LeastNumber ==
  ASSUME NEW T, T \subseteq Nat, T # {}
  PROVE  \E i \in T : \A j \in T : i <= j
<1>1. PICK R : R = OpToRel(<, Nat)
  BY Zenon
<1>2. IsWellFoundedOn(R, Nat)
  BY <1>1, NatLessThanWellFounded, Zenon
<1>3. PICK i \in T : \A j \in T : ~(<<j, i>> \in R)
  BY <1>2, WFMin, Zenon
<1>4. \A j \in Nat, k \in Nat : j < k => <<j, k>> \in R
  BY <1>1, Zenon DEF OpToRel
<1>5. ASSUME NEW j \in T PROVE i <= j
  <2>1. ~(j < i)
    BY <1>3, <1>4, Zenon
  <2>2. QED
    BY ONLY <2>1, i \in T, j \in T, T \subseteq Nat
<1>6. QED
  BY <1>5, Zenon

(* An empty list.                                                          *)
LEMMA ListEmpty ==
  ASSUME NEW T, NEW none, NEW nxt, NEW prv
  PROVE  OnList(T, none, {}, none, nxt, prv)
<1>1. PICK s : s = [i \in 1..0 |-> CHOOSE x \in T : TRUE]
  BY Zenon
<1>2. \A i : i \notin 1..0
  BY SMT
<1>3. s \in [1..0 -> T]
  BY <1>1, <1>2, Zenon
<1>4. Chain(none, 0, s, none, nxt, prv) /\ Holds(0, s, {})
  BY <1>2, Zenon DEF Chain, Holds
<1>5. 0 \in Nat
  BY SMT
<1>6. QED
  BY <1>3, <1>4, <1>5, Zenon DEF OnList

(* What the pointers of a list lead to is on the list.                     *)
LEMMA ListPointers ==
  ASSUME NEW T, NEW none, none \notin T, NEW L, NEW first, NEW nxt, NEW prv,
         OnList(T, none, L, first, nxt, prv)
  PROVE  /\ L \subseteq T
         /\ first # none => first \in L
         /\ \A d \in L : nxt[d] # none => nxt[d] \in L /\ nxt[d] # d
         /\ \A d \in L : prv[d] # none => prv[d] \in L
<1>1. PICK n \in Nat : \E s \in [1..n -> T] : Chain(none, n, s, first, nxt, prv) /\ Holds(n, s, L)
  BY Zenon DEF OnList
<1>2. PICK s \in [1..n -> T] : Chain(none, n, s, first, nxt, prv) /\ Holds(n, s, L)
  BY <1>1, Zenon
<1>3. n # 0 => 1 \in 1..n
  BY ONLY n \in Nat
<1>4. \A i \in 1..n : (i # n => i + 1 \in 1..n /\ i + 1 # i) /\ (i # 1 => i - 1 \in 1..n)
  BY ONLY n \in Nat
<1>5. L \subseteq T
  BY <1>2, Zenon DEF Holds
<1>6. first # none => first \in L
  BY <1>2, <1>3, Zenon DEF Chain, Holds
<1>7. ASSUME NEW d \in L
      PROVE  (nxt[d] # none => nxt[d] \in L /\ nxt[d] # d) /\ (prv[d] # none => prv[d] \in L)
  <2>1. PICK i \in 1..n : d = s[i]
    BY <1>2, Zenon DEF Holds
  <2>2. nxt[d] # none => nxt[d] \in L /\ nxt[d] # d
    <3>1. nxt[d] = IF i = n THEN none ELSE s[i + 1]
      BY <1>2, <2>1, Zenon DEF Chain
    <3>2. nxt[d] # none => nxt[d] \in L
      BY <1>2, <1>4, <3>1, Zenon DEF Holds
    <3>3. i # n => s[i + 1] # s[i]
      BY <1>2, <1>4, Zenon DEF Chain
    <3>4. QED
      BY <2>1, <3>1, <3>2, <3>3, Zenon
  <2>3. prv[d] # none => prv[d] \in L
    <3>1. prv[d] = IF i = 1 THEN none ELSE s[i - 1]
      BY <1>2, <2>1, Zenon DEF Chain
    <3>2. QED
      BY <1>2, <1>4, <3>1, Zenon DEF Holds
  <2>4. QED
    BY <2>2, <2>3, Zenon
<1>8. QED
  BY <1>5, <1>6, <1>7, Zenon

(* Following the list from its head reaches exactly its elements: they are *)
(* the least set with the head in it that nxt does not lead out of.        *)
LEMMA ListReaches ==
  ASSUME NEW T, NEW none, none \notin T, NEW L, NEW first, NEW nxt, NEW prv,
         OnList(T, none, L, first, nxt, prv)
  PROVE  {d \in T : \A S \in SUBSET T :
            (/\ first # none => first \in S
             /\ \A e \in S : nxt[e] # none => nxt[e] \in S) => d \in S} = L
<1> DEFINE Closed(S) == /\ first # none => first \in S
                        /\ \A e \in S : nxt[e] # none => nxt[e] \in S
<1>1. PICK n \in Nat : \E s \in [1..n -> T] : Chain(none, n, s, first, nxt, prv) /\ Holds(n, s, L)
  BY Zenon DEF OnList
<1>2. PICK s \in [1..n -> T] : Chain(none, n, s, first, nxt, prv) /\ Holds(n, s, L)
  BY <1>1, Zenon
<1>3. L \in SUBSET T /\ Closed(L)
  <2>1. /\ L \subseteq T
        /\ first # none => first \in L
        /\ \A d \in L : nxt[d] # none => nxt[d] \in L /\ nxt[d] # d
    BY ListPointers
  <2>2. QED
    BY <2>1, Zenon
<1>4. ASSUME NEW S \in SUBSET T, Closed(S) PROVE L \subseteq S
  <2>1. PICK B : B = {i \in 1..n : s[i] \notin S}
    BY Zenon
  <2>2. CASE B = {}
    <3>1. \A i \in 1..n : s[i] \in S
      BY <2>1, <2>2, Zenon
    <3>2. QED
      BY <1>2, <3>1, ZenonT(60) DEF Holds
  <2>3. CASE B # {}
    <3>1. B \subseteq Nat
      BY ONLY <2>1
    <3>2. PICK i \in B : \A j \in B : i <= j
      BY <2>3, <3>1, LeastNumber, Zenon
    <3>3. i \in 1..n /\ s[i] \notin S
      BY <2>1, <3>2, Zenon
    <3>4. n # 0 /\ (i # 1 => i - 1 \in 1..n /\ ~(i <= i - 1) /\ i - 1 # n /\ (i - 1) + 1 = i)
      BY ONLY n \in Nat, <3>3
    <3>5. CASE i = 1
      <4>1. s[1] \in T /\ first = s[1]
        BY <1>2, <3>3, <3>4, <3>5, Zenon DEF Chain
      <4>2. QED
        BY <1>4, <3>3, <3>5, <4>1, Zenon
    <3>6. CASE i # 1
      <4>1. PICK k : k = i - 1
        BY Zenon
      <4>2. k \in 1..n /\ k \notin B /\ s[k] \in S
        BY <2>1, <3>2, <3>4, <3>6, <4>1, Zenon
      <4>3. nxt[s[k]] = s[i] /\ s[i] \in T
        BY <1>2, <3>3, <3>4, <3>6, <4>1, <4>2, Zenon DEF Chain
      <4>4. QED
        BY <1>4, <3>3, <4>2, <4>3, Zenon
    <3>7. QED
      BY <3>5, <3>6, Zenon
  <2>4. QED
    BY <2>2, <2>3, Zenon
<1>5. QED
  BY <1>3, <1>4, Zenon

(* Putting a new element in front of the list (acquire).                   *)
LEMMA ListPush ==
  ASSUME NEW T, NEW none, none \notin T, NEW L, NEW first,
         NEW nxt, NEW prv, Pointers(T, none, nxt, prv),
         OnList(T, none, L, first, nxt, prv),
         NEW t \in T, t \notin L, prv[t] = none,
         NEW nxt2, NEW prv2, Pushed(none, first, nxt, prv, t, nxt2, prv2)
  PROVE  OnList(T, none, L \cup {t}, t, nxt2, prv2)
<1>t. nxt \in [T -> T \cup {none}] /\ prv \in [T -> T \cup {none}]
  BY Zenon DEF Pointers
<1>p. nxt2 = [nxt EXCEPT ![t] = first]
  BY Zenon DEF Pushed
<1>q. prv2 = IF first = none THEN prv ELSE [prv EXCEPT ![first] = t]
  BY Zenon DEF Pushed
<1>1. PICK n \in Nat : \E s \in [1..n -> T] : Chain(none, n, s, first, nxt, prv) /\ Holds(n, s, L)
  BY Zenon DEF OnList
<1>2. PICK s \in [1..n -> T] : Chain(none, n, s, first, nxt, prv) /\ Holds(n, s, L)
  BY <1>1, Zenon
<1>a. \A i \in 1..n : \A j \in 1..n : s[i] = s[j] => i = j
  BY <1>2, Zenon DEF Chain
<1>b. first = IF n = 0 THEN none ELSE s[1]
  BY <1>2, Zenon DEF Chain
<1>c. \A i \in 1..n : nxt[s[i]] = IF i = n THEN none ELSE s[i + 1]
  BY <1>2, Zenon DEF Chain
<1>d. \A i \in 1..n : prv[s[i]] = IF i = 1 THEN none ELSE s[i - 1]
  BY <1>2, Zenon DEF Chain
<1>3. PICK m \in Nat : m = n + 1
  OBVIOUS
<1>4. /\ \A i \in 1..m : i # 1 => i - 1 \in 1..n /\ (i = m <=> i - 1 = n)
      /\ \A i \in 1..n : i + 1 \in 1..m /\ i + 1 # 1 /\ (i + 1) - 1 = i
      /\ \A i \in 1..m, j \in 1..m : i - 1 = j - 1 => i = j
      /\ (n # 0 => 1 \in 1..n) /\ 1 \in 1..m /\ m # 0 /\ (1 = m <=> n = 0)
      /\ \A i \in 1..m : (i + 1) - 1 = i /\ (i - 1) + 1 = i /\ (i - 1 = 1 => i - 1 # 0)
  BY ONLY n \in Nat, <1>3
<1>5. PICK r : r = [i \in 1..m |-> IF i = 1 THEN t ELSE s[i - 1]]
  BY Zenon
<1>6. r \in [1..m -> T] /\ r[1] = t /\ \A i \in 1..m : i # 1 => r[i] = s[i - 1]
  <2>1. \A i \in 1..m : r[i] = IF i = 1 THEN t ELSE s[i - 1]
    BY <1>5, Zenon
  <2>2. \A i \in 1..m : (IF i = 1 THEN t ELSE s[i - 1]) \in T
    BY <1>4, Zenon
  <2>3. r \in [1..m -> T]
    BY <1>5, <2>2, Zenon
  <2>4. QED
    BY <1>4, <2>1, <2>3, Zenon
<1>7. \A i \in 1..n : s[i] # t /\ s[i] \in T
  BY <1>2, Zenon DEF Holds
<1>8. Holds(m, r, L \cup {t})
  <2>1. ASSUME NEW i \in 1..m PROVE r[i] \in L \cup {t}
    BY <1>2, <1>4, <1>6, Zenon DEF Holds
  <2>2. ASSUME NEW x \in L PROVE \E i \in 1..m : x = r[i]
    <3>1. PICK i \in 1..n : x = s[i]
      BY <1>2, Zenon DEF Holds
    <3>2. r[i + 1] = x /\ i + 1 \in 1..m
      BY <1>4, <1>6, <3>1, Zenon
    <3>3. QED
      BY <3>2, Zenon
  <2>3. \E i \in 1..m : t = r[i]
    BY <1>4, <1>6, Zenon
  <2>4. QED
    BY <2>1, <2>2, <2>3, Zenon DEF Holds
<1>9. \A i \in 1..m : \A j \in 1..m : r[i] = r[j] => i = j
  <2> SUFFICES ASSUME NEW i \in 1..m, NEW j \in 1..m, r[i] = r[j] PROVE i = j
    BY Zenon
  <2>1. ASSUME NEW k \in 1..m, k # 1
        PROVE  r[k] = s[k - 1] /\ k - 1 \in 1..n /\ r[k] # t
    <3>1. r[k] = s[k - 1] /\ k - 1 \in 1..n
      BY <1>4, <1>6, <2>1, Zenon
    <3>2. QED
      BY <1>7, <3>1, Zenon
  <2>2. CASE i = 1 \/ j = 1
    BY <1>6, <2>1, <2>2, Zenon
  <2>3. CASE i # 1 /\ j # 1
    <3>1. i - 1 = j - 1
      BY <1>a, <2>1, <2>3, Zenon
    <3>2. QED
      BY <1>4, <3>1, Zenon
  <2>4. QED
    BY <2>2, <2>3, Zenon
<1>10. ASSUME NEW i \in 1..m PROVE nxt2[r[i]] = IF i = m THEN none ELSE r[i + 1]
  <2>1. CASE i = 1
    <3>1. nxt2[t] = first
      BY <1>t, <1>p, Zenon
    <3>2. n # 0 => i + 1 \in 1..m /\ i + 1 # 1 /\ (i + 1) - 1 = 1
      BY ONLY n \in Nat, <1>3, <2>1
    <3>3. CASE n = 0
      BY <1>b, <1>4, <1>6, <2>1, <3>1, <3>3, Zenon
    <3>4. CASE n # 0
      <4>1. r[i + 1] = s[1]
        BY <1>6, <3>2, <3>4, Zenon
      <4>2. QED
        BY <1>b, <1>4, <1>6, <2>1, <3>1, <3>4, <4>1, Zenon
    <3>5. QED
      BY <3>3, <3>4, Zenon
  <2>2. CASE i # 1
    <3>1. PICK k \in 1..n : k = i - 1
      BY <1>4, <2>2, Zenon
    <3>2. nxt2[r[i]] = nxt[s[k]]
      <4>1. r[i] = s[k]
        BY <1>6, <2>2, <3>1, Zenon
      <4>2. QED
        BY <1>t, <1>p, <1>7, <4>1, Zenon
    <3>3. (k = n <=> i = m) /\ (i # m => i + 1 \in 1..m /\ i + 1 # 1 /\ (i + 1) - 1 = k + 1)
      BY ONLY n \in Nat, <1>3, <2>2, <3>1, i \in 1..m
    <3>4. i # m => r[i + 1] = s[k + 1]
      BY <1>6, <3>3, Zenon
    <3>5. QED
      BY <1>c, <3>2, <3>3, <3>4, Zenon
  <2>3. QED
    BY <2>1, <2>2, Zenon
<1>11. ASSUME NEW i \in 1..m PROVE prv2[r[i]] = IF i = 1 THEN none ELSE r[i - 1]
  <2>1. CASE i = 1
    <3>1. first # t
      BY <1>b, <1>4, <1>7, Zenon
    <3>2. prv2[t] = prv[t]
      BY <1>t, <1>q, <3>1, Zenon
    <3>3. QED
      BY <1>6, <2>1, <3>2, Zenon
  <2>2. CASE i # 1
    <3>1. PICK k \in 1..n : k = i - 1
      BY <1>4, <2>2, Zenon
    <3>2. n # 0 /\ 1 \in 1..n /\ k \in 1..m /\ (k # 1 => k - 1 \in 1..n)
      BY ONLY n \in Nat, <1>3, k \in 1..n
    <3>3. first = s[1] /\ s[1] \in T /\ s[k] \in T
      BY <1>b, <3>2, Zenon
    <3>4. prv2 = [prv EXCEPT ![first] = t]
      BY <1>q, <3>3, Zenon
    <3>5. CASE k = 1
      <4>1. r[i] = first /\ r[i - 1] = t
        <5>1. i - 1 = 1
          BY <3>1, <3>5, Zenon
        <5>2. r[i] = s[1]
          BY <1>6, <2>2, <5>1, Zenon
        <5>3. QED
          BY <1>6, <3>3, <5>1, <5>2, Zenon
      <4>2. prv2[first] = t
        BY <1>t, <3>3, <3>4, Zenon
      <4>3. QED
        BY <2>2, <4>1, <4>2, Zenon
    <3>6. CASE k # 1
      <4>1. s[k] # first
        BY <1>a, <3>2, <3>3, <3>6, Zenon
      <4>2. prv2[s[k]] = s[k - 1]
        BY <1>t, <1>d, <3>3, <3>4, <3>6, <4>1, Zenon
      <4>3. QED
        BY <1>6, <2>2, <3>1, <3>2, <3>6, <4>2, Zenon
    <3>7. QED
      BY <3>5, <3>6, Zenon
  <2>3. QED
    BY <2>1, <2>2, Zenon
<1>12. Chain(none, m, r, t, nxt2, prv2)
  BY <1>4, <1>6, <1>9, <1>10, <1>11, Zenon DEF Chain
<1>13. QED
  BY <1>6, <1>8, <1>12, Zenon DEF OnList

(* Taking an element out of the list, wherever it is (unlink).             *)
LEMMA ListUnlink ==
  ASSUME NEW T, NEW none, none \notin T, NEW L, NEW first,
         NEW nxt, NEW prv, Pointers(T, none, nxt, prv),
         OnList(T, none, L, first, nxt, prv),
         NEW d \in L,
         NEW first2, NEW nxt2, NEW prv2, Unlinked(none, first, nxt, prv, d, first2, nxt2, prv2)
  PROVE  OnList(T, none, L \ {d}, first2, nxt2, prv2)
<1>t. nxt \in [T -> T \cup {none}] /\ prv \in [T -> T \cup {none}]
  BY Zenon DEF Pointers
<1>p. nxt2 = IF prv[d] = none THEN nxt ELSE [nxt EXCEPT ![prv[d]] = nxt[d]]
  BY Zenon DEF Unlinked
<1>q. prv2 = IF nxt[d] = none THEN prv ELSE [prv EXCEPT ![nxt[d]] = prv[d]]
  BY Zenon DEF Unlinked
<1>r. first2 = IF d = first THEN nxt[d] ELSE first
  BY Zenon DEF Unlinked
<1>1. PICK n \in Nat : \E s \in [1..n -> T] : Chain(none, n, s, first, nxt, prv) /\ Holds(n, s, L)
  BY Zenon DEF OnList
<1>2. PICK s \in [1..n -> T] : Chain(none, n, s, first, nxt, prv) /\ Holds(n, s, L)
  BY <1>1, Zenon
<1>a. \A i \in 1..n : \A j \in 1..n : s[i] = s[j] => i = j
  BY <1>2, Zenon DEF Chain
<1>b. first = IF n = 0 THEN none ELSE s[1]
  BY <1>2, Zenon DEF Chain
<1>c. \A i \in 1..n : nxt[s[i]] = IF i = n THEN none ELSE s[i + 1]
  BY <1>2, Zenon DEF Chain
<1>d. \A i \in 1..n : prv[s[i]] = IF i = 1 THEN none ELSE s[i - 1]
  BY <1>2, Zenon DEF Chain
<1>3. PICK k \in 1..n : d = s[k]
  BY <1>2, Zenon DEF Holds
<1>4. PICK m \in Nat : n = m + 1
  <2>1. n - 1 \in Nat /\ n = (n - 1) + 1
    BY ONLY n \in Nat, k \in 1..n
  <2>2. QED
    BY <2>1, Zenon
<1>5. \A i \in 1..n : s[i] \in T /\ s[i] # none
  BY Zenon
<1>6. PICK r : r = [i \in 1..m |-> IF i < k THEN s[i] ELSE s[i + 1]]
  BY Zenon
<1>7. \A i \in 1..m : /\ i \in 1..n /\ i + 1 \in 1..n
                      /\ i < k => i # k
                      /\ ~(i < k) => i + 1 # k
  BY ONLY n \in Nat, <1>4, k \in 1..n
<1>8. \A i \in 1..m : /\ i < k => r[i] = s[i]
                      /\ ~(i < k) => r[i] = s[i + 1]
  BY <1>6, Zenon
<1>9. r \in [1..m -> T]
  <2>1. \A i \in 1..m : (IF i < k THEN s[i] ELSE s[i + 1]) \in T
    BY <1>5, <1>7, Zenon
  <2>2. QED
    BY <1>6, <2>1, Zenon
<1>10. Holds(m, r, L \ {d})
  <2>1. ASSUME NEW i \in 1..m PROVE r[i] \in L \ {d}
    <3>1. PICK j \in 1..n : r[i] = s[j] /\ j # k
      BY <1>7, <1>8, Zenon
    <3>2. s[j] # d
      BY <1>a, <1>3, <3>1, Zenon
    <3>3. s[j] \in L
      BY <1>2, Zenon DEF Holds
    <3>4. QED
      BY <3>1, <3>2, <3>3, Zenon
  <2>2. ASSUME NEW x \in L, x # d PROVE \E i \in 1..m : x = r[i]
    <3>1. PICK j \in 1..n : x = s[j]
      BY <1>2, Zenon DEF Holds
    <3>2. j # k
      BY <1>3, <2>2, <3>1, Zenon
    <3>3. CASE j < k
      <4>1. j \in 1..m
        BY ONLY n \in Nat, <1>4, k \in 1..n, j \in 1..n, <3>3
      <4>2. QED
        BY <1>8, <3>1, <3>3, <4>1, Zenon
    <3>4. CASE ~(j < k)
      <4>1. j - 1 \in 1..m /\ ~(j - 1 < k) /\ (j - 1) + 1 = j
        BY ONLY n \in Nat, <1>4, k \in 1..n, j \in 1..n, <3>2, <3>4
      <4>2. r[j - 1] = s[j]
        BY <1>8, <4>1, Zenon
      <4>3. QED
        BY <3>1, <4>1, <4>2, Zenon
    <3>5. QED
      BY <3>3, <3>4, Zenon
  <2>3. QED
    BY <2>1, <2>2, Zenon DEF Holds
<1>11. ASSUME NEW i \in 1..m, NEW j \in 1..m, r[i] = r[j] PROVE i = j
  <2>1. PICK p \in 1..n : r[i] = s[p] /\ (i < k => p = i) /\ (~(i < k) => p = i + 1)
    BY <1>7, <1>8, Zenon
  <2>2. PICK q \in 1..n : r[j] = s[q] /\ (j < k => q = j) /\ (~(j < k) => q = j + 1)
    BY <1>7, <1>8, Zenon
  <2>3. p = q
    BY <1>a, <1>11, <2>1, <2>2, Zenon
  <2>4. QED
    BY ONLY k \in 1..n, i \in 1..m, j \in 1..m, <2>1, <2>2, <2>3
<1>12. prv[d] = (IF k = 1 THEN none ELSE s[k - 1]) /\ nxt[d] = (IF k = n THEN none ELSE s[k + 1])
  BY <1>c, <1>d, <1>3, Zenon
<1>13. (k # 1 => k - 1 \in 1..n) /\ (k # n => k + 1 \in 1..n)
  BY ONLY n \in Nat, k \in 1..n
<1>14. /\ \A p \in 1..n : p # k - 1 => nxt2[s[p]] = nxt[s[p]]
       /\ k # 1 => nxt2[s[k - 1]] = nxt[d]
  <2>1. CASE k = 1
    <3>1. nxt2 = nxt
      BY <1>p, <1>12, <2>1, Zenon
    <3>2. QED
      BY <2>1, <3>1, Zenon
  <2>2. CASE k # 1
    <3>1. prv[d] = s[k - 1] /\ s[k - 1] \in T /\ prv[d] # none
      BY <1>5, <1>12, <1>13, <2>2, Zenon
    <3>2. nxt2 = [nxt EXCEPT ![s[k - 1]] = nxt[d]]
      BY <1>p, <3>1, Zenon
    <3>3. \A p \in 1..n : p # k - 1 => s[p] # s[k - 1]
      BY <1>a, <1>13, <2>2, Zenon
    <3>4. nxt2[s[k - 1]] = nxt[d]
      BY <1>t, <3>1, <3>2, Zenon
    <3>5. ASSUME NEW p \in 1..n, p # k - 1 PROVE nxt2[s[p]] = nxt[s[p]]
      <4>1. s[p] # s[k - 1] /\ s[p] \in T
        BY <1>5, <3>3, <3>5, Zenon
      <4>2. QED
        BY <1>t, <3>2, <4>1, Zenon
    <3>6. QED
      BY <3>4, <3>5, Zenon
  <2>3. QED
    BY <2>1, <2>2, Zenon
<1>15. /\ \A p \in 1..n : p # k + 1 => prv2[s[p]] = prv[s[p]]
       /\ k # n => prv2[s[k + 1]] = prv[d]
  <2>1. CASE k = n
    <3>1. prv2 = prv
      BY <1>q, <1>12, <2>1, Zenon
    <3>2. QED
      BY <2>1, <3>1, Zenon
  <2>2. CASE k # n
    <3>1. nxt[d] = s[k + 1] /\ s[k + 1] \in T /\ nxt[d] # none
      BY <1>5, <1>12, <1>13, <2>2, Zenon
    <3>2. prv2 = [prv EXCEPT ![s[k + 1]] = prv[d]]
      BY <1>q, <3>1, Zenon
    <3>3. \A p \in 1..n : p # k + 1 => s[p] # s[k + 1]
      BY <1>a, <1>13, <2>2, Zenon
    <3>4. prv2[s[k + 1]] = prv[d]
      BY <1>t, <3>1, <3>2, Zenon
    <3>5. ASSUME NEW p \in 1..n, p # k + 1 PROVE prv2[s[p]] = prv[s[p]]
      <4>1. s[p] # s[k + 1] /\ s[p] \in T
        BY <1>5, <3>3, <3>5, Zenon
      <4>2. QED
        BY <1>t, <3>2, <4>1, Zenon
    <3>6. QED
      BY <3>4, <3>5, Zenon
  <2>3. QED
    BY <2>1, <2>2, Zenon
<1>16. first2 = IF m = 0 THEN none ELSE r[1]
  <2>1. n # 0 /\ (m = 0 <=> n = 1) /\ 1 \in 1..n /\ (m # 0 => 1 \in 1..m)
    BY ONLY n \in Nat, m \in Nat, <1>4
  <2>2. first = s[1]
    BY <1>b, <2>1, Zenon
  <2>3. CASE k = 1
    <3>1. ~(1 < k) /\ k + 1 = 1 + 1
      BY ONLY <2>3
    <3>2. m # 0 => r[1] = s[k + 1]
      BY <1>8, <2>1, <3>1, Zenon
    <3>3. first2 = nxt[d]
      BY <1>r, <1>3, <2>2, <2>3, Zenon
    <3>4. QED
      BY <1>12, <2>1, <2>3, <3>2, <3>3, Zenon
  <2>4. CASE k # 1
    <3>1. 1 < k /\ m # 0
      BY ONLY <2>4, k \in 1..n, m \in Nat, <1>4
    <3>2. d # first
      BY <1>a, <1>3, <2>1, <2>2, <2>4, Zenon
    <3>3. r[1] = s[1]
      BY <1>8, <2>1, <3>1, Zenon
    <3>4. QED
      BY <1>r, <2>2, <3>1, <3>2, <3>3, Zenon
  <2>5. QED
    BY <2>3, <2>4, Zenon
<1>17. ASSUME NEW i \in 1..m PROVE nxt2[r[i]] = IF i = m THEN none ELSE r[i + 1]
  <2>1. CASE i = k - 1
    <3>1. i < k /\ k # 1 /\ (i = m <=> k = n) /\ i + 1 = k /\ (k # n => k \in 1..m /\ ~(k < k))
      BY ONLY <1>4, m \in Nat, i \in 1..m, k \in 1..n, <2>1
    <3>2. nxt2[r[i]] = nxt[d]
      BY <1>8, <1>14, <2>1, <3>1, Zenon
    <3>3. k # n => r[i + 1] = s[k + 1]
      BY <1>8, <3>1, Zenon
    <3>4. QED
      BY <1>12, <3>1, <3>2, <3>3, Zenon
  <2>2. CASE i < k /\ i # k - 1
    <3>1. i # m /\ i # n /\ i + 1 \in 1..m /\ i + 1 < k /\ i \in 1..n
      BY ONLY <1>4, m \in Nat, i \in 1..m, k \in 1..n, <2>2
    <3>2. nxt2[r[i]] = nxt[s[i]]
      BY <1>8, <1>14, <2>2, <3>1, Zenon
    <3>3. r[i + 1] = s[i + 1]
      BY <1>8, <3>1, Zenon
    <3>4. QED
      BY <1>c, <3>1, <3>2, <3>3, Zenon
  <2>3. CASE ~(i < k)
    <3>1. PICK p \in 1..n : p = i + 1
      BY <1>7, Zenon
    <3>2. p # k - 1 /\ (p = n <=> i = m) /\ (i # m => p \in 1..m /\ ~(p < k))
      BY ONLY <1>4, m \in Nat, i \in 1..m, k \in 1..n, <2>3, <3>1
    <3>3. nxt2[r[i]] = nxt[s[p]]
      BY <1>8, <1>14, <2>3, <3>1, <3>2, Zenon
    <3>4. i # m => r[i + 1] = s[p + 1]
      BY <1>8, <3>1, <3>2, Zenon
    <3>5. QED
      BY <1>c, <3>2, <3>3, <3>4, Zenon
  <2>4. i < k \/ ~(i < k)
    BY Zenon
  <2>5. QED
    BY <2>1, <2>2, <2>3, <2>4, Zenon
<1>18. ASSUME NEW i \in 1..m PROVE prv2[r[i]] = IF i = 1 THEN none ELSE r[i - 1]
  <2>1. CASE i < k
    <3>1. i \in 1..n /\ i # k + 1 /\ (i # 1 => i - 1 \in 1..m /\ i - 1 < k)
      BY ONLY <1>4, m \in Nat, i \in 1..m, k \in 1..n, <2>1
    <3>2. prv2[r[i]] = prv[s[i]]
      BY <1>8, <1>15, <2>1, <3>1, Zenon
    <3>3. i # 1 => r[i - 1] = s[i - 1]
      BY <1>8, <3>1, Zenon
    <3>4. QED
      BY <1>d, <3>1, <3>2, <3>3, Zenon
  <2>2. CASE i = k
    <3>1. k # n /\ ~(i < k) /\ (k # 1 => k - 1 \in 1..m /\ k - 1 < k)
      BY ONLY <1>4, m \in Nat, i \in 1..m, k \in 1..n, <2>2
    <3>2. prv2[r[i]] = prv[d]
      BY <1>8, <1>15, <2>2, <3>1, Zenon
    <3>3. k # 1 => r[k - 1] = s[k - 1]
      BY <1>8, <3>1, Zenon
    <3>4. QED
      BY <1>12, <2>2, <3>2, <3>3, Zenon
  <2>3. CASE ~(i < k) /\ i # k
    <3>1. PICK p \in 1..n : p = i + 1
      BY <1>7, Zenon
    <3>2. p # k + 1 /\ p # 1 /\ i # 1 /\ p - 1 = i /\ i - 1 \in 1..m /\ ~(i - 1 < k) /\ (i - 1) + 1 = i
      BY ONLY <1>4, m \in Nat, i \in 1..m, k \in 1..n, <2>3, <3>1
    <3>3. prv2[r[i]] = prv[s[p]]
      BY <1>8, <1>15, <2>3, <3>1, <3>2, Zenon
    <3>4. r[i - 1] = s[i]
      BY <1>8, <3>2, Zenon
    <3>5. prv[s[p]] = s[i]
      BY <1>d, <3>2, Zenon
    <3>6. QED
      BY <3>2, <3>3, <3>4, <3>5, Zenon
  <2>4. QED
    BY <2>1, <2>2, <2>3, Zenon
<1>19. Chain(none, m, r, first2, nxt2, prv2)
  BY <1>11, <1>16, <1>17, <1>18, Zenon DEF Chain
<1>20. QED
  BY <1>9, <1>10, <1>19, Zenon DEF OnList

-----------------------------------------------------------------------------
(* The aggregation databases.                                              *)

Live == linked \ dbFreed

VisitOps == {"none", "flush", "flushing", "clear", "clearing", "delete"}

Visit == [op : VisitOps, db : DbThreads \cup {NoDb}]

DbTypeOK ==
  /\ alive \subseteq DbThreads /\ dbRetired \subseteq DbThreads
  /\ dbNext \in [DbThreads -> DbThreads \cup {NoDb}]
  /\ dbPrev \in [DbThreads -> DbThreads \cup {NoDb}]
  /\ dbList \in DbThreads \cup {NoDb}
  /\ visit \in [DbThreads -> Visit]
  /\ overlap \in BOOLEAN

(* A database is in use by its thread or retired, and only retired ones    *)
(* are deleted.                                                            *)
DbStates ==
  /\ linked = alive \cup dbRetired /\ alive \cap dbRetired = {}
  /\ inside \subseteq alive /\ dbFreed \subseteq dbRetired

(* A visit is at some database, and one that will delete it has seen that  *)
(* it is retired.                                                          *)
VisitOK(v) ==
  v # NoVisit => /\ v.op # "none" /\ v.db \in DbThreads
                 /\ v.op = "delete" => v.db \in dbRetired

OneVisitor ==
  \A t \in DbThreads : \A u \in DbThreads : visit[t] # NoVisit /\ visit[u] # NoVisit => t = u

VisitsLive == \A t \in DbThreads : visit[t] # NoVisit => visit[t].db \in Live

(* A database that is not yet in the list has nothing before it.           *)
NewUnlinked == \A t \in DbThreads : t \notin linked => dbPrev[t] = NoDb

DbsOnList == OnList(DbThreads, NoDb, Live, dbList, dbNext, dbPrev)

DbInv ==
  /\ DbTypeOK /\ DbStates
  /\ \A t \in DbThreads : VisitOK(visit[t])
  /\ ~overlap => OneVisitor /\ VisitsLive /\ NewUnlinked /\ DbsOnList

LEMMA DbInitially == AtInit => DbInv
<1> SUFFICES ASSUME AtInit PROVE DbInv
  BY Zenon
<1>1. NoVisit \in Visit
  BY Zenon DEF NoVisit, Visit, VisitOps
<1>2. DbTypeOK
  BY <1>1, Zenon DEF AtInit, DbTypeOK
<1>3. DbStates /\ \A t \in DbThreads : VisitOK(visit[t])
  BY Zenon DEF AtInit, DbStates, VisitOK
<1>4. OneVisitor /\ VisitsLive /\ NewUnlinked
  BY Zenon DEF AtInit, OneVisitor, VisitsLive, NewUnlinked
<1>5. Live = {} /\ dbList = NoDb
  BY Zenon DEF AtInit, Live
<1>6. DbsOnList
  BY <1>5, ListEmpty, Zenon DEF DbsOnList
<1>7. QED
  BY <1>2, <1>3, <1>4, <1>6, Zenon DEF DbInv

(* acquire: the new database is in front of the others.                    *)
LEMMA AcquireKeeps ==
  ASSUME DbInv, NEW t \in DbThreads, AcquireDb(t)
  PROVE  DbInv'
<1>1. /\ t \notin alive /\ t \notin dbRetired
      /\ alive' = alive \cup {t} /\ linked' = linked \cup {t}
      /\ dbPrev' = IF dbList = NoDb THEN dbPrev ELSE [dbPrev EXCEPT ![dbList] = t]
      /\ dbNext' = [dbNext EXCEPT ![t] = dbList] /\ dbList' = t
      /\ UNCHANGED <<dbRetired, dbFreed, inside, visit, overlap>>
  BY Zenon DEF AcquireDb
<1>2. DbTypeOK /\ DbStates
  BY Zenon DEF DbInv
<1>3. DbTypeOK'
  <2>1. dbNext' \in [DbThreads -> DbThreads \cup {NoDb}]
    BY <1>1, <1>2, Zenon DEF DbTypeOK
  <2>2. dbPrev' \in [DbThreads -> DbThreads \cup {NoDb}]
    BY <1>1, <1>2, Zenon DEF DbTypeOK
  <2>3. QED
    BY <1>1, <1>2, <2>1, <2>2, Zenon DEF DbTypeOK
<1>4. DbStates'
  BY <1>1, <1>2, Zenon DEF DbStates
<1>5. \A u \in DbThreads : VisitOK(visit[u])'
  BY <1>1, Zenon DEF DbInv, VisitOK
<1>6. ASSUME ~overlap PROVE OneVisitor' /\ VisitsLive' /\ NewUnlinked' /\ DbsOnList'
  <2>1. OneVisitor /\ VisitsLive /\ NewUnlinked /\ DbsOnList
    BY <1>6, Zenon DEF DbInv
  <2>2. t \notin linked /\ t \notin Live /\ Live' = Live \cup {t}
    BY <1>1, <1>2, Zenon DEF DbStates, Live
  <2>3. OneVisitor' /\ VisitsLive'
    BY <1>1, <2>1, <2>2, Zenon DEF OneVisitor, VisitsLive
  <2>4. dbList # NoDb => dbList \in Live
    BY <2>1, DbAssumption, ListPointers DEF DbsOnList
  <2>5. NewUnlinked'
    <3> SUFFICES ASSUME NEW u \in DbThreads, u \notin linked' PROVE dbPrev'[u] = NoDb
      BY Zenon DEF NewUnlinked
    <3>1. u \notin linked /\ dbPrev[u] = NoDb
      BY <1>1, <2>1, Zenon DEF NewUnlinked
    <3>2. dbList = NoDb \/ u # dbList
      BY <2>4, <3>1, Zenon DEF Live
    <3>3. QED
      BY <1>1, <1>2, <3>1, <3>2, Zenon DEF DbTypeOK
  <2>6. dbPrev[t] = NoDb
    BY <2>1, <2>2, Zenon DEF NewUnlinked
  <2>7. DbsOnList'
    <3>1. OnList(DbThreads, NoDb, Live \cup {t}, t, dbNext', dbPrev')
      <4> PICK L, f, n1, p1, n2, p2 :
             L = Live /\ f = dbList /\ n1 = dbNext /\ p1 = dbPrev /\ n2 = dbNext' /\ p2 = dbPrev'
        BY Zenon
      <4>1. /\ OnList(DbThreads, NoDb, L, f, n1, p1) /\ t \notin L /\ p1[t] = NoDb
            /\ Pointers(DbThreads, NoDb, n1, p1) /\ Pushed(NoDb, f, n1, p1, t, n2, p2)
        BY <1>1, <1>2, <2>1, <2>2, <2>6, Zenon DEF DbTypeOK, DbsOnList, Pointers, Pushed
      <4>2. OnList(DbThreads, NoDb, L \cup {t}, t, n2, p2)
        BY <4>1, DbAssumption, ListPush, Zenon
      <4>3. QED
        BY <4>2, Zenon
    <3>2. QED
      BY <1>1, <2>2, <3>1, Zenon DEF DbsOnList
  <2>8. QED
    BY <2>3, <2>5, <2>7, Zenon
<1>7. QED
  BY <1>1, <1>3, <1>4, <1>5, <1>6, Zenon DEF DbInv

(* A step that leaves the list and the set of live databases as they are.  *)
LEMMA DbQuiet ==
  ASSUME DbInv, DbTypeOK', DbStates', \A t \in DbThreads : VisitOK(visit[t])',
         UNCHANGED <<linked, dbFreed, dbNext, dbPrev, dbList>>,
         ~overlap' => ~overlap /\ OneVisitor' /\ VisitsLive'
  PROVE  DbInv'
<1>1. ASSUME ~overlap' PROVE NewUnlinked' /\ DbsOnList'
  <2>1. NewUnlinked /\ DbsOnList
    BY <1>1, Zenon DEF DbInv
  <2>2. QED
    BY <2>1, Zenon DEF NewUnlinked, DbsOnList, Live
<1>2. QED
  BY <1>1, Zenon DEF DbInv

(* A step of the snapshots and of retire: no visit moves.                  *)
LEMMA UseKeeps ==
  ASSUME DbInv, NEW t \in DbThreads, TestStopped(t) \/ CountSnapshot(t) \/ RetireDb(t)
  PROVE  DbInv'
<1>1. /\ UNCHANGED <<linked, dbFreed, dbNext, dbPrev, dbList, visit, overlap>>
      /\ alive' \subseteq alive /\ alive' \cup dbRetired' = alive \cup dbRetired
      /\ alive' \cap dbRetired' = {} /\ inside' \subseteq alive' /\ dbRetired \subseteq dbRetired'
  <2>1. CASE TestStopped(t)
    BY <2>1, Zenon DEF TestStopped, DbInv, DbStates
  <2>2. CASE CountSnapshot(t)
    BY <2>2, Zenon DEF CountSnapshot, DbInv, DbStates
  <2>3. CASE RetireDb(t)
    <3>1. t \in alive /\ t \notin inside /\ alive' = alive \ {t} /\ dbRetired' = dbRetired \cup {t}
      BY <2>3, Zenon DEF RetireDb
    <3>2. UNCHANGED <<linked, dbFreed, dbNext, dbPrev, dbList, visit, overlap, inside>>
      BY <2>3, Zenon DEF RetireDb
    <3>3. QED
      BY <3>1, <3>2, Zenon DEF DbInv, DbStates
  <2>4. QED
    BY <2>1, <2>2, <2>3, Zenon
<1>2. DbTypeOK' /\ DbStates'
  BY <1>1, Zenon DEF DbInv, DbTypeOK, DbStates
<1>3. \A u \in DbThreads : VisitOK(visit[u])'
  BY <1>1, Zenon DEF DbInv, VisitOK
<1>4. ~overlap' => ~overlap /\ OneVisitor' /\ VisitsLive'
  BY <1>1, Zenon DEF DbInv, OneVisitor, VisitsLive, Live
<1>5. QED
  BY <1>1, <1>2, <1>3, <1>4, DbQuiet, Zenon

(* A step of one visit that leaves the list alone: what has to hold of the *)
(* visit afterwards.                                                       *)
LEMMA VisitKeeps ==
  ASSUME DbInv, NEW t \in DbThreads, NEW v \in Visit, visit' = [visit EXCEPT ![t] = v],
         UNCHANGED <<alive, linked, dbRetired, dbFreed, inside, dbNext, dbPrev, dbList>>,
         overlap' \in BOOLEAN, VisitOK(v),
         ~overlap' => /\ ~overlap /\ (v # NoVisit => v.db \in Live)
                      /\ visit[t] = NoVisit => \A u \in DbThreads : visit[u] = NoVisit
  PROVE  DbInv'
<1>1. visit'[t] = v /\ \A u \in DbThreads : u # t => visit'[u] = visit[u]
  BY Zenon DEF DbInv, DbTypeOK
<1>2. DbTypeOK' /\ DbStates'
  BY Zenon DEF DbInv, DbTypeOK, DbStates
<1>3. ASSUME NEW u \in DbThreads PROVE VisitOK(visit[u])'
  <2>1. VisitOK(visit[u]) /\ VisitOK(v) /\ dbRetired' = dbRetired
    BY Zenon DEF DbInv
  <2>2. visit'[u] = v \/ visit'[u] = visit[u]
    BY <1>1, Zenon
  <2>3. QED
    BY <2>1, <2>2, Zenon DEF VisitOK
<1>4. ASSUME ~overlap' PROVE OneVisitor' /\ VisitsLive'
  <2>1. OneVisitor /\ VisitsLive /\ (v # NoVisit => v.db \in Live) /\ Live' = Live
    BY <1>4, Zenon DEF DbInv, Live
  <2>2. VisitsLive'
    <3>1. ASSUME NEW u \in DbThreads, visit'[u] # NoVisit PROVE visit'[u].db \in Live'
      <4>1. visit'[u] = v \/ visit'[u] = visit[u]
        BY <1>1, Zenon
      <4>2. v = NoVisit \/ v.db \in Live'
        BY <2>1, Zenon
      <4>3. visit[u] = NoVisit \/ visit[u].db \in Live'
        BY <2>1, Zenon DEF VisitsLive
      <4>4. CASE visit'[u] = v
        BY <3>1, <4>2, <4>4, Zenon
      <4>5. CASE visit'[u] = visit[u]
        BY <3>1, <4>3, <4>5, Zenon
      <4>6. QED
        BY <4>1, <4>4, <4>5, Zenon
    <3>2. QED
      BY <3>1, Zenon DEF VisitsLive
  <2>3. ASSUME NEW u \in DbThreads, u # t PROVE visit'[u] = NoVisit \/ v = NoVisit \/ visit[t] # NoVisit
    BY <1>1, <1>4, <2>3, Zenon
  <2>4. ASSUME NEW u \in DbThreads, NEW w \in DbThreads, visit'[u] # NoVisit, visit'[w] # NoVisit
        PROVE  u = w
    <3>1. CASE visit[t] = NoVisit
      BY <1>1, <1>4, <2>4, <3>1, Zenon
    <3>2. CASE visit[t] # NoVisit
      BY <1>1, <2>1, <2>4, <3>2, Zenon DEF OneVisitor
    <3>3. QED
      BY <3>1, <3>2, Zenon
  <2>5. QED
    BY <2>2, <2>4, Zenon DEF OneVisitor
<1>5. QED
  BY <1>2, <1>3, <1>4, DbQuiet, Zenon

LEMMA StartVisitKeeps ==
  ASSUME DbInv, NEW t \in DbThreads, NEW o \in {"flush", "clear"}, StartVisit(t, o)
  PROVE  DbInv'
<1>1. PICK v : v = [op |-> o, db |-> dbList]
  BY Zenon
<1>2. /\ visit[t] = NoVisit /\ dbList # NoDb /\ visit' = [visit EXCEPT ![t] = v]
      /\ overlap' = (overlap \/ \E u \in DbThreads : visit[u] # NoVisit)
      /\ UNCHANGED <<alive, linked, dbRetired, dbFreed, inside, dbNext, dbPrev, dbList>>
  BY <1>1, Zenon DEF StartVisit
<1>3. DbTypeOK /\ dbList \in DbThreads
  BY <1>2, Zenon DEF DbInv, DbTypeOK
<1>4. v \in Visit /\ v.op = o /\ v.db = dbList
  BY <1>1, <1>3, Zenon DEF Visit, VisitOps
<1>5. VisitOK(v)
  BY <1>3, <1>4, Zenon DEF VisitOK
<1>6. overlap' \in BOOLEAN
  BY <1>2, Zenon
<1>7. ~overlap' => ~overlap /\ \A u \in DbThreads : visit[u] = NoVisit
  BY <1>2, Zenon
<1>8. ~overlap => dbList \in Live
  <2>1. ~overlap => DbsOnList
    BY Zenon DEF DbInv
  <2>2. QED
    BY <1>2, <2>1, DbAssumption, ListPointers DEF DbsOnList
<1>9. QED
  BY <1>2, <1>4, <1>5, <1>6, <1>7, <1>8, VisitKeeps, Zenon

LEMMA StopKeeps ==
  ASSUME DbInv, NEW t \in DbThreads, StopDb(t)
  PROVE  DbInv'
<1>1. PICK c : c = IF visit[t].op = "flush" THEN "flushing" ELSE "clearing"
  BY Zenon
<1>2. PICK v : v = [visit[t] EXCEPT !.op = c]
  BY Zenon
<1>3. /\ visit[t].op \in {"flush", "clear"} /\ visit' = [visit EXCEPT ![t] = v]
      /\ UNCHANGED <<alive, linked, dbRetired, dbFreed, inside, dbNext, dbPrev, dbList, overlap>>
  BY <1>1, <1>2, Zenon DEF StopDb
<1>4. visit[t] \in Visit /\ VisitOK(visit[t]) /\ overlap \in BOOLEAN
  BY Zenon DEF DbInv, DbTypeOK
<1>5. v \in Visit /\ v.op = c /\ v.db = visit[t].db
  BY <1>1, <1>2, <1>4, Zenon DEF Visit, VisitOps
<1>6. visit[t] # NoVisit
  <2>1. NoVisit.op = "none"
    BY Zenon DEF NoVisit
  <2>2. QED
    BY <1>3, <2>1, Zenon
<1>7. c # "none" /\ c # "delete"
  BY <1>1, Zenon
<1>8. VisitOK(v)
  BY <1>4, <1>5, <1>6, <1>7, Zenon DEF VisitOK
<1>9. ~overlap => visit[t].db \in Live
  BY <1>6, Zenon DEF DbInv, VisitsLive
<1>10. QED
  BY <1>3, <1>4, <1>5, <1>6, <1>8, <1>9, VisitKeeps, Zenon

(* The database after the one that a visit is at.                          *)
LEMMA NextVisit ==
  ASSUME DbInv, NEW t \in DbThreads, visit[t] # NoVisit, NEW o \in {"flush", "clear"}, MoveOn(t, o)
  PROVE  \E v \in Visit : /\ visit' = [visit EXCEPT ![t] = v]
                          /\ VisitOK(v) /\ v.op # "delete"
                          /\ ~overlap => v = NoVisit \/ (v.db \in Live /\ v.db # visit[t].db)
<1>1. PICK d : d = visit[t].db
  BY Zenon
<1>2. visit[t] \in Visit /\ VisitOK(visit[t]) /\ DbTypeOK
  BY Zenon DEF DbInv, DbTypeOK
<1>3. d \in DbThreads /\ dbNext[d] \in DbThreads \cup {NoDb}
  BY <1>1, <1>2, Zenon DEF VisitOK, DbTypeOK
<1>4. CASE dbNext[d] = NoDb
  <2>1. visit' = [visit EXCEPT ![t] = NoVisit]
    BY <1>1, <1>4, Zenon DEF MoveOn
  <2>2. NoVisit \in Visit /\ VisitOK(NoVisit) /\ NoVisit.op # "delete"
    BY Zenon DEF NoVisit, Visit, VisitOps, VisitOK
  <2>3. QED
    BY <2>1, <2>2, Zenon
<1>5. CASE dbNext[d] # NoDb
  <2>1. PICK v : v = [op |-> o, db |-> dbNext[d]]
    BY Zenon
  <2>2. visit' = [visit EXCEPT ![t] = v]
    BY <1>1, <1>5, <2>1, Zenon DEF MoveOn
  <2>3. v \in Visit /\ v.op = o /\ v.db = dbNext[d]
    BY <1>3, <2>1, Zenon DEF Visit, VisitOps
  <2>4. o # "none" /\ o # "delete"
    BY Zenon
  <2>5. VisitOK(v)
    BY <1>3, <1>5, <2>3, <2>4, Zenon DEF VisitOK
  <2>6. ASSUME ~overlap PROVE v.db \in Live /\ v.db # d
    <3>1. DbsOnList /\ d \in Live
      BY <1>1, <2>6, Zenon DEF DbInv, VisitsLive
    <3>2. dbNext[d] \in Live /\ dbNext[d] # d
      BY <1>5, <3>1, DbAssumption, ListPointers DEF DbsOnList
    <3>3. QED
      BY <2>3, <3>2, Zenon
  <2>7. QED
    BY <1>1, <2>2, <2>3, <2>4, <2>5, <2>6, Zenon
<1>6. QED
  BY <1>4, <1>5, Zenon

(* flush and clear with a database that they keep.                         *)
LEMMA WalkKeeps ==
  ASSUME DbInv, NEW t \in DbThreads, FlushDb(t) \/ ClearEntries(t)
  PROVE  DbInv'
<1>1. /\ visit[t].op \in {"flushing", "clearing"} /\ visit[t] \in Visit /\ VisitOK(visit[t])
      /\ UNCHANGED <<alive, linked, dbRetired, dbFreed, inside, dbNext, dbPrev, dbList, overlap>>
  <2>1. visit[t] \in Visit /\ VisitOK(visit[t])
    BY Zenon DEF DbInv, DbTypeOK
  <2>2. CASE FlushDb(t)
    BY <2>1, <2>2, Zenon DEF FlushDb
  <2>3. CASE ClearEntries(t)
    BY <2>1, <2>3, Zenon DEF ClearEntries
  <2>4. QED
    BY <2>2, <2>3, Zenon
<1>2. visit[t] # NoVisit
  <2>1. NoVisit.op = "none"
    BY Zenon DEF NoVisit
  <2>2. QED
    BY <1>1, <2>1, Zenon
<1>3. overlap \in BOOLEAN /\ (~overlap => visit[t].db \in Live)
  BY <1>2, Zenon DEF DbInv, DbTypeOK, VisitsLive
<1>4. ASSUME NEW o \in {"flush", "clear"}, MoveOn(t, o) PROVE DbInv'
  <2>1. PICK v \in Visit : /\ visit' = [visit EXCEPT ![t] = v] /\ VisitOK(v)
                           /\ ~overlap => v = NoVisit \/ v.db \in Live
    BY <1>2, <1>4, NextVisit, Zenon
  <2>2. QED
    BY <1>1, <1>2, <1>3, <2>1, VisitKeeps, Zenon
<1>5. ASSUME visit' = [visit EXCEPT ![t].op = "delete"], visit[t].db \in dbRetired PROVE DbInv'
  <2>1. PICK v : v = [visit[t] EXCEPT !.op = "delete"]
    BY Zenon
  <2>2. v \in Visit /\ v.op = "delete" /\ v.db = visit[t].db
    BY <1>1, <2>1, Zenon DEF Visit, VisitOps
  <2>3. VisitOK(v)
    BY <1>1, <1>2, <1>5, <2>2, Zenon DEF VisitOK
  <2>4. visit' = [visit EXCEPT ![t] = v]
    BY <1>5, <2>1, Zenon
  <2>5. QED
    BY <1>1, <1>2, <1>3, <2>2, <2>3, <2>4, VisitKeeps, Zenon
<1>6. QED
  BY <1>4, <1>5, Zenon DEF FlushDb, ClearEntries

(* clear deletes a retired database: the others stay on the list, and the  *)
(* visit goes on at one of them.                                           *)
LEMMA DeleteKeeps ==
  ASSUME DbInv, NEW t \in DbThreads, DeleteDb(t)
  PROVE  DbInv'
<1>1. PICK d : d = visit[t].db
  BY Zenon
<1>2. /\ visit[t].op = "delete" /\ dbFreed' = dbFreed \cup {d} /\ MoveOn(t, "clear")
      /\ dbPrev' = IF dbNext[d] = NoDb THEN dbPrev ELSE [dbPrev EXCEPT ![dbNext[d]] = dbPrev[d]]
      /\ dbNext' = IF dbPrev[d] = NoDb THEN dbNext ELSE [dbNext EXCEPT ![dbPrev[d]] = dbNext[d]]
      /\ dbList' = IF d = dbList THEN dbNext[d] ELSE dbList
      /\ UNCHANGED <<alive, linked, dbRetired, inside, overlap>>
  BY <1>1, Zenon DEF DeleteDb, UnlinkDb
<1>3. visit[t] # NoVisit
  <2>1. NoVisit.op = "none"
    BY Zenon DEF NoVisit
  <2>2. QED
    BY <1>2, <2>1, Zenon
<1>4. DbTypeOK /\ DbStates /\ d \in DbThreads /\ d \in dbRetired
  BY <1>1, <1>2, <1>3, Zenon DEF DbInv, VisitOK
<1>5. PICK v \in Visit : /\ visit' = [visit EXCEPT ![t] = v] /\ VisitOK(v)
                         /\ ~overlap => v = NoVisit \/ (v.db \in Live /\ v.db # d)
  BY <1>1, <1>2, <1>3, NextVisit, Zenon
<1>6. visit'[t] = v /\ \A u \in DbThreads : u # t => visit'[u] = visit[u]
  BY <1>4, <1>5, Zenon DEF DbTypeOK
<1>7. DbTypeOK'
  <2>0. dbNext[d] \in DbThreads \cup {NoDb} /\ dbPrev[d] \in DbThreads \cup {NoDb}
    BY <1>4, Zenon DEF DbTypeOK
  <2>1. dbNext' \in [DbThreads -> DbThreads \cup {NoDb}]
    BY <1>2, <1>4, <2>0, Zenon DEF DbTypeOK
  <2>2. dbPrev' \in [DbThreads -> DbThreads \cup {NoDb}]
    BY <1>2, <1>4, <2>0, Zenon DEF DbTypeOK
  <2>3. dbList' \in DbThreads \cup {NoDb}
    BY <1>2, <1>4, <2>0, Zenon DEF DbTypeOK
  <2>4. visit' \in [DbThreads -> Visit]
    BY <1>4, <1>5, Zenon DEF DbTypeOK
  <2>5. QED
    BY <1>2, <1>4, <2>1, <2>2, <2>3, <2>4, Zenon DEF DbTypeOK
<1>8. DbStates'
  BY <1>2, <1>4, Zenon DEF DbStates
<1>9. ASSUME NEW u \in DbThreads PROVE VisitOK(visit[u])'
  <2>1. VisitOK(visit[u]) /\ VisitOK(v) /\ dbRetired' = dbRetired
    BY <1>2, <1>5, Zenon DEF DbInv
  <2>2. visit'[u] = v \/ visit'[u] = visit[u]
    BY <1>6, Zenon
  <2>3. QED
    BY <2>1, <2>2, Zenon DEF VisitOK
<1>10. ASSUME ~overlap PROVE OneVisitor' /\ VisitsLive' /\ NewUnlinked' /\ DbsOnList'
  <2>1. OneVisitor /\ VisitsLive /\ NewUnlinked /\ DbsOnList
    BY <1>10, Zenon DEF DbInv
  <2>2. d \in Live /\ Live' = Live \ {d}
    BY <1>1, <1>2, <1>3, <2>1, Zenon DEF VisitsLive, Live
  <2>3. \A u \in DbThreads : u # t => visit'[u] = NoVisit
    BY <1>3, <1>6, <2>1, Zenon DEF OneVisitor
  <2>4. OneVisitor'
    BY <2>3, Zenon DEF OneVisitor
  <2>5. VisitsLive'
    <3>1. v = NoVisit \/ v.db \in Live'
      BY <1>5, <1>10, <2>2, Zenon
    <3>2. ASSUME NEW u \in DbThreads, visit'[u] # NoVisit PROVE visit'[u].db \in Live'
      <4>1. u = t
        BY <2>3, <3>2, Zenon
      <4>2. QED
        BY <1>6, <3>1, <3>2, <4>1, Zenon
    <3>3. QED
      BY <3>2, Zenon DEF VisitsLive
  <2>6. dbNext[d] # NoDb => dbNext[d] \in Live
    BY <2>1, <2>2, DbAssumption, ListPointers DEF DbsOnList
  <2>7. NewUnlinked'
    <3> SUFFICES ASSUME NEW u \in DbThreads, u \notin linked' PROVE dbPrev'[u] = NoDb
      BY Zenon DEF NewUnlinked
    <3>1. u \notin linked /\ dbPrev[u] = NoDb
      BY <1>2, <2>1, Zenon DEF NewUnlinked
    <3>2. dbNext[d] = NoDb \/ u # dbNext[d]
      BY <2>6, <3>1, Zenon DEF Live
    <3>3. QED
      BY <1>2, <1>4, <3>1, <3>2, Zenon DEF DbTypeOK
  <2>8. DbsOnList'
    <3>1. OnList(DbThreads, NoDb, Live \ {d}, dbList', dbNext', dbPrev')
      <4> PICK L, f, n1, p1, f2, n2, p2 :
             /\ L = Live /\ f = dbList /\ n1 = dbNext /\ p1 = dbPrev
             /\ f2 = dbList' /\ n2 = dbNext' /\ p2 = dbPrev'
        BY Zenon
      <4>1. /\ OnList(DbThreads, NoDb, L, f, n1, p1) /\ d \in L
            /\ Pointers(DbThreads, NoDb, n1, p1) /\ Unlinked(NoDb, f, n1, p1, d, f2, n2, p2)
        BY <1>2, <1>4, <2>1, <2>2, Zenon DEF DbTypeOK, DbsOnList, Pointers, Unlinked
      <4>2. OnList(DbThreads, NoDb, L \ {d}, f2, n2, p2)
        BY <4>1, DbAssumption, ListUnlink, Zenon
      <4>3. QED
        BY <4>2, Zenon
    <3>2. QED
      BY <2>2, <3>1, Zenon DEF DbsOnList
  <2>9. QED
    BY <2>4, <2>5, <2>7, <2>8, Zenon
<1>11. QED
  BY <1>2, <1>7, <1>8, <1>9, <1>10, Zenon DEF DbInv

LEMMA DbInductive == DbInv /\ [AtNext]_atVars => DbInv'
<1> SUFFICES ASSUME DbInv, [AtNext]_atVars PROVE DbInv'
  BY Zenon
<1>1. ASSUME NEW t \in DbThreads, AcquireDb(t) PROVE DbInv'
  BY <1>1, AcquireKeeps, Zenon
<1>2. ASSUME NEW t \in DbThreads, TestStopped(t) \/ CountSnapshot(t) \/ RetireDb(t) PROVE DbInv'
  BY <1>2, UseKeeps, Zenon
<1>3. ASSUME NEW t \in DbThreads, StartVisit(t, "flush") \/ StartVisit(t, "clear") PROVE DbInv'
  <2>1. "flush" \in {"flush", "clear"} /\ "clear" \in {"flush", "clear"}
    BY Zenon
  <2>2. QED
    BY <1>3, <2>1, StartVisitKeeps, Zenon
<1>4. ASSUME NEW t \in DbThreads, StopDb(t) PROVE DbInv'
  BY <1>4, StopKeeps, Zenon
<1>5. ASSUME NEW t \in DbThreads, FlushDb(t) \/ ClearEntries(t) PROVE DbInv'
  BY <1>5, WalkKeeps, Zenon
<1>6. ASSUME NEW t \in DbThreads, DeleteDb(t) PROVE DbInv'
  BY <1>6, DeleteKeeps, Zenon
<1>7. CASE UNCHANGED atVars
  BY <1>7, Zenon DEF atVars, DbInv, DbTypeOK, DbStates, VisitOK, OneVisitor, VisitsLive,
     NewUnlinked, DbsOnList, Live
<1>8. CASE AtNext
  BY <1>1, <1>2, <1>3, <1>4, <1>5, <1>6, <1>8, Zenon DEF AtNext
<1>9. QED
  BY <1>7, <1>8, Zenon

(* While flush and clear do not overlap, s_list leads to exactly the       *)
(* databases that are not deleted, no thread counts into a deleted one and *)
(* no flush or clear stands on one (Aggregate.cpp acquire, retire,         *)
(* flush_cb, clear_cb), for any number of threads and of calls.            *)
THEOREM DatabasesAlwaysLive == AtSpec => []DatabasesLive
<1>1. DbInv => DatabasesLive
  <2> SUFFICES ASSUME DbInv, ~overlap
               PROVE  /\ ListFrom = linked \ dbFreed /\ inside \cap dbFreed = {}
                      /\ \A t \in DbThreads : visit[t].db \notin dbFreed
    BY Zenon DEF DatabasesLive, ListIsLive, DeletedUnused
  <2>1. DbTypeOK /\ DbStates /\ VisitsLive /\ DbsOnList
    BY Zenon DEF DbInv
  <2>2. ListFrom = linked \ dbFreed
    BY <2>1, DbAssumption, ListReaches DEF ListFrom, DbClosed, DbsOnList, Live
  <2>3. inside \cap dbFreed = {}
    BY <2>1, Zenon DEF DbStates
  <2>4. ASSUME NEW t \in DbThreads PROVE visit[t].db \notin dbFreed
    <3>1. CASE visit[t] = NoVisit
      <4>1. NoVisit.db = NoDb
        BY Zenon DEF NoVisit
      <4>2. dbFreed \subseteq DbThreads
        BY <2>1, Zenon DEF DbTypeOK, DbStates
      <4>3. QED
        BY <3>1, <4>1, <4>2, DbAssumption, Zenon
    <3>2. CASE visit[t] # NoVisit
      BY <2>1, <3>2, Zenon DEF VisitsLive, Live
    <3>3. QED
      BY <3>1, <3>2, Zenon
  <2>5. QED
    BY <2>2, <2>3, <2>4, Zenon
<1>2. QED
  BY <1>1, DbInitially, DbInductive, PTL DEF AtSpec

-----------------------------------------------------------------------------
(* The trace buffers.                                                      *)

Places == {"idle", "ended", "fits", "save", "count", "flush", "fl_buffer", "fl_record",
           "clear", "cl_buffer", "cl_unlink"}

Locked == {"fl_buffer", "fl_record", "cl_buffer", "cl_unlink"}

Locals == [rec : Nat, buf : Tracers \cup {NoBuf}, chunk : Nat, r : Nat, back : {"idle", "save"}]

ChunkRec == [pos : Nat, recs : Seq(Nat), nrec : Nat]

(* A thread that is in the list holds the lock, and stands on a buffer     *)
(* while it flushes or deletes one.                                        *)
WalkOK(t) ==
  /\ where[t] \in {"fl_record", "cl_unlink"} => loc[t].buf # NoBuf
  /\ where[t] \in Locked => flushLock = t
  /\ policy # "flush" => loc[t].back = "idle"

WalksOK ==
  /\ where \in [Tracers -> Places] /\ loc \in [Tracers -> Locals]
  /\ \A t \in Tracers : WalkOK(t)

(* A record is saved where it fits.                                        *)
Saving == \A t \in Tracers : where[t] = "save" => Fits(t)

ChunksOK ==
  /\ chunks \in [Tracers -> Seq(ChunkRec)] /\ taken \in Nat
  /\ \A t \in Tracers : chunks[t] # <<>>
  /\ policy # "flush" => InChunk /\ Saving

(* A step of thread t to the place l with the local variables x.           *)
Walks(t, l, x) ==
  /\ where' = [where EXCEPT ![t] = l] /\ loc' = [loc EXCEPT ![t] = x]
  /\ l \in {"fl_record", "cl_unlink"} => x.buf # NoBuf
  /\ l \in Locked => flushLock' = t
  /\ \A u \in Tracers : u # t /\ flushLock = u => flushLock' = u
  /\ policy # "flush" => x.back = "idle"
  /\ policy' = policy

LEMMA WalksKeep ==
  ASSUME WalksOK, NEW t \in Tracers, NEW l \in Places, NEW x \in Locals, Walks(t, l, x)
  PROVE  WalksOK'
<1>1. where' = [where EXCEPT ![t] = l] /\ loc' = [loc EXCEPT ![t] = x]
  BY Zenon DEF Walks
<1>2. where' \in [Tracers -> Places] /\ loc' \in [Tracers -> Locals]
  BY <1>1, Zenon DEF WalksOK
<1>3. where'[t] = l /\ loc'[t] = x
  BY <1>1, Zenon DEF WalksOK
<1>4. WalkOK(t)'
  BY <1>3, Zenon DEF Walks, WalkOK
<1>5. ASSUME NEW u \in Tracers, u # t PROVE WalkOK(u)'
  <2>1. where'[u] = where[u] /\ loc'[u] = loc[u]
    BY <1>1, <1>5, Zenon DEF WalksOK
  <2>2. WalkOK(u)
    BY Zenon DEF WalksOK
  <2>3. QED
    BY <1>5, <2>1, <2>2, Zenon DEF WalkOK, Walks
<1>6. QED
  BY <1>2, <1>4, <1>5, Zenon DEF WalksOK

(* A thread that stays where it is.                                        *)
LEMMA WalksStay ==
  ASSUME WalksOK, NEW t \in Tracers, where' = where, loc' = loc, policy' = policy, flushLock' = flushLock
  PROVE  Walks(t, where[t], loc[t]) /\ where[t] \in Places /\ loc[t] \in Locals
<1>1. where' = [where EXCEPT ![t] = where[t]] /\ loc' = [loc EXCEPT ![t] = loc[t]]
  BY Zenon DEF WalksOK
<1>2. WalkOK(t) /\ where[t] \in Places /\ loc[t] \in Locals
  BY Zenon DEF WalksOK
<1>3. QED
  BY <1>1, <1>2, Zenon DEF WalkOK, Walks

LEMMA NoLocTyped == NoLoc \in Locals /\ NoLoc.back = "idle" /\ NoLoc.buf = NoBuf
BY DEF NoLoc, Locals

(* The program's calls, and the snapshot up to the check of the space.     *)
LEMMA ProgramWalks ==
  ASSUME WalksOK, ChunksOK, NEW t \in Tracers, TrProgram(t)
  PROVE  \E l \in Places \ (Locked \cup {"save"}) : \E x \in Locals : Walks(t, l, x)
<1>w. WalkOK(t) /\ where[t] \in Places /\ loc[t] \in Locals
  BY Zenon DEF WalksOK
<1>1. ASSUME where[t] = "idle", where' = where, loc' = loc, policy' = policy, flushLock' = flushLock
      PROVE  \E l \in Places \ (Locked \cup {"save"}) : \E x \in Locals : Walks(t, l, x)
  BY <1>1, WalksStay, Zenon DEF Locked
<1>2. ASSUME NEW l \in {"ended", "flush", "clear"}, where' = [where EXCEPT ![t] = l], loc' = loc,
             policy' = policy, flushLock' = flushLock
      PROVE  \E m \in Places \ (Locked \cup {"save"}) : \E x \in Locals : Walks(t, m, x)
  <2>1. l \in Places /\ l \notin Locked /\ l # "save" /\ l # "fl_record" /\ l # "cl_unlink"
    BY Zenon DEF Places, Locked
  <2>2. loc' = [loc EXCEPT ![t] = loc[t]]
    BY <1>2, Zenon DEF WalksOK
  <2>3. Walks(t, l, loc[t])
    BY <1>w, <1>2, <2>1, <2>2, Zenon DEF Walks, WalkOK
  <2>4. QED
    BY <1>w, <2>1, <2>3, Zenon
<1>3. CASE Register(t)
  BY <1>1, <1>3, Zenon DEF Register
<1>4. CASE Retire(t)
  <2>1. /\ where' = [where EXCEPT ![t] = "ended"] /\ loc' = loc
        /\ policy' = policy /\ flushLock' = flushLock
    BY <1>4, Zenon DEF Retire, TrMove, TrGoto
  <2>2. QED
    BY <1>2, <2>1, Zenon
<1>5. CASE CallFlush(t)
  <2>1. /\ where' = [where EXCEPT ![t] = "flush"] /\ loc' = loc
        /\ policy' = policy /\ flushLock' = flushLock
    BY <1>5, Zenon DEF CallFlush, TrMove, TrGoto, shared
  <2>2. QED
    BY <1>2, <2>1, Zenon
<1>6. CASE CallClear(t)
  <2>1. /\ where' = [where EXCEPT ![t] = "clear"] /\ loc' = loc
        /\ policy' = policy /\ flushLock' = flushLock
    BY <1>6, Zenon DEF CallClear, TrMove, TrGoto, shared
  <2>2. QED
    BY <1>2, <2>1, Zenon
<1>7. CASE TakeSnapshot(t)
  <2>1. policy' = policy /\ flushLock' = flushLock /\ where[t] = "idle"
    BY <1>7, Zenon DEF TakeSnapshot, shared
  <2>2. CASE t \in stopped
    BY <1>1, <1>7, <2>1, <2>2, Zenon DEF TakeSnapshot
  <2>3. CASE t \notin stopped
    <3>1. PICK x : x = [NoLoc EXCEPT !.rec = taken + 1]
      BY Zenon
    <3>2. x \in Locals /\ x.back = "idle"
      <4>1. taken + 1 \in Nat
        BY DEF ChunksOK
      <4>2. QED
        BY <3>1, <4>1, NoLocTyped, Zenon DEF Locals
    <3>3. where' = [where EXCEPT ![t] = "fits"] /\ loc' = [loc EXCEPT ![t] = x]
      BY <1>7, <2>3, <3>1, Zenon DEF TakeSnapshot, TrGoto
    <3>4. "fits" \in Places /\ "fits" \notin Locked
      BY Zenon DEF Places, Locked
    <3>5. Walks(t, "fits", x)
      BY <2>1, <3>2, <3>3, <3>4, Zenon DEF Walks
    <3>6. QED
      BY <3>2, <3>4, <3>5, Zenon
  <2>4. QED
    BY <2>2, <2>3, Zenon
<1>8. QED
  BY <1>3, <1>4, <1>5, <1>6, <1>7, Zenon DEF TrProgram

(* The end of a snapshot: the check of the space and the two parts of the  *)
(* save.                                                                   *)
LEMMA RecordWalks ==
  ASSUME WalksOK, NEW t \in Tracers, CheckFit(t) \/ SaveData(t) \/ SaveCount(t)
  PROVE  \E l \in {"idle", "save", "count", "flush"} : \E x \in Locals : Walks(t, l, x)
<1>w. WalkOK(t) /\ loc[t] \in Locals
  BY Zenon DEF WalksOK
<1>s. policy' = policy /\ flushLock' = flushLock
  <2>1. CASE CheckFit(t)
    BY <2>1, Zenon DEF CheckFit, shared
  <2>2. CASE SaveData(t)
    BY <2>2, Zenon DEF SaveData, shared
  <2>3. CASE SaveCount(t)
    BY <2>3, Zenon DEF SaveCount, shared
  <2>4. QED
    BY <2>1, <2>2, <2>3, Zenon
<1>1. ASSUME NEW l \in {"idle", "save", "count", "flush"}, where' = [where EXCEPT ![t] = l],
             NEW x \in Locals, loc' = [loc EXCEPT ![t] = x], policy # "flush" => x.back = "idle"
      PROVE  \E m \in {"idle", "save", "count", "flush"} : \E y \in Locals : Walks(t, m, y)
  <2>1. l \notin Locked /\ l # "fl_record" /\ l # "cl_unlink"
    BY Zenon DEF Locked
  <2>2. Walks(t, l, x)
    BY <1>s, <1>1, <2>1, Zenon DEF Walks
  <2>3. QED
    BY <2>2, Zenon
<1>2. ASSUME NEW l \in {"idle", "save", "count", "flush"}, where' = [where EXCEPT ![t] = l], loc' = loc
      PROVE  \E m \in {"idle", "save", "count", "flush"} : \E y \in Locals : Walks(t, m, y)
  <2>1. loc' = [loc EXCEPT ![t] = loc[t]]
    BY <1>2, Zenon DEF WalksOK
  <2>2. policy # "flush" => loc[t].back = "idle"
    BY <1>w, Zenon DEF WalkOK
  <2>3. QED
    BY <1>w, <1>1, <1>2, <2>1, <2>2, Zenon
<1>3. CASE SaveData(t)
  <2>1. where' = [where EXCEPT ![t] = "count"] /\ loc' = loc
    BY <1>3, Zenon DEF SaveData, TrMove, TrGoto
  <2>2. QED
    BY <1>2, <2>1, Zenon
<1>4. CASE SaveCount(t)
  <2>1. where' = [where EXCEPT ![t] = "idle"] /\ loc' = [loc EXCEPT ![t] = NoLoc]
    BY <1>4, Zenon DEF SaveCount, TrMove, TrGoto
  <2>2. QED
    BY <1>1, <2>1, NoLocTyped, Zenon
<1>5. CASE CheckFit(t)
  <2>1. CASE where' = [where EXCEPT ![t] = "save"] /\ loc' = loc
    BY <1>2, <2>1, Zenon
  <2>2. CASE where' = [where EXCEPT ![t] = "idle"] /\ loc' = [loc EXCEPT ![t] = NoLoc]
    BY <1>1, <2>2, NoLocTyped, Zenon
  <2>3. CASE /\ where' = [where EXCEPT ![t] = "flush"] /\ policy = "flush"
             /\ loc' = [loc EXCEPT ![t].back = "save"]
    <3>1. PICK x : x = [loc[t] EXCEPT !.back = "save"]
      BY Zenon
    <3>2. x \in Locals
      BY <1>w, <3>1, Zenon DEF Locals
    <3>3. loc' = [loc EXCEPT ![t] = x]
      BY <2>3, <3>1, Zenon
    <3>4. QED
      BY <1>1, <2>3, <3>2, <3>3, Zenon
  <2>4. QED
    BY <1>5, <2>1, <2>2, <2>3, Zenon DEF CheckFit, TrGoto
<1>6. QED
  BY <1>3, <1>4, <1>5, Zenon

(* A flush goes over the list under the lock.                              *)
LEMMA FlushWalks ==
  ASSUME WalksOK, ChunksOK, NEW t \in Tracers,
         listHead \in Tracers \cup {NoBuf}, tNext \in [Tracers -> Tracers \cup {NoBuf}],
         FlushStart(t) \/ FlushBuffer(t) \/ FlushRecord(t)
  PROVE  \E l \in {"idle", "save", "fl_buffer", "fl_record"} : \E x \in Locals :
            Walks(t, l, x) /\ (l = "save" => policy = "flush")
<1>w. WalkOK(t) /\ loc[t] \in Locals
  BY Zenon DEF WalksOK
<1>b. loc[t].buf \in Tracers \cup {NoBuf} /\ loc[t].back \in {"idle", "save"}
  BY <1>w, Zenon DEF Locals
<1>k. policy # "flush" => loc[t].back = "idle"
  BY <1>w, Zenon DEF WalkOK
<1>1. CASE FlushStart(t)
  <2>1. /\ flushLock' = t /\ flushLock = NoBuf /\ loc' = [loc EXCEPT ![t].buf = listHead]
        /\ where' = [where EXCEPT ![t] = "fl_buffer"] /\ policy' = policy
    BY <1>1, Zenon DEF FlushStart, TrGoto, shared
  <2>2. PICK x : x = [loc[t] EXCEPT !.buf = listHead]
    BY Zenon
  <2>3. x \in Locals /\ x.back = loc[t].back
    BY <1>w, <2>2, Zenon DEF Locals
  <2>4. loc' = [loc EXCEPT ![t] = x]
    BY <2>1, <2>2, Zenon
  <2>5. \A u \in Tracers : u # t /\ flushLock = u => flushLock' = u
    BY <2>1, TraceNames, Zenon
  <2>6. Walks(t, "fl_buffer", x)
    BY <1>k, <2>1, <2>3, <2>4, <2>5, Zenon DEF Walks
  <2>7. QED
    BY <2>3, <2>6, Zenon
<1>2. CASE FlushBuffer(t)
  <2>1. where[t] = "fl_buffer" /\ policy' = policy
    BY <1>2, Zenon DEF FlushBuffer, shared
  <2>2. flushLock = t
    BY <1>w, <2>1, Zenon DEF WalkOK, Locked
  <2>3. CASE loc[t].buf = NoBuf
    <3>1. PICK x : x = IF loc[t].back = "idle" THEN NoLoc ELSE loc[t]
      BY Zenon
    <3>2. PICK l : l = loc[t].back
      BY Zenon
    <3>3. where' = [where EXCEPT ![t] = l] /\ loc' = [loc EXCEPT ![t] = x]
      BY <1>2, <2>3, <3>1, <3>2, Zenon DEF FlushBuffer, TrGoto
    <3>4. x \in Locals /\ (policy # "flush" => x.back = "idle" /\ l # "save")
      BY <1>w, <1>k, <3>1, <3>2, NoLocTyped, Zenon
    <3>5. l \in {"idle", "save"} /\ l \notin Locked /\ l # "fl_record" /\ l # "cl_unlink"
      BY <1>b, <3>2, Zenon DEF Locked
    <3>6. \A u \in Tracers : u # t /\ flushLock = u => flushLock' = u
      BY <2>2, Zenon
    <3>7. Walks(t, l, x)
      BY <2>1, <3>3, <3>4, <3>5, <3>6, Zenon DEF Walks
    <3>8. QED
      BY <3>4, <3>5, <3>7, Zenon
  <2>4. CASE loc[t].buf # NoBuf
    <3>1. PICK h : h = HeadChunk(loc[t].buf)
      BY Zenon
    <3>2. PICK x : x = [[loc[t] EXCEPT !.chunk = h] EXCEPT !.r = 1]
      BY Zenon
    <3>3. where' = [where EXCEPT ![t] = "fl_record"] /\ flushLock' = flushLock
      BY <1>2, <2>4, Zenon DEF FlushBuffer, TrGoto
    <3>4. loc' = [loc EXCEPT ![t].chunk = h, ![t].r = 1]
      BY <1>2, <2>4, <3>1, Zenon DEF FlushBuffer
    <3>5. loc' = [loc EXCEPT ![t] = x]
      BY <3>2, <3>4, Zenon DEF WalksOK
    <3>6. h \in Nat
      <4>1. chunks[loc[t].buf] \in Seq(ChunkRec)
        BY <1>b, <2>4, Zenon DEF ChunksOK
      <4>2. QED
        BY <3>1, <4>1 DEF HeadChunk
    <3>7. x \in Locals /\ x.back = loc[t].back /\ x.buf = loc[t].buf
      BY <1>w, <3>2, <3>6, Zenon DEF Locals
    <3>8. Walks(t, "fl_record", x)
      BY <1>k, <2>1, <2>2, <2>4, <3>3, <3>5, <3>7, Zenon DEF Walks
    <3>9. QED
      BY <3>7, <3>8, Zenon
  <2>5. QED
    BY <2>3, <2>4, Zenon
<1>3. CASE FlushRecord(t)
  <2>1. where[t] = "fl_record" /\ policy' = policy /\ flushLock' = flushLock
    BY <1>3, Zenon DEF FlushRecord, shared
  <2>2. flushLock = t /\ loc[t].buf \in Tracers
    BY <1>w, <1>b, <2>1, Zenon DEF WalkOK, Locked
  <2>3. ASSUME NEW x \in Locals, loc' = [loc EXCEPT ![t] = x], where' = where,
               x.back = loc[t].back, x.buf = loc[t].buf
        PROVE  Walks(t, "fl_record", x)
    <3>1. where' = [where EXCEPT ![t] = "fl_record"]
      BY <2>1, <2>3, Zenon DEF WalksOK
    <3>2. QED
      BY <1>k, <2>1, <2>2, <2>3, <3>1, TraceNames, Zenon DEF Walks
  <2>4. CASE loc' = [loc EXCEPT ![t].r = loc[t].r + 1] /\ where' = where
    <3>1. PICK x : x = [loc[t] EXCEPT !.r = loc[t].r + 1]
      BY Zenon
    <3>2. x \in Locals /\ x.back = loc[t].back /\ x.buf = loc[t].buf
      BY <1>w, <3>1 DEF Locals
    <3>3. QED
      BY <2>3, <2>4, <3>1, <3>2, Zenon
  <2>5. CASE /\ loc' = [loc EXCEPT ![t].chunk = loc[t].chunk - 1, ![t].r = 1]
             /\ loc[t].chunk > 1 /\ where' = where
    <3>0. PICK c \in Nat : c = loc[t].chunk - 1
      BY <1>w, <2>5 DEF Locals
    <3>1. PICK x : x = [[loc[t] EXCEPT !.chunk = c] EXCEPT !.r = 1]
      BY Zenon
    <3>2. x \in Locals /\ x.back = loc[t].back /\ x.buf = loc[t].buf
      BY ONLY <1>w, <3>1, Zenon DEF Locals
    <3>3. loc' = [loc EXCEPT ![t] = x]
      BY <2>5, <3>0, <3>1, Zenon DEF WalksOK
    <3>4. QED
      BY <2>3, <2>5, <3>2, <3>3, Zenon
  <2>6. CASE loc' = [loc EXCEPT ![t].buf = tNext[loc[t].buf]] /\ where' = [where EXCEPT ![t] = "fl_buffer"]
    <3>1. PICK x : x = [loc[t] EXCEPT !.buf = tNext[loc[t].buf]]
      BY Zenon
    <3>2. x \in Locals /\ x.back = loc[t].back
      BY <1>w, <2>2, <3>1, Zenon DEF Locals
    <3>3. loc' = [loc EXCEPT ![t] = x]
      BY <2>6, <3>1, Zenon
    <3>4. Walks(t, "fl_buffer", x)
      BY <1>k, <2>1, <2>2, <2>6, <3>2, <3>3, Zenon DEF Walks
    <3>5. QED
      BY <3>2, <3>4, Zenon
  <2>7. QED
    BY <1>3, <2>4, <2>5, <2>6, Zenon DEF FlushRecord, TrGoto
<1>4. QED
  BY <1>1, <1>2, <1>3, Zenon

(* A clear goes over the list under the lock, from the head to the next    *)
(* buffer each time.                                                       *)
LEMMA ClearWalks ==
  ASSUME WalksOK, NEW t \in Tracers,
         listHead \in Tracers \cup {NoBuf}, tNext \in [Tracers -> Tracers \cup {NoBuf}],
         ClearStart(t) \/ ClearReset(t) \/ ClearUnlink(t)
  PROVE  \E l \in {"idle", "cl_buffer", "cl_unlink"} : \E x \in Locals :
            /\ Walks(t, l, x)
            /\ ClearStart(t) => x.buf = listHead
            /\ ClearReset(t) => l = "idle" \/ (x.buf = loc[t].buf /\ where[t] = "cl_buffer")
            /\ ClearUnlink(t) => x.buf = tNext[loc[t].buf]
<1>w. WalkOK(t) /\ loc[t] \in Locals
  BY Zenon DEF WalksOK
<1>b. loc[t].buf \in Tracers \cup {NoBuf}
  BY <1>w, Zenon DEF Locals
<1>k. policy # "flush" => loc[t].back = "idle"
  BY <1>w, Zenon DEF WalkOK
<1>p. policy' = policy
  <2>1. CASE ClearStart(t)
    BY <2>1, Zenon DEF ClearStart, shared
  <2>2. CASE ClearReset(t)
    BY <2>2, Zenon DEF ClearReset, shared
  <2>3. CASE ClearUnlink(t)
    BY <2>3, Zenon DEF ClearUnlink
  <2>4. QED
    BY <2>1, <2>2, <2>3, Zenon
<1>a. /\ ClearStart(t) => where[t] = "clear"
      /\ ClearReset(t) => where[t] = "cl_buffer"
      /\ ClearUnlink(t) => where[t] = "cl_unlink"
  BY Zenon DEF ClearStart, ClearReset, ClearUnlink, TrMove
<1>1. CASE ClearStart(t)
  <2>1. /\ flushLock' = t /\ flushLock = NoBuf /\ loc' = [loc EXCEPT ![t].buf = listHead]
        /\ where' = [where EXCEPT ![t] = "cl_buffer"]
    BY <1>1, Zenon DEF ClearStart, TrGoto
  <2>2. PICK x : x = [loc[t] EXCEPT !.buf = listHead]
    BY Zenon
  <2>3. x \in Locals /\ x.back = loc[t].back /\ x.buf = listHead
    BY <1>w, <2>2, Zenon DEF Locals
  <2>4. loc' = [loc EXCEPT ![t] = x]
    BY <2>1, <2>2, Zenon
  <2>5. \A u \in Tracers : u # t /\ flushLock = u => flushLock' = u
    BY <2>1, TraceNames, Zenon
  <2>6. Walks(t, "cl_buffer", x)
    BY <1>k, <1>p, <2>1, <2>3, <2>4, <2>5, Zenon DEF Walks
  <2>7. ~ClearReset(t) /\ ~ClearUnlink(t)
    BY <1>1, <1>a, Zenon
  <2>8. QED
    BY <2>3, <2>6, <2>7, Zenon
<1>2. CASE ClearReset(t)
  <2>1. where[t] = "cl_buffer" /\ flushLock = t
    BY <1>2, <1>a, <1>w, Zenon DEF WalkOK, Locked
  <2>2. \A u \in Tracers : u # t /\ flushLock = u => flushLock' = u
    BY <2>1, Zenon
  <2>3. ~ClearStart(t) /\ ~ClearUnlink(t)
    BY <1>2, <1>a, Zenon
  <2>4. CASE loc[t].buf = NoBuf
    <3>1. where' = [where EXCEPT ![t] = "idle"] /\ loc' = [loc EXCEPT ![t] = NoLoc]
      BY <1>2, <2>4, Zenon DEF ClearReset, TrGoto
    <3>2. Walks(t, "idle", NoLoc)
      BY <1>p, <2>2, <3>1, NoLocTyped, Zenon DEF Walks, Locked
    <3>3. QED
      BY <2>3, <3>2, NoLocTyped, Zenon
  <2>5. CASE loc[t].buf # NoBuf
    <3>1. where' = [where EXCEPT ![t] = "cl_unlink"] /\ loc' = loc /\ flushLock' = flushLock
      BY <1>2, <2>5, Zenon DEF ClearReset, TrGoto
    <3>2. loc' = [loc EXCEPT ![t] = loc[t]]
      BY <3>1, Zenon DEF WalksOK
    <3>3. Walks(t, "cl_unlink", loc[t])
      BY <1>k, <1>p, <2>1, <2>2, <2>5, <3>1, <3>2, Zenon DEF Walks
    <3>4. QED
      BY <1>w, <2>1, <2>3, <3>3, Zenon
  <2>6. QED
    BY <2>4, <2>5, Zenon
<1>3. CASE ClearUnlink(t)
  <2>1. where[t] = "cl_unlink" /\ flushLock = t /\ loc[t].buf # NoBuf
    BY <1>3, <1>a, <1>w, Zenon DEF WalkOK, Locked
  <2>2. /\ where' = [where EXCEPT ![t] = "cl_buffer"] /\ flushLock' = flushLock
        /\ loc' = [loc EXCEPT ![t].buf = tNext[loc[t].buf]]
    BY <1>3, Zenon DEF ClearUnlink, TrMove, TrGoto
  <2>3. PICK x : x = [loc[t] EXCEPT !.buf = tNext[loc[t].buf]]
    BY Zenon
  <2>4. tNext[loc[t].buf] \in Tracers \cup {NoBuf}
    BY <1>b, <2>1, Zenon
  <2>5. x \in Locals /\ x.back = loc[t].back /\ x.buf = tNext[loc[t].buf]
    BY <1>w, <2>3, <2>4, Zenon DEF Locals
  <2>6. loc' = [loc EXCEPT ![t] = x]
    BY <2>2, <2>3, Zenon
  <2>7. Walks(t, "cl_buffer", x)
    BY <1>k, <1>p, <2>1, <2>2, <2>5, <2>6, Zenon DEF Walks
  <2>8. ~ClearStart(t) /\ ~ClearReset(t)
    BY <1>3, <1>a, Zenon
  <2>9. QED
    BY <2>5, <2>7, <2>8, Zenon
<1>4. QED
  BY <1>1, <1>2, <1>3, Zenon

(* The chunks of the buffers.  A step that leaves them alone, and does not *)
(* come to the save.                                                       *)
LEMMA ChunksQuiet ==
  ASSUME WalksOK, ChunksOK, NEW t \in Tracers, NEW l, NEW x, Walks(t, l, x),
         chunks' = chunks, taken' \in Nat, l = "save" => policy = "flush" \/ Fits(t)
  PROVE  ChunksOK'
<1>1. policy' = policy /\ where'[t] = l /\ \A u \in Tracers : u # t => where'[u] = where[u]
  BY Zenon DEF Walks, WalksOK
<1>2. ASSUME policy # "flush" PROVE InChunk' /\ Saving'
  <2>1. InChunk /\ Saving
    BY <1>2, Zenon DEF ChunksOK
  <2>2. InChunk'
    BY <2>1, Zenon DEF InChunk
  <2>3. ASSUME NEW u \in Tracers, where'[u] = "save" PROVE Fits(u)'
    <3>1. Fits(u)
      BY <1>1, <1>2, <2>1, <2>3, Zenon DEF Saving
    <3>2. QED
      BY <3>1, Zenon DEF Fits, HeadChunk
  <2>4. QED
    BY <2>2, <2>3, Zenon DEF Saving
<1>3. QED
  BY <1>1, <1>2, Zenon DEF ChunksOK

(* A step that changes the chunks of one buffer b.                         *)
LEMMA ChunksStep ==
  ASSUME WalksOK, ChunksOK, NEW t \in Tracers, NEW l, NEW x, Walks(t, l, x),
         NEW b \in Tracers, NEW s \in Seq(ChunkRec), s # <<>>, chunks' = [chunks EXCEPT ![b] = s],
         taken' = taken,
         policy # "flush" => \A i \in DOMAIN s : s[i].pos <= ChunkSize,
         l = "save" => b = t,
         policy # "flush" => (where'[b] = "save" => s[Len(s)].pos + EstSize < ChunkSize)
  PROVE  ChunksOK'
<1>1. policy' = policy /\ where'[t] = l /\ \A u \in Tracers : u # t => where'[u] = where[u]
  BY Zenon DEF Walks, WalksOK
<1>2. chunks'[b] = s /\ \A u \in Tracers : u # b => chunks'[u] = chunks[u]
  BY Zenon DEF ChunksOK
<1>3. chunks' \in [Tracers -> Seq(ChunkRec)] /\ taken' \in Nat
  BY Zenon DEF ChunksOK
<1>4. \A u \in Tracers : chunks'[u] # <<>>
  BY <1>2, Zenon DEF ChunksOK
<1>5. ASSUME policy # "flush" PROVE InChunk' /\ Saving'
  <2>1. InChunk /\ Saving
    BY <1>5, Zenon DEF ChunksOK
  <2>2. ASSUME NEW u \in Tracers PROVE \A i \in DOMAIN chunks'[u] : chunks'[u][i].pos <= ChunkSize
    <3>1. CASE u = b
      BY <1>2, <1>5, <3>1, Zenon
    <3>2. CASE u # b
      BY <1>2, <2>1, <3>2, Zenon DEF InChunk
    <3>3. QED
      BY <3>1, <3>2, Zenon
  <2>3. ASSUME NEW u \in Tracers, where'[u] = "save" PROVE Fits(u)'
    <3>1. CASE u = b
      <4>1. s[Len(s)].pos + EstSize < ChunkSize
        BY <1>5, <2>3, <3>1, Zenon
      <4>2. QED
        BY <1>2, <3>1, <4>1, Zenon DEF Fits, HeadChunk
    <3>2. CASE u # b
      <4>1. Fits(u) /\ chunks'[u] = chunks[u]
        BY <1>1, <1>2, <2>1, <2>3, <3>2, Zenon DEF Saving
      <4>2. QED
        BY <4>1, Zenon DEF Fits, HeadChunk
    <3>3. QED
      BY <3>1, <3>2, Zenon
  <2>4. QED
    BY <2>2, <2>3, Zenon DEF InChunk, Saving
<1>6. QED
  BY <1>1, <1>3, <1>4, <1>5, Zenon DEF ChunksOK

LEMMA NewChunkTyped == NewChunk \in ChunkRec /\ NewChunk.pos = 0
BY DEF NewChunk, ChunkRec

(* A new chunk has space for the record; a saved record stays below the    *)
(* estimate that was checked.                                              *)
LEMMA RecordChunks ==
  ASSUME WalksOK, ChunksOK, NEW t \in Tracers, CheckFit(t) \/ SaveData(t) \/ SaveCount(t)
  PROVE  ChunksOK'
<1>1. PICK l \in {"idle", "save", "count", "flush"}, x \in Locals : Walks(t, l, x)
  BY RecordWalks, Zenon
<1>2. where'[t] = l
  BY <1>1, Zenon DEF Walks, WalksOK
<1>3. chunks[t] \in Seq(ChunkRec) /\ chunks[t] # <<>> /\ taken \in Nat /\ loc[t] \in Locals
  BY Zenon DEF ChunksOK, WalksOK
<1>4. PICK s \in Seq(ChunkRec) : s = chunks[t]
  BY <1>3, Zenon
<1>5. PICK n \in Nat : n = Len(s) /\ n \in DOMAIN s /\ DOMAIN s = 1..n
  BY <1>3, <1>4
<1>6. s[n] \in ChunkRec /\ HeadChunk(t) = n /\ Fits(t) = (s[n].pos + EstSize < ChunkSize)
  BY <1>4, <1>5 DEF Fits, HeadChunk
<1>7. policy # "flush" => \A i \in DOMAIN s : s[i].pos <= ChunkSize
  BY <1>4, Zenon DEF ChunksOK, InChunk
<1>8. CASE CheckFit(t)
  <2>1. taken' = taken
    BY <1>8, Zenon DEF CheckFit
  <2>2. CASE chunks' = chunks /\ (l = "save" => Fits(t))
    BY <1>1, <1>3, <2>1, <2>2, ChunksQuiet, Zenon
  <2>3. CASE chunks' = [chunks EXCEPT ![t] = Append(@, NewChunk)]
    <3>1. PICK r : r = Append(s, NewChunk)
      BY Zenon
    <3>2. /\ r \in Seq(ChunkRec) /\ r # <<>> /\ DOMAIN r = 1..(n + 1) /\ Len(r) = n + 1
          /\ r[n + 1] = NewChunk /\ \A i \in 1..n : r[i] = s[i]
      BY <1>5, <3>1, NewChunkTyped
    <3>3. chunks' = [chunks EXCEPT ![t] = r]
      BY <1>4, <2>3, <3>1, Zenon
    <3>4. policy # "flush" => \A i \in DOMAIN r : r[i].pos <= ChunkSize
      BY <1>5, <1>7, <3>2, NewChunkTyped, TraceSizes
    <3>5. r[Len(r)].pos + EstSize < ChunkSize
      BY <3>2, NewChunkTyped, TraceSizes
    <3>6. QED
      BY <1>1, <2>1, <3>2, <3>3, <3>4, <3>5, ChunksStep, Zenon
  <2>4. QED
    <3>1. CASE Fits(t) /\ chunks' = chunks
      BY <2>2, <3>1, Zenon
    <3>2. CASE where' = [where EXCEPT ![t] = "idle"] /\ chunks' = chunks
      <4>1. l = "idle"
        BY <1>2, <3>2, Zenon DEF WalksOK
      <4>2. QED
        BY <2>2, <3>2, <4>1, Zenon
    <3>3. CASE where' = [where EXCEPT ![t] = "flush"] /\ chunks' = chunks
      <4>1. l = "flush"
        BY <1>2, <3>3, Zenon DEF WalksOK
      <4>2. QED
        BY <2>2, <3>3, <4>1, Zenon
    <3>4. QED
      BY <1>8, <2>3, <3>1, <3>2, <3>3, Zenon DEF CheckFit, TrGoto
<1>9. ASSUME NEW c \in ChunkRec, chunks' = [chunks EXCEPT ![t][n] = c], l # "save", taken' = taken,
             policy # "flush" => c.pos <= ChunkSize
      PROVE  ChunksOK'
  <2>1. PICK r : r = [s EXCEPT ![n] = c]
    BY Zenon
  <2>2. r \in Seq(ChunkRec) /\ r # <<>> /\ DOMAIN r = DOMAIN s /\ r[n] = c
        /\ \A i \in DOMAIN s : i # n => r[i] = s[i]
    BY <1>5, <2>1
  <2>3. chunks' = [chunks EXCEPT ![t] = r]
    BY <1>4, <1>9, <2>1, Zenon
  <2>4. policy # "flush" => \A i \in DOMAIN r : r[i].pos <= ChunkSize
    BY <1>7, <1>9, <2>2, Zenon
  <2>5. QED
    BY <1>1, <1>2, <1>9, <2>2, <2>3, <2>4, ChunksStep, Zenon
<1>10. CASE SaveData(t)
  <2>1. /\ where[t] = "save" /\ where' = [where EXCEPT ![t] = "count"] /\ taken' = taken
        /\ chunks' = [chunks EXCEPT ![t][n] =
                         [s[n] EXCEPT !.recs = Append(s[n].recs, loc[t].rec),
                                      !.pos = s[n].pos + RecSize]]
    BY <1>4, <1>6, <1>10, Zenon DEF SaveData, TrMove, TrGoto
  <2>2. l = "count"
    BY <1>2, <2>1, Zenon DEF WalksOK
  <2>3. PICK c : c = [s[n] EXCEPT !.recs = Append(s[n].recs, loc[t].rec), !.pos = s[n].pos + RecSize]
    BY Zenon
  <2>4. chunks' = [chunks EXCEPT ![t][n] = c]
    BY <2>1, <2>3, Zenon
  <2>5. c \in ChunkRec /\ c.pos = s[n].pos + RecSize
    <3>1. s[n].recs \in Seq(Nat) /\ s[n].pos \in Nat /\ loc[t].rec \in Nat
      BY <1>3, <1>6, Zenon DEF ChunkRec, Locals
    <3>2. Append(s[n].recs, loc[t].rec) \in Seq(Nat) /\ s[n].pos + RecSize \in Nat
      BY ONLY <3>1, TraceSizes
    <3>3. QED
      BY <1>6, <2>3, <3>2, Zenon DEF ChunkRec
  <2>6. ASSUME policy # "flush" PROVE c.pos <= ChunkSize
    <3>1. s[n].pos + EstSize < ChunkSize /\ s[n].pos \in Nat
      BY <1>6, <2>1, <2>6, Zenon DEF ChunksOK, Saving, ChunkRec
    <3>2. QED
      BY ONLY <2>5, <3>1, TraceSizes
  <2>7. QED
    BY <1>9, <2>1, <2>2, <2>4, <2>5, <2>6, Zenon
<1>11. CASE SaveCount(t)
  <2>1. /\ where' = [where EXCEPT ![t] = "idle"] /\ taken' = taken
        /\ chunks' = [chunks EXCEPT ![t][n].nrec = @ + 1]
    BY <1>6, <1>11, Zenon DEF SaveCount, TrMove, TrGoto
  <2>2. l = "idle"
    BY <1>2, <2>1, Zenon DEF WalksOK
  <2>3. PICK c : c = [s[n] EXCEPT !.nrec = s[n].nrec + 1]
    BY Zenon
  <2>4. chunks' = [chunks EXCEPT ![t][n] = c]
    BY <1>4, <2>1, <2>3, Zenon
  <2>5. c \in ChunkRec /\ c.pos = s[n].pos
    <3>1. s[n].nrec \in Nat
      BY <1>6, Zenon DEF ChunkRec
    <3>2. s[n].nrec + 1 \in Nat
      BY ONLY <3>1
    <3>3. QED
      BY <1>6, <2>3, <3>2, Zenon DEF ChunkRec
  <2>6. policy # "flush" => c.pos <= ChunkSize
    BY <1>5, <1>7, <2>5, Zenon
  <2>7. QED
    BY <1>9, <2>1, <2>2, <2>4, <2>5, <2>6, Zenon
<1>12. QED
  BY <1>8, <1>10, <1>11, Zenon

(* clear leaves a buffer with one empty chunk, whatever its thread is about*)
(* to do.                                                                  *)
LEMMA ResetChunks ==
  ASSUME WalksOK, ChunksOK, NEW t \in Tracers, ClearReset(t),
         NEW l \in {"idle", "cl_buffer", "cl_unlink"}, NEW x, Walks(t, l, x)
  PROVE  ChunksOK'
<1>1. PICK b : b = loc[t].buf
  BY Zenon
<1>2. b \in Tracers \cup {NoBuf} /\ taken' = taken /\ taken \in Nat
  BY <1>1, Zenon DEF ClearReset, WalksOK, ChunksOK, Locals
<1>3. CASE b = NoBuf
  <2>1. chunks' = chunks
    BY <1>1, <1>3, Zenon DEF ClearReset
  <2>2. QED
    BY <1>2, <2>1, ChunksQuiet, Zenon
<1>4. CASE b # NoBuf
  <2>1. chunks' = [chunks EXCEPT ![b] = <<NewChunk>>]
    BY <1>1, <1>4, Zenon DEF ClearReset
  <2>2. PICK s : s = <<NewChunk>>
    BY Zenon
  <2>3. s \in Seq(ChunkRec) /\ s # <<>> /\ DOMAIN s = 1..1 /\ Len(s) = 1 /\ s[1].pos = 0
    BY <2>2, NewChunkTyped
  <2>4. \A i \in DOMAIN s : s[i].pos <= ChunkSize
    BY <2>3, TraceSizes
  <2>5. s[Len(s)].pos + EstSize < ChunkSize
    BY <2>3, TraceSizes
  <2>6. l # "save" /\ b \in Tracers /\ chunks' = [chunks EXCEPT ![b] = s]
    BY <1>2, <1>4, <2>1, <2>2, Zenon
  <2>7. QED
    BY <1>2, <2>3, <2>4, <2>5, <2>6, ChunksStep, Zenon
<1>5. QED
  BY <1>3, <1>4, Zenon

(* The list of the buffers.                                                *)
LiveBufs == registered \ freed

BufStates ==
  /\ registered \subseteq Tracers /\ retired \subseteq registered /\ freed \subseteq retired
  /\ tNext \in [Tracers -> Tracers \cup {NoBuf}] /\ tPrev \in [Tracers -> Tracers \cup {NoBuf}]
  /\ listHead \in Tracers \cup {NoBuf} /\ lostHead \in BOOLEAN

NewBufs == \A t \in Tracers : t \notin registered => tPrev[t] = NoBuf

BufsOnList == OnList(Tracers, NoBuf, LiveBufs, listHead, tNext, tPrev)

ClearLive ==
  \A t \in Tracers : where[t] \in {"cl_buffer", "cl_unlink"} =>
     loc[t].buf = NoBuf \/ loc[t].buf \in LiveBufs

BufsOK == BufStates /\ (~lostHead => NewBufs /\ BufsOnList /\ ClearLive)

TrInv == WalksOK /\ ChunksOK /\ BufsOK

(* What a clear stands on after a step of thread t, if the buffers that    *)
(* the others stand on are still there.                                    *)
LEMMA ClearLiveStep ==
  ASSUME WalksOK, ClearLive, NEW t \in Tracers, NEW l, NEW x, Walks(t, l, x),
         \A u \in Tracers : u # t /\ where[u] \in {"cl_buffer", "cl_unlink"} => LiveBufs \subseteq LiveBufs',
         l \in {"cl_buffer", "cl_unlink"} => x.buf = NoBuf \/ x.buf \in LiveBufs'
  PROVE  ClearLive'
<1>1. where'[t] = l /\ loc'[t] = x
  BY Zenon DEF WalksOK, Walks
<1>2. ASSUME NEW u \in Tracers, where'[u] \in {"cl_buffer", "cl_unlink"}
      PROVE  loc'[u].buf = NoBuf \/ loc'[u].buf \in LiveBufs'
  <2>1. CASE u = t
    <3>1. x.buf = NoBuf \/ x.buf \in LiveBufs'
      BY <1>1, <1>2, <2>1, Zenon
    <3>2. QED
      BY <1>1, <2>1, <3>1, Zenon
  <2>2. CASE u # t
    <3>1. where'[u] = where[u] /\ loc'[u] = loc[u]
      BY <2>2, Zenon DEF WalksOK, Walks
    <3>2. loc[u].buf = NoBuf \/ loc[u].buf \in LiveBufs'
      BY <1>2, <2>2, <3>1, Zenon DEF ClearLive
    <3>3. QED
      BY <3>1, <3>2, Zenon
  <2>3. QED
    BY <2>1, <2>2, Zenon
<1>3. QED
  BY <1>2, Zenon DEF ClearLive

(* A step that leaves the list alone.                                      *)
LEMMA BufsQuiet ==
  ASSUME WalksOK, BufsOK, NEW t \in Tracers, NEW l, NEW x, Walks(t, l, x),
         UNCHANGED <<registered, freed, tNext, tPrev, listHead, lostHead>>,
         retired' \subseteq registered, retired \subseteq retired',
         l \in {"cl_buffer", "cl_unlink"} /\ ~lostHead => x.buf = NoBuf \/ x.buf \in LiveBufs
  PROVE  BufsOK'
<1>1. BufStates'
  BY Zenon DEF BufsOK, BufStates
<1>2. LiveBufs' = LiveBufs
  BY Zenon DEF LiveBufs
<1>3. ASSUME ~lostHead PROVE NewBufs' /\ BufsOnList' /\ ClearLive'
  <2>1. NewBufs /\ BufsOnList /\ ClearLive
    BY <1>3, Zenon DEF BufsOK
  <2>2. NewBufs' /\ BufsOnList'
    BY <1>2, <2>1, Zenon DEF NewBufs, BufsOnList
  <2>3. l \in {"cl_buffer", "cl_unlink"} => x.buf = NoBuf \/ x.buf \in LiveBufs'
    BY <1>2, <1>3, Zenon
  <2>4. LiveBufs \subseteq LiveBufs'
    BY <1>2, Zenon
  <2>5. ClearLive'
    BY <2>1, <2>3, <2>4, ClearLiveStep, Zenon
  <2>6. QED
    BY <2>2, <2>5, Zenon
<1>4. QED
  BY <1>1, <1>3, Zenon DEF BufsOK

(* acquire_tbuf: the new buffer is in front of the others.                 *)
LEMMA RegisterKeeps ==
  ASSUME WalksOK, BufsOK, NEW t \in Tracers, Register(t)
  PROVE  BufsOK'
<1>1. /\ where[t] = "idle" /\ t \notin registered /\ registered' = registered \cup {t}
      /\ tPrev' = IF listHead = NoBuf THEN tPrev ELSE [tPrev EXCEPT ![listHead] = t]
      /\ tNext' = [tNext EXCEPT ![t] = listHead] /\ listHead' = t
      /\ UNCHANGED <<retired, freed, lostHead, where, loc, policy, flushLock>>
  BY Zenon DEF Register
<1>2. BufStates
  BY Zenon DEF BufsOK
<1>3. BufStates'
  <2>1. tNext' \in [Tracers -> Tracers \cup {NoBuf}]
    BY <1>1, <1>2, Zenon DEF BufStates
  <2>2. tPrev' \in [Tracers -> Tracers \cup {NoBuf}]
    BY <1>1, <1>2, Zenon DEF BufStates
  <2>3. QED
    BY <1>1, <1>2, <2>1, <2>2, Zenon DEF BufStates
<1>4. ASSUME ~lostHead PROVE NewBufs' /\ BufsOnList' /\ ClearLive'
  <2>1. NewBufs /\ BufsOnList /\ ClearLive
    BY <1>4, Zenon DEF BufsOK
  <2>2. t \notin LiveBufs /\ LiveBufs' = LiveBufs \cup {t}
    BY <1>1, <1>2, Zenon DEF BufStates, LiveBufs
  <2>3. listHead # NoBuf => listHead \in LiveBufs
    BY <2>1, TraceNames, ListPointers DEF BufsOnList
  <2>4. NewBufs'
    <3> SUFFICES ASSUME NEW u \in Tracers, u \notin registered' PROVE tPrev'[u] = NoBuf
      BY Zenon DEF NewBufs
    <3>1. u \notin registered /\ tPrev[u] = NoBuf
      BY <1>1, <2>1, Zenon DEF NewBufs
    <3>2. listHead = NoBuf \/ u # listHead
      BY <2>3, <3>1, Zenon DEF LiveBufs
    <3>3. QED
      BY <1>1, <1>2, <3>1, <3>2, Zenon DEF BufStates
  <2>5. tPrev[t] = NoBuf
    BY <1>1, <2>1, Zenon DEF NewBufs
  <2>6. BufsOnList'
    <3>1. OnList(Tracers, NoBuf, LiveBufs \cup {t}, t, tNext', tPrev')
      <4> PICK L, f, n1, p1, n2, p2 :
             L = LiveBufs /\ f = listHead /\ n1 = tNext /\ p1 = tPrev /\ n2 = tNext' /\ p2 = tPrev'
        BY Zenon
      <4>1. /\ OnList(Tracers, NoBuf, L, f, n1, p1) /\ t \notin L /\ p1[t] = NoBuf
            /\ Pointers(Tracers, NoBuf, n1, p1) /\ Pushed(NoBuf, f, n1, p1, t, n2, p2)
        BY <1>1, <1>2, <2>1, <2>2, <2>5, Zenon DEF BufStates, BufsOnList, Pointers, Pushed
      <4>2. OnList(Tracers, NoBuf, L \cup {t}, t, n2, p2)
        BY <4>1, TraceNames, ListPush, Zenon
      <4>3. QED
        BY <4>2, Zenon
    <3>2. QED
      BY <1>1, <2>2, <3>1, Zenon DEF BufsOnList
  <2>7. ClearLive'
    <3>1. Walks(t, where[t], loc[t])
      BY <1>1, WalksStay, Zenon
    <3>2. where[t] \notin {"cl_buffer", "cl_unlink"} /\ LiveBufs \subseteq LiveBufs'
      BY <1>1, <2>2, Zenon
    <3>3. QED
      BY <2>1, <3>1, <3>2, ClearLiveStep, Zenon
  <2>8. QED
    BY <2>4, <2>6, <2>7, Zenon
<1>5. QED
  BY <1>1, <1>3, <1>4, Zenon DEF BufsOK

(* clear deletes a retired buffer: as long as none is deleted at the head, *)
(* the others stay on the list.                                            *)
LEMMA UnlinkKeeps ==
  ASSUME WalksOK, BufsOK, NEW t \in Tracers, ClearUnlink(t),
         NEW l, NEW x, Walks(t, l, x), x.buf = tNext[loc[t].buf]
  PROVE  BufsOK'
<1>1. PICK b : b = loc[t].buf
  BY Zenon
<1>2. where[t] = "cl_unlink" /\ WalkOK(t) /\ BufStates /\ loc[t] \in Locals
  BY Zenon DEF ClearUnlink, TrMove, WalksOK, BufsOK
<1>3. b \in Tracers /\ flushLock = t
  BY <1>1, <1>2, Zenon DEF WalkOK, Locked, Locals
<1>4. UNCHANGED <<registered, retired, listHead>>
  BY Zenon DEF ClearUnlink
<1>5. ASSUME ~lostHead
      PROVE  /\ NewBufs /\ BufsOnList /\ ClearLive /\ b \in LiveBufs
             /\ tNext[b] = NoBuf \/ (tNext[b] \in LiveBufs /\ tNext[b] # b)
  <2>1. NewBufs /\ BufsOnList /\ ClearLive
    BY <1>5, Zenon DEF BufsOK
  <2>2. b \in LiveBufs
    BY <1>1, <1>2, <1>3, <2>1, TraceNames, Zenon DEF ClearLive
  <2>3. tNext[b] # NoBuf => tNext[b] \in LiveBufs /\ tNext[b] # b
    BY <2>1, <2>2, TraceNames, ListPointers DEF BufsOnList
  <2>4. QED
    BY <2>1, <2>2, <2>3, Zenon
<1>6. CASE b \notin retired
  <2>1. UNCHANGED <<tPrev, tNext, freed, lostHead>>
    BY <1>1, <1>6, Zenon DEF ClearUnlink
  <2>2. ~lostHead => x.buf = NoBuf \/ x.buf \in LiveBufs
    BY <1>1, <1>5, Zenon
  <2>3. retired' \subseteq registered /\ retired \subseteq retired'
    BY <1>2, <1>4, Zenon DEF BufStates
  <2>4. QED
    BY <1>4, <2>1, <2>2, <2>3, BufsQuiet, Zenon
<1>7. CASE b \in retired
  <2>1. /\ tPrev' = IF tNext[b] = NoBuf THEN tPrev ELSE [tPrev EXCEPT ![tNext[b]] = tPrev[b]]
        /\ tNext' = IF tPrev[b] = NoBuf THEN tNext ELSE [tNext EXCEPT ![tPrev[b]] = tNext[b]]
        /\ freed' = freed \cup {b} /\ lostHead' = (lostHead \/ b = listHead)
    BY <1>1, <1>7, Zenon DEF ClearUnlink
  <2>2. tNext[b] \in Tracers \cup {NoBuf} /\ tPrev[b] \in Tracers \cup {NoBuf}
    BY <1>2, <1>3, Zenon DEF BufStates
  <2>3. BufStates'
    <3>1. tNext' \in [Tracers -> Tracers \cup {NoBuf}]
      BY <1>2, <2>1, <2>2, Zenon DEF BufStates
    <3>2. tPrev' \in [Tracers -> Tracers \cup {NoBuf}]
      BY <1>2, <2>1, <2>2, Zenon DEF BufStates
    <3>3. freed' \subseteq retired' /\ lostHead' \in BOOLEAN
      BY <1>2, <1>4, <1>7, <2>1, Zenon DEF BufStates
    <3>4. QED
      BY <1>2, <1>4, <3>1, <3>2, <3>3, Zenon DEF BufStates
  <2>4. ASSUME ~lostHead' PROVE NewBufs' /\ BufsOnList' /\ ClearLive'
    <3>1. ~lostHead /\ b # listHead
      BY <2>1, <2>4, Zenon
    <3>2. /\ NewBufs /\ BufsOnList /\ ClearLive /\ b \in LiveBufs
          /\ tNext[b] = NoBuf \/ (tNext[b] \in LiveBufs /\ tNext[b] # b)
      BY <1>5, <3>1, Zenon
    <3>3. LiveBufs' = LiveBufs \ {b}
      BY <1>4, <2>1, Zenon DEF LiveBufs
    <3>4. NewBufs'
      <4> SUFFICES ASSUME NEW u \in Tracers, u \notin registered' PROVE tPrev'[u] = NoBuf
        BY Zenon DEF NewBufs
      <4>1. u \notin registered /\ tPrev[u] = NoBuf
        BY <1>4, <3>2, Zenon DEF NewBufs
      <4>2. tNext[b] = NoBuf \/ u # tNext[b]
        BY <3>2, <4>1, Zenon DEF LiveBufs
      <4>3. QED
        BY <1>2, <2>1, <4>1, <4>2, Zenon DEF BufStates
    <3>5. BufsOnList'
      <4>1. OnList(Tracers, NoBuf, LiveBufs \ {b}, listHead, tNext', tPrev')
        <5> PICK L, f, n1, p1, n2, p2 :
               L = LiveBufs /\ f = listHead /\ n1 = tNext /\ p1 = tPrev /\ n2 = tNext' /\ p2 = tPrev'
          BY Zenon
        <5>1. /\ OnList(Tracers, NoBuf, L, f, n1, p1) /\ b \in L
              /\ Pointers(Tracers, NoBuf, n1, p1) /\ Unlinked(NoBuf, f, n1, p1, b, f, n2, p2)
          BY <1>2, <2>1, <3>1, <3>2, Zenon DEF BufStates, BufsOnList, Pointers, Unlinked
        <5>2. OnList(Tracers, NoBuf, L \ {b}, f, n2, p2)
          BY <5>1, TraceNames, ListUnlink, Zenon
        <5>3. QED
          BY <5>2, Zenon
      <4>2. QED
        BY <1>4, <3>3, <4>1, Zenon DEF BufsOnList
    <3>6. ClearLive'
      <4>1. ASSUME NEW u \in Tracers, u # t PROVE where[u] \notin {"cl_buffer", "cl_unlink"}
        <5>1. WalkOK(u)
          BY Zenon DEF WalksOK
        <5>2. QED
          BY <1>3, <4>1, <5>1, Zenon DEF WalkOK, Locked
      <4>2. x.buf = NoBuf \/ x.buf \in LiveBufs'
        BY <1>1, <3>2, <3>3, Zenon
      <4>3. QED
        BY <3>2, <4>1, <4>2, ClearLiveStep, Zenon
    <3>7. QED
      BY <3>4, <3>5, <3>6, Zenon
  <2>5. QED
    BY <2>3, <2>4, Zenon DEF BufsOK
<1>8. QED
  BY <1>6, <1>7, Zenon

LEMMA TrInitially == TrInit => TrInv
<1> SUFFICES ASSUME TrInit PROVE TrInv
  BY Zenon
<1>1. WalksOK
  <2>1. where \in [Tracers -> Places] /\ loc \in [Tracers -> Locals]
    BY NoLocTyped, Zenon DEF TrInit, Places
  <2>2. \A t \in Tracers : where[t] = "idle" /\ loc[t] = NoLoc
    BY Zenon DEF TrInit
  <2>3. \A t \in Tracers : WalkOK(t)
    BY <2>2, NoLocTyped, Zenon DEF WalkOK, Locked
  <2>4. QED
    BY <2>1, <2>3, Zenon DEF WalksOK
<1>2. ChunksOK
  <2>1. PICK s : s = <<NewChunk>>
    BY Zenon
  <2>2. s \in Seq(ChunkRec) /\ s # <<>> /\ DOMAIN s = 1..1 /\ s[1].pos = 0
    BY <2>1, NewChunkTyped
  <2>3. chunks = [t \in Tracers |-> s] /\ taken = 0
    BY <2>1, Zenon DEF TrInit
  <2>4. chunks \in [Tracers -> Seq(ChunkRec)] /\ \A t \in Tracers : chunks[t] # <<>> /\ chunks[t] = s
    BY <2>2, <2>3, Zenon
  <2>5. \A i \in DOMAIN s : s[i].pos <= ChunkSize
    BY <2>2, TraceSizes
  <2>6. InChunk
    BY <2>4, <2>5, Zenon DEF InChunk
  <2>7. Saving
    BY Zenon DEF Saving, TrInit
  <2>8. taken \in Nat
    BY <2>3
  <2>9. QED
    BY <2>4, <2>6, <2>7, <2>8, Zenon DEF ChunksOK
<1>3. BufsOK
  <2>1. BufStates
    BY Zenon DEF TrInit, BufStates
  <2>2. NewBufs /\ ClearLive
    BY Zenon DEF TrInit, NewBufs, ClearLive
  <2>3. LiveBufs = {} /\ listHead = NoBuf
    BY Zenon DEF TrInit, LiveBufs
  <2>4. BufsOnList
    BY <2>3, ListEmpty, Zenon DEF BufsOnList
  <2>5. QED
    BY <2>1, <2>2, <2>4, Zenon DEF BufsOK
<1>4. QED
  BY <1>1, <1>2, <1>3, Zenon DEF TrInv

LEMMA ProgramKeeps ==
  ASSUME TrInv, NEW t \in Tracers, TrProgram(t)
  PROVE  TrInv'
<1>1. WalksOK /\ ChunksOK /\ BufsOK /\ BufStates
  BY Zenon DEF TrInv, BufsOK
<1>2. PICK l \in Places \ (Locked \cup {"save"}), x \in Locals : Walks(t, l, x)
  BY <1>1, ProgramWalks, Zenon
<1>3. l \in Places /\ l # "save" /\ l \notin {"cl_buffer", "cl_unlink"}
  BY <1>2, Zenon DEF Locked
<1>4. chunks' = chunks /\ (taken' = taken \/ taken' = taken + 1)
  <2>1. CASE Register(t)
    BY <2>1, Zenon DEF Register
  <2>2. CASE Retire(t)
    BY <2>2, Zenon DEF Retire
  <2>3. CASE TakeSnapshot(t)
    BY <2>3, Zenon DEF TakeSnapshot
  <2>4. CASE CallFlush(t)
    BY <2>4, Zenon DEF CallFlush
  <2>5. CASE CallClear(t)
    BY <2>5, Zenon DEF CallClear
  <2>6. QED
    BY <2>1, <2>2, <2>3, <2>4, <2>5, Zenon DEF TrProgram
<1>5. taken' \in Nat
  <2>1. taken \in Nat
    BY <1>1, Zenon DEF ChunksOK
  <2>2. QED
    BY ONLY <1>4, <2>1
<1>6. ChunksOK'
  BY <1>1, <1>2, <1>3, <1>4, <1>5, ChunksQuiet, Zenon
<1>7. BufsOK'
  <2>1. CASE Register(t)
    BY <1>1, <2>1, RegisterKeeps, Zenon
  <2>2. ASSUME UNCHANGED <<registered, freed, tNext, tPrev, listHead, lostHead>>,
               retired' = retired \/ (retired' = retired \cup {t} /\ t \in registered)
        PROVE  BufsOK'
    <3>1. retired' \subseteq registered /\ retired \subseteq retired'
      BY <1>1, <2>2, Zenon DEF BufStates
    <3>2. QED
      BY <1>1, <1>2, <1>3, <2>2, <3>1, BufsQuiet, Zenon
  <2>3. CASE Retire(t)
    BY <2>2, <2>3, Zenon DEF Retire
  <2>4. CASE TakeSnapshot(t)
    BY <2>2, <2>4, Zenon DEF TakeSnapshot, shared
  <2>5. CASE CallFlush(t)
    BY <2>2, <2>5, Zenon DEF CallFlush, shared
  <2>6. CASE CallClear(t)
    BY <2>2, <2>6, Zenon DEF CallClear, shared
  <2>7. QED
    BY <2>1, <2>3, <2>4, <2>5, <2>6, Zenon DEF TrProgram
<1>8. WalksOK'
  BY <1>1, <1>2, <1>3, WalksKeep, Zenon
<1>9. QED
  BY <1>6, <1>7, <1>8, Zenon DEF TrInv

LEMMA TraceStepKeeps ==
  ASSUME TrInv, NEW t \in Tracers, TrStep(t)
  PROVE  TrInv'
<1>1. WalksOK /\ ChunksOK /\ BufsOK /\ BufStates
  BY Zenon DEF TrInv, BufsOK
<1>2. listHead \in Tracers \cup {NoBuf} /\ tNext \in [Tracers -> Tracers \cup {NoBuf}] /\ taken \in Nat
  BY <1>1, Zenon DEF BufStates, ChunksOK
<1>3. retired \subseteq registered
  BY <1>1, Zenon DEF BufStates
<1>4. CASE CheckFit(t) \/ SaveData(t) \/ SaveCount(t)
  <2>1. PICK l \in {"idle", "save", "count", "flush"}, x \in Locals : Walks(t, l, x)
    BY <1>1, <1>4, RecordWalks, Zenon
  <2>2. l \in Places /\ l \notin {"cl_buffer", "cl_unlink"}
    BY <2>1, Zenon DEF Places
  <2>3. UNCHANGED <<registered, retired, freed, tNext, tPrev, listHead, lostHead>>
    <3>1. CASE CheckFit(t)
      BY <3>1, Zenon DEF CheckFit, shared
    <3>2. CASE SaveData(t)
      BY <3>2, Zenon DEF SaveData, shared
    <3>3. CASE SaveCount(t)
      BY <3>3, Zenon DEF SaveCount, shared
    <3>4. QED
      BY <1>4, <3>1, <3>2, <3>3, Zenon
  <2>4. WalksOK'
    BY <1>1, <2>1, <2>2, WalksKeep, Zenon
  <2>5. ChunksOK'
    BY <1>1, <1>4, RecordChunks, Zenon
  <2>6. BufsOK'
    BY <1>1, <1>3, <2>1, <2>2, <2>3, BufsQuiet, Zenon
  <2>7. QED
    BY <2>4, <2>5, <2>6, Zenon DEF TrInv
<1>5. CASE FlushStart(t) \/ FlushBuffer(t) \/ FlushRecord(t)
  <2>1. PICK l \in {"idle", "save", "fl_buffer", "fl_record"}, x \in Locals :
           Walks(t, l, x) /\ (l = "save" => policy = "flush")
    BY <1>1, <1>2, <1>5, FlushWalks, Zenon
  <2>2. l \in Places /\ l \notin {"cl_buffer", "cl_unlink"}
    BY <2>1, Zenon DEF Places
  <2>3. UNCHANGED <<registered, retired, freed, tNext, tPrev, listHead, lostHead, chunks, taken>>
    <3>1. CASE FlushStart(t)
      BY <3>1, Zenon DEF FlushStart, shared
    <3>2. CASE FlushBuffer(t)
      BY <3>2, Zenon DEF FlushBuffer, shared
    <3>3. CASE FlushRecord(t)
      BY <3>3, Zenon DEF FlushRecord, shared
    <3>4. QED
      BY <1>5, <3>1, <3>2, <3>3, Zenon
  <2>4. WalksOK'
    BY <1>1, <2>1, <2>2, WalksKeep, Zenon
  <2>5. ChunksOK'
    BY <1>1, <1>2, <2>1, <2>3, ChunksQuiet, Zenon
  <2>6. BufsOK'
    BY <1>1, <1>3, <2>1, <2>2, <2>3, BufsQuiet, Zenon
  <2>7. QED
    BY <2>4, <2>5, <2>6, Zenon DEF TrInv
<1>6. CASE ClearStart(t) \/ ClearReset(t) \/ ClearUnlink(t)
  <2>1. PICK l \in {"idle", "cl_buffer", "cl_unlink"}, x \in Locals :
           /\ Walks(t, l, x)
           /\ ClearStart(t) => x.buf = listHead
           /\ ClearReset(t) => l = "idle" \/ (x.buf = loc[t].buf /\ where[t] = "cl_buffer")
           /\ ClearUnlink(t) => x.buf = tNext[loc[t].buf]
    BY <1>1, <1>2, <1>6, ClearWalks, Zenon
  <2>2. l \in Places /\ l # "save"
    BY <2>1, Zenon DEF Places
  <2>3. WalksOK'
    BY <1>1, <2>1, <2>2, WalksKeep, Zenon
  <2>4. ChunksOK'
    <3>1. CASE ClearReset(t)
      BY <1>1, <2>1, <3>1, ResetChunks, Zenon
    <3>2. CASE ClearStart(t)
      <4>1. chunks' = chunks /\ taken' = taken
        BY <3>2, Zenon DEF ClearStart
      <4>2. QED
        BY <1>1, <1>2, <2>1, <2>2, <4>1, ChunksQuiet, Zenon
    <3>3. CASE ClearUnlink(t)
      <4>1. chunks' = chunks /\ taken' = taken
        BY <3>3, Zenon DEF ClearUnlink
      <4>2. QED
        BY <1>1, <1>2, <2>1, <2>2, <4>1, ChunksQuiet, Zenon
    <3>4. QED
      BY <1>6, <3>1, <3>2, <3>3, Zenon
  <2>5. BufsOK'
    <3>1. CASE ClearStart(t)
      <4>1. UNCHANGED <<registered, retired, freed, tNext, tPrev, listHead, lostHead>>
        BY <3>1, Zenon DEF ClearStart, shared
      <4>2. ~lostHead => listHead = NoBuf \/ listHead \in LiveBufs
        <5>1. ~lostHead => BufsOnList
          BY <1>1, Zenon DEF BufsOK
        <5>2. QED
          BY <5>1, TraceNames, ListPointers DEF BufsOnList
      <4>3. ~lostHead => x.buf = NoBuf \/ x.buf \in LiveBufs
        BY <2>1, <3>1, <4>2, Zenon
      <4>4. QED
        BY <1>1, <1>3, <2>1, <4>1, <4>3, BufsQuiet, Zenon
    <3>2. CASE ClearReset(t)
      <4>1. UNCHANGED <<registered, retired, freed, tNext, tPrev, listHead, lostHead>>
        BY <3>2, Zenon DEF ClearReset, shared
      <4>2. ASSUME ~lostHead, l \in {"cl_buffer", "cl_unlink"} PROVE x.buf = NoBuf \/ x.buf \in LiveBufs
        <5>1. ClearLive /\ x.buf = loc[t].buf /\ where[t] = "cl_buffer"
          BY <1>1, <2>1, <3>2, <4>2, Zenon DEF BufsOK
        <5>2. QED
          BY <5>1, Zenon DEF ClearLive
      <4>3. QED
        BY <1>1, <1>3, <2>1, <4>1, <4>2, BufsQuiet, Zenon
    <3>3. CASE ClearUnlink(t)
      BY <1>1, <2>1, <3>3, UnlinkKeeps, Zenon
    <3>4. QED
      BY <1>6, <3>1, <3>2, <3>3, Zenon
  <2>6. QED
    BY <2>3, <2>4, <2>5, Zenon DEF TrInv
<1>7. QED
  BY <1>4, <1>5, <1>6, Zenon DEF TrStep

LEMMA TrInductive == TrInv /\ [TrNext]_trVars => TrInv'
<1> SUFFICES ASSUME TrInv, [TrNext]_trVars PROVE TrInv'
  BY Zenon
<1>1. ASSUME NEW t \in Tracers, TrStep(t) \/ TrProgram(t) PROVE TrInv'
  BY <1>1, TraceStepKeeps, ProgramKeeps, Zenon
<1>2. CASE UNCHANGED trVars
  <2>1. WalksOK'
    BY <1>2, Zenon DEF trVars, TrInv, WalksOK, WalkOK
  <2>2. ChunksOK'
    BY <1>2, Zenon DEF trVars, TrInv, ChunksOK, InChunk, Saving, Fits, HeadChunk
  <2>3. BufsOK'
    BY <1>2, Zenon DEF trVars, TrInv, BufsOK, BufStates, NewBufs, BufsOnList, ClearLive, LiveBufs
  <2>4. QED
    BY <2>1, <2>2, <2>3, Zenon DEF TrInv
<1>3. QED
  BY <1>1, <1>2, Zenon DEF TrNext

(* No chunk of a trace buffer is written past its end when a full buffer   *)
(* grows or stops, and the list of the buffers leads to exactly those that *)
(* are not deleted as long as none was deleted at its head (Trace.cpp      *)
(* acquire_tbuf, process_snapshot_cb, clear_cb): two of the three parts of *)
(* TraceSound, for any number of threads, records, sizes and calls.        *)
THEOREM TraceBuffersSound == TrSpec => [](WithinChunk /\ OnlyLiveBuffers)
<1>1. TrInv => WithinChunk /\ OnlyLiveBuffers
  <2> SUFFICES ASSUME TrInv PROVE WithinChunk /\ OnlyLiveBuffers
    BY Zenon
  <2>1. WithinChunk
    BY Zenon DEF TrInv, ChunksOK, WithinChunk
  <2>2. ASSUME ~lostHead PROVE Reachable = registered \ freed
    <3>1. BufsOnList
      BY <2>2, Zenon DEF TrInv, BufsOK
    <3>2. QED
      BY <3>1, TraceNames, ListReaches DEF Reachable, BufClosed, BufsOnList, LiveBufs
  <2>3. QED
    BY <2>1, <2>2, Zenon DEF OnlyLiveBuffers
<1>2. QED
  BY <1>1, TrInitially, TrInductive, PTL DEF TrSpec
=============================================================================
