------------------------- MODULE ContextBufferProofs -------------------------
(***************************************************************************)
(* The array layout of ContextBuffer, and that the arrays implement the    *)
(* map of Blackboard, proved for any sets of threads, attributes and       *)
(* contents.                                                               *)
(***************************************************************************)
EXTENDS ContextBuffer, TLAPS

(* r is s with slot n and the last slot exchanged.                         *)
Swapped(S, r, s, n) ==
  /\ r \in Seq(S)
  /\ Len(r) = Len(s)
  /\ \A i \in 1..Len(s) :
       r[i] = IF i = n THEN s[Len(s)] ELSE IF i = Len(s) THEN s[n] ELSE s[i]

(* std::swap(s.back(), s[n]) exchanges two slots and keeps the others.     *)
LEMMA SwapBackFacts ==
  ASSUME NEW S, NEW s \in Seq(S), NEW n \in 1..Len(s)
  PROVE  Swapped(S, SwapBack(s, n), s, n)
BY DEF SwapBack, Swapped

(* r is s with x in slot n and what was there at the back.                 *)
Inserted(S, r, s, x, n) ==
  /\ r \in Seq(S)
  /\ Len(r) = Len(s) + 1
  /\ \A i \in 1..(Len(s) + 1) :
       r[i] = IF i = n THEN x ELSE IF i = Len(s) + 1 THEN s[n] ELSE s[i]

(* push_back(x) followed by a swap with slot n inserts x in slot n.        *)
LEMMA InsertFacts ==
  ASSUME NEW S, NEW s \in Seq(S), NEW x \in S, NEW n \in 1..(Len(s) + 1),
         NEW r, r = SwapBack(Append(s, x), n)
  PROVE  Inserted(S, r, s, x, n)
<1> DEFINE a == Append(s, x)
<1>1. a \in Seq(S) /\ Len(a) = Len(s) + 1
  OBVIOUS
<1>2. \A i \in 1..(Len(s) + 1) : a[i] = IF i = Len(s) + 1 THEN x ELSE s[i]
  OBVIOUS
<1>3. n \in 1..Len(a)
  BY <1>1, Zenon
<1> HIDE DEF a
<1>4. Swapped(S, r, a, n)
  BY <1>1, <1>3, SwapBackFacts, Zenon DEF a
<1>5. QED
  BY ONLY <1>1, <1>2, <1>4 DEF Inserted, Swapped

(* Inserting a new element in that way keeps the elements distinct.        *)
LEMMA InsertKeepsUnique ==
  ASSUME NEW L \in Nat, NEW s, NEW r, NEW x, NEW n \in 1..(L + 1),
         \A i \in 1..L : s[i] # x,
         \A i, j \in 1..L : s[i] = s[j] => i = j,
         \A i \in 1..(L + 1) :
           r[i] = IF i = n THEN x ELSE IF i = L + 1 THEN s[n] ELSE s[i]
  PROVE  \A i, j \in 1..(L + 1) : r[i] = r[j] => i = j
<1> DEFINE From(i) == IF i = L + 1 THEN n ELSE i
<1>1. \A i \in 1..(L + 1) : i # n => From(i) \in 1..L /\ r[i] = s[From(i)]
  OBVIOUS
<1>2. \A i, j \in 1..(L + 1) : i # n /\ j # n /\ From(i) = From(j) => i = j
  BY Zenon
<1>3. r[n] = x
  BY Zenon
<1> HIDE DEF From
<1>4. QED
  BY <1>1, <1>2, <1>3

(* vector::erase closes the gap.                                           *)
LEMMA EraseFacts ==
  ASSUME NEW S, NEW s \in Seq(S), NEW n \in 1..Len(s)
  PROVE  /\ Erase(s, n) \in Seq(S)
         /\ Len(Erase(s, n)) = Len(s) - 1
         /\ \A i \in 1..(Len(s) - 1) :
              Erase(s, n)[i] = IF i < n THEN s[i] ELSE s[i + 1]
<1> DEFINE l == SubSeq(s, 1, n - 1)
           r == SubSeq(s, n + 1, Len(s))
<1>1. l \in Seq(S) /\ Len(l) = n - 1 /\ \A i \in 1..(n - 1) : l[i] = s[i]
  OBVIOUS
<1>2. /\ r \in Seq(S) /\ Len(r) = Len(s) - n
      /\ \A i \in 1..(Len(s) - n) : r[i] = s[n + i]
  OBVIOUS
<1>3. Erase(s, n) = l \o r
  BY Zenon DEF Erase
<1> HIDE DEF l, r
<1>4. l \o r \in Seq(S) /\ Len(l \o r) = Len(l) + Len(r)
  <2>1. l \in Seq(S) /\ r \in Seq(S)
    BY <1>1, <1>2, Zenon
  <2>2. QED
    BY ONLY <2>1
<1>5. \A i \in 1..(Len(s) - 1) : (l \o r)[i] = IF i < n THEN l[i] ELSE r[i - (n - 1)]
  BY <1>1, <1>2
<1>6. \A i \in 1..(Len(s) - 1) : (l \o r)[i] = IF i < n THEN s[i] ELSE s[i + 1]
  <2> SUFFICES ASSUME NEW i \in 1..(Len(s) - 1)
               PROVE  (l \o r)[i] = IF i < n THEN s[i] ELSE s[i + 1]
    BY Zenon
  <2>1. CASE i < n
    BY <2>1, <1>1, <1>5
  <2>2. CASE ~(i < n)
    <3>1. i - (n - 1) \in 1..(Len(s) - n)
      BY <2>2
    <3>2. r[i - (n - 1)] = s[n + (i - (n - 1))]
      BY <3>1, <1>2, Zenon
    <3>3. n + (i - (n - 1)) = i + 1
      OBVIOUS
    <3>4. r[i - (n - 1)] = s[i + 1]
      BY <3>2, <3>3, Zenon
    <3>5. QED
      BY <2>2, <3>4, <1>5, ZenonT(60)
  <2>3. QED
    BY <2>1, <2>2, Zenon
<1>7. Len(l \o r) = Len(s) - 1
  BY <1>1, <1>2, <1>4
<1>8. QED
  BY ONLY <1>3, <1>4, <1>6, <1>7, Zenon

(* A search finds the only slot that holds the key.                        *)
LEMMA FoundSlot ==
  ASSUME ArraysTypeOK, KeysUnique, ArraysParallel,
         NEW a, NEW lo \in 1..(Len(m_keys) + 1), NEW hi \in 0..Len(m_keys),
         Slots(a, lo, hi) # {}
  PROVE  /\ First(Slots(a, lo, hi)) \in lo..hi
         /\ m_keys[First(Slots(a, lo, hi))] = a
<1>1. PICK i \in lo..hi : m_keys[i] = a
  BY Zenon DEF Slots
<1>2. \A j \in Slots(a, lo, hi) : j = i
  BY <1>1, SMTT(30) DEF Slots, KeysUnique, ArraysTypeOK
<1>3. Slots(a, lo, hi) = {i}
  BY <1>1, <1>2, Zenon DEF Slots
<1>4. First({i}) = i
  BY DEF First
<1>5. QED
  BY <1>1, <1>3, <1>4, Zenon

(* Where set() puts a new value: at the end of its section.               *)
Place(a) == IF a \in Hidden THEN m_num_nodes + m_num_hidden + 1 ELSE Len(m_keys) + 1

(* set() of a value that has no entry inserts it in both arrays.           *)
LEMMA SetEntryInserts ==
  ASSUME ArraysTypeOK, Layout,
         NEW a \in AsValue, NEW v \in Values \cup {Empty}, SetEntry(a, v), All(a) = {},
         NEW n, n = Place(a)
  PROVE  /\ n \in 1..(Len(m_keys) + 1) /\ n > m_num_nodes + m_num_hidden
         /\ \A i \in 1..Len(m_keys) : m_keys[i] # a
         /\ m_nodes' = m_nodes
         /\ m_num_nodes' = m_num_nodes
         /\ m_num_hidden' = IF a \in Hidden THEN m_num_hidden + 1 ELSE m_num_hidden
         /\ Inserted(Attrs, m_keys', m_keys, a, n)
         /\ Inserted(Contents, m_data', m_data, v, n)
         /\ Len(m_data) = Len(m_keys)
<1> USE AttrAssumption
<1>1. n \in 1..(Len(m_keys) + 1) /\ n > m_num_nodes + m_num_hidden
  BY DEF Place, ArraysTypeOK, Layout, ArraysParallel
<1>2. /\ m_keys' = SwapBack(Append(m_keys, a), n)
      /\ m_data' = SwapBack(Append(m_data, v), n)
      /\ m_nodes' = m_nodes
      /\ m_num_nodes' = m_num_nodes
      /\ m_num_hidden' = IF a \in Hidden THEN m_num_hidden + 1 ELSE m_num_hidden
  BY DEF SetEntry, Place, ArraysTypeOK
<1>3. \A i \in 1..Len(m_keys) : m_keys[i] # a
  BY Zenon DEF All, Slots
<1>4. Inserted(Attrs, m_keys', m_keys, a, n)
  <2>1. a \in Attrs /\ m_keys \in Seq(Attrs)
    BY Zenon DEF ArraysTypeOK
  <2>2. QED
    BY ONLY <1>1, <1>2, <2>1, InsertFacts, ZenonT(60)
<1>5. Inserted(Contents, m_data', m_data, v, n) /\ Len(m_data) = Len(m_keys)
  <2>1. v \in Contents /\ Len(m_data) = Len(m_keys) /\ m_data \in Seq(Contents)
    BY Zenon DEF Contents, Layout, ArraysParallel, ArraysTypeOK
  <2>2. n \in 1..(Len(m_data) + 1)
    BY ONLY <1>1, <2>1, Zenon
  <2>3. QED
    BY ONLY <1>2, <2>1, <2>2, InsertFacts, ZenonT(60)
<1>6. QED
  BY <1>1, <1>2, <1>3, <1>4, <1>5, Zenon

(* set() keeps the layout when its attribute is stored as a value.         *)
LEMMA SetEntryKeepsLayout ==
  ASSUME ArraysTypeOK, Layout,
         NEW a \in AsValue, NEW v \in Values \cup {Empty}, SetEntry(a, v)
  PROVE  ArraysTypeOK' /\ Layout'
<1> USE AttrAssumption
<1>1. CASE All(a) # {}
  <2> DEFINE i == First(All(a))
  <2>1. i \in 1..Len(m_keys) /\ m_keys[i] = a
    BY <1>1, FoundSlot DEF All, Layout, ArraysTypeOK
  <2> HIDE DEF i
  <2>2. /\ m_data' = [m_data EXCEPT ![i] = v]
        /\ UNCHANGED <<m_keys, m_nodes, m_num_nodes, m_num_hidden>>
    BY <1>1, Zenon DEF SetEntry, i
  <2>3. i > m_num_nodes
    BY <2>1 DEF Layout, Sections, RefAttrs, ArraysTypeOK
  <2>4. ArraysTypeOK' /\ Len(m_data') = Len(m_data)
    BY <2>1, <2>2 DEF ArraysTypeOK, Contents, Layout, ArraysParallel
  <2>5. ArraysParallel' /\ KeysUnique' /\ Sections'
    BY <2>2, <2>4, Zenon DEF Layout, ArraysParallel, KeysUnique, Sections
  <2>6. ContentsMatch'
    BY <2>1, <2>2, <2>3 DEF Layout, ContentsMatch, ArraysParallel, ArraysTypeOK
  <2>7. QED
    BY <2>4, <2>5, <2>6, Zenon DEF Layout
<1>2. CASE All(a) = {}
  <2>0. PICK n : n = Place(a)
    BY Zenon
  <2>1. n \in 1..(Len(m_keys) + 1) /\ n > m_num_nodes + m_num_hidden
    BY <1>2, <2>0, SetEntryInserts, Zenon
  <2>2. /\ m_nodes' = m_nodes
        /\ m_num_nodes' = m_num_nodes
        /\ m_num_hidden' = IF a \in Hidden THEN m_num_hidden + 1 ELSE m_num_hidden
    BY <1>2, <2>0, SetEntryInserts, Zenon
  <2>3. \A i \in 1..Len(m_keys) : m_keys[i] # a
    BY <1>2, <2>0, SetEntryInserts, Zenon
  <2>4. /\ m_keys' \in Seq(Attrs)
        /\ Len(m_keys') = Len(m_keys) + 1
        /\ \A i \in 1..(Len(m_keys) + 1) :
             m_keys'[i] = IF i = n THEN a
                          ELSE IF i = Len(m_keys) + 1 THEN m_keys[n] ELSE m_keys[i]
    BY <1>2, <2>0, SetEntryInserts DEF Inserted
  <2>5. /\ m_data' \in Seq(Contents)
        /\ Len(m_data') = Len(m_keys) + 1
        /\ \A i \in 1..(Len(m_keys) + 1) :
             m_data'[i] = IF i = n THEN v
                          ELSE IF i = Len(m_keys) + 1 THEN m_data[n] ELSE m_data[i]
    BY <1>2, <2>0, SetEntryInserts DEF Inserted
  <2>6. ArraysTypeOK' /\ ArraysParallel'
    BY <2>0, <2>1, <2>2, <2>4, <2>5 DEF Place, ArraysTypeOK, Layout, ArraysParallel
  <2>7. KeysUnique'
    <3>1. Len(m_keys) \in Nat /\ n \in 1..(Len(m_keys) + 1)
      BY <2>1 DEF ArraysTypeOK
    <3>2. \A i, j \in 1..Len(m_keys) : m_keys[i] = m_keys[j] => i = j
      BY Zenon DEF Layout, KeysUnique
    <3>3. \A i, j \in 1..(Len(m_keys) + 1) : m_keys'[i] = m_keys'[j] => i = j
      BY ONLY <2>3, <2>4, <3>1, <3>2, InsertKeepsUnique
    <3>4. QED
      BY <2>4, <3>3, Zenon DEF KeysUnique
  <2>8. Sections'
    BY <2>0, <2>1, <2>2, <2>4, SMTT(30) DEF Place, Layout, Sections, ArraysParallel, RefAttrs, ArraysTypeOK
  <2>9. ContentsMatch'
    <3> SUFFICES ASSUME NEW i \in 1..(Len(m_keys) + 1)
                 PROVE  IF i <= m_num_nodes THEN m_data'[i] = IdVariant(m_nodes[i])
                                            ELSE m_data'[i] \in Values \cup {Empty}
      BY <2>2, <2>4, Zenon DEF ContentsMatch, IdVariant
    <3>1. CASE i <= m_num_nodes
      <4>1. m_data'[i] = m_data[i] /\ i \in 1..Len(m_keys)
        BY <2>1, <2>5, <3>1 DEF Layout, ArraysParallel, ArraysTypeOK
      <4>2. QED
        BY <3>1, <4>1, Zenon DEF Layout, ContentsMatch, ArraysTypeOK
    <3>2. CASE i > m_num_nodes
      <4>1. CASE i = n
        BY <2>5, <3>2, <4>1 DEF ArraysTypeOK
      <4>2. CASE i # n /\ i = Len(m_keys) + 1
        <5>1. m_data'[i] = m_data[n] /\ n \in 1..Len(m_keys) /\ n > m_num_nodes
          BY <2>1, <2>5, <4>2 DEF ArraysTypeOK
        <5>2. QED
          BY <3>2, <5>1 DEF Layout, ContentsMatch, ArraysTypeOK
      <4>3. CASE i # n /\ i # Len(m_keys) + 1
        BY <2>1, <2>5, <3>2, <4>3 DEF Layout, ContentsMatch, ArraysTypeOK
      <4>4. QED
        BY <4>1, <4>2, <4>3, Zenon
    <3>3. QED
      BY <3>1, <3>2 DEF ArraysTypeOK
  <2>10. QED
    BY <2>6, <2>7, <2>8, <2>9, Zenon DEF Layout
<1>3. QED
  BY <1>1, <1>2, Zenon

(* MoveUp with the ends of the node section and of the hidden section as   *)
(* parameters.                                                             *)
Moved(s, p, q) == IF p < q THEN SwapBack(SwapBack(s, p), q) ELSE SwapBack(s, p)

(* r is s with x in slot p, what was there in slot q, and what was there   *)
(* at the back.                                                            *)
MovedIn(S, r, s, x, p, q) ==
  /\ r \in Seq(S)
  /\ Len(r) = Len(s) + 1
  /\ \A i \in 1..(Len(s) + 1) :
       r[i] = IF i = p THEN x ELSE IF i = q THEN s[p]
              ELSE IF i = Len(s) + 1 THEN s[q] ELSE s[i]

(* The two swaps of set_node() move the new element in that way.           *)
LEMMA MovedFacts ==
  ASSUME NEW S, NEW s \in Seq(S), NEW x \in S,
         NEW p \in 1..(Len(s) + 1), NEW q \in p..(Len(s) + 1),
         NEW r, r = Moved(Append(s, x), p, q)
  PROVE  MovedIn(S, r, s, x, p, q)
<1>0. PICK s1 : s1 = SwapBack(Append(s, x), p)
  BY Zenon
<1> DEFINE L == Len(s) + 1
<1>1. Inserted(S, s1, s, x, p)
  BY ONLY <1>0, s \in Seq(S), x \in S, p \in 1..(Len(s) + 1), InsertFacts, ZenonT(60)
<1>2. L \in Nat /\ p \in 1..L /\ q \in p..L /\ q \in 1..L
  OBVIOUS
<1>3. r = IF p < q THEN SwapBack(s1, q) ELSE s1
  BY <1>0, Zenon DEF Moved
<1>4. CASE p < q
  <2>0. s1 \in Seq(S) /\ Len(s1) = L
    BY ONLY <1>1, Zenon DEF Inserted
  <2>1. /\ r \in Seq(S)
        /\ Len(r) = L
        /\ \A i \in 1..L : r[i] = IF i = q THEN s1[L] ELSE IF i = L THEN s1[q] ELSE s1[i]
    <3>1. r = SwapBack(s1, q) /\ q \in 1..Len(s1)
      BY ONLY <1>2, <1>3, <1>4, <2>0, Zenon
    <3>2. Swapped(S, r, s1, q)
      BY ONLY <2>0, <3>1, SwapBackFacts, Zenon
    <3>3. QED
      BY ONLY <2>0, <3>2, Zenon DEF Swapped
  <2>2. \A i \in 1..L : r[i] = IF i = p THEN x ELSE IF i = q THEN s[p]
                               ELSE IF i = L THEN s[q] ELSE s[i]
    <3>1. \A i \in 1..L : s1[i] = IF i = p THEN x ELSE IF i = L THEN s[p] ELSE s[i]
      BY ONLY <1>1, Zenon DEF Inserted
    <3> HIDE DEF L
    <3>2. QED
      BY ONLY <1>2, <1>4, <2>1, <3>1
  <2>3. QED
    BY ONLY <2>1, <2>2, Zenon DEF MovedIn
<1>5. CASE p = q
  <2>1. r = s1
    BY ONLY <1>2, <1>3, <1>5
  <2>2. QED
    BY ONLY <1>1, <1>5, <2>1, Zenon DEF MovedIn, Inserted
<1>6. QED
  BY <1>2, <1>4, <1>5

(* They too keep the elements distinct.                                    *)
LEMMA MovedKeepsUnique ==
  ASSUME NEW L \in Nat, NEW s, NEW r, NEW x,
         NEW p \in 1..(L + 1), NEW q \in p..(L + 1),
         \A i \in 1..L : s[i] # x,
         \A i, j \in 1..L : s[i] = s[j] => i = j,
         \A i \in 1..(L + 1) :
           r[i] = IF i = p THEN x ELSE IF i = q THEN s[p]
                  ELSE IF i = L + 1 THEN s[q] ELSE s[i]
  PROVE  \A i, j \in 1..(L + 1) : r[i] = r[j] => i = j
<1> DEFINE From(i) == IF i = q THEN p ELSE IF i = L + 1 THEN q ELSE i
<1>1. \A i \in 1..(L + 1) : i # p => From(i) \in 1..L /\ r[i] = s[From(i)]
  OBVIOUS
<1>2. \A i, j \in 1..(L + 1) : i # p /\ j # p /\ From(i) = From(j) => i = j
  BY Zenon
<1>3. r[p] = x
  BY Zenon
<1> HIDE DEF From
<1>4. QED
  BY <1>1, <1>2, <1>3

(* set_node() of a node that has no entry moves it into the node section.  *)
LEMMA SetNodeMoves ==
  ASSUME ArraysTypeOK, Layout,
         NEW t \in Threads, NEW a \in RefAttrs, NEW n \in Nodes, SetNode(t, a, n),
         Slots(a, 1, m_num_nodes) = {},
         NEW p, p = m_num_nodes + 1, NEW q, q = m_num_nodes + m_num_hidden + 1,
         NEW L, L = Len(m_keys)
  PROVE  /\ L \in Nat /\ Len(m_data) = L /\ p \in Nat /\ q \in Nat /\ p <= q /\ q <= L + 1
         /\ p \in 1..(L + 1) /\ q \in p..(L + 1)
         /\ m_nodes' = Append(m_nodes, n)
         /\ m_num_nodes' = m_num_nodes + 1
         /\ \A j \in 1..L : m_keys[j] # a
         /\ MovedIn(Attrs, m_keys', m_keys, a, p, q)
         /\ MovedIn(Contents, m_data', m_data, IdVariant(n), p, q)
<1> USE AttrAssumption
<1>1. /\ L \in Nat /\ Len(m_data) = L /\ p \in Nat /\ q \in Nat /\ p <= q /\ q <= L + 1
      /\ p \in 1..(L + 1) /\ q \in p..(L + 1) /\ (m_num_hidden > 0 <=> p < q)
  BY DEF ArraysTypeOK, Layout, ArraysParallel
<1>2. /\ m_keys' = MoveUp(Append(m_keys, a))
      /\ m_data' = MoveUp(Append(m_data, IdVariant(n)))
      /\ m_nodes' = Append(m_nodes, n)
      /\ m_num_nodes' = m_num_nodes + 1
  BY Zenon DEF SetNode
<1>3. /\ m_keys' = Moved(Append(m_keys, a), p, q)
      /\ m_data' = Moved(Append(m_data, IdVariant(n)), p, q)
  BY <1>1, <1>2, Zenon DEF MoveUp, Moved
<1>4. \A j \in 1..L : m_keys[j] # a
  BY DEF Slots, Layout, Sections, ArraysParallel, ArraysTypeOK
<1>5. MovedIn(Attrs, m_keys', m_keys, a, p, q)
  <2>1. a \in Attrs /\ m_keys \in Seq(Attrs)
    BY Zenon DEF ArraysTypeOK, RefAttrs
  <2>2. p \in 1..(Len(m_keys) + 1) /\ q \in p..(Len(m_keys) + 1)
    BY <1>1, Zenon
  <2>3. QED
    BY ONLY <1>3, <2>1, <2>2, MovedFacts, Zenon
<1>6. PICK x : x = IdVariant(n)
  BY Zenon
<1>7. MovedIn(Contents, m_data', m_data, x, p, q)
  <2>1. x \in Contents /\ m_data \in Seq(Contents)
    BY <1>6, Zenon DEF Contents, ArraysTypeOK
  <2>2. p \in 1..(Len(m_data) + 1) /\ q \in p..(Len(m_data) + 1)
    BY <1>1, Zenon
  <2>3. m_data' = Moved(Append(m_data, x), p, q)
    BY ONLY <1>3, <1>6, Zenon
  <2>4. QED
    BY ONLY <2>1, <2>2, <2>3, MovedFacts, Zenon
<1>8. QED
  BY <1>1, <1>2, <1>4, <1>5, <1>6, <1>7, Zenon

(* set_node() keeps the layout when its attribute is stored by reference.  *)
LEMMA SetNodeKeepsLayout ==
  ASSUME ArraysTypeOK, Layout,
         NEW t \in Threads, NEW a \in RefAttrs, NEW n \in Nodes, SetNode(t, a, n)
  PROVE  ArraysTypeOK' /\ Layout'
<1> USE AttrAssumption
<1> DEFINE at == Slots(a, 1, m_num_nodes)
           i == First(at)
<1>1. m_num_hidden' = m_num_hidden
  BY Zenon DEF SetNode
<1>2. CASE at # {}
  <2>1. i \in 1..m_num_nodes /\ m_keys[i] = a
    BY <1>2, FoundSlot DEF Layout, ArraysTypeOK, ArraysParallel
  <2>2. /\ m_data' = [m_data EXCEPT ![i] = IdVariant(n)]
        /\ m_nodes' = [m_nodes EXCEPT ![i] = n]
        /\ m_keys' = m_keys /\ m_num_nodes' = m_num_nodes
    BY <1>2, Zenon DEF SetNode
  <2> HIDE DEF i
  <2>3. IdVariant(n) \in Contents
    BY Zenon DEF Contents
  <2>4. ArraysTypeOK' /\ ArraysParallel'
    BY <1>1, <2>1, <2>2, <2>3 DEF ArraysTypeOK, Layout, ArraysParallel
  <2>5. KeysUnique' /\ Sections'
    BY <1>1, <2>2, Zenon DEF Layout, KeysUnique, Sections
  <2>6. ContentsMatch'
    BY <2>1, <2>2 DEF Layout, ContentsMatch, ArraysParallel, ArraysTypeOK, IdVariant
  <2>7. QED
    BY <2>4, <2>5, <2>6, Zenon DEF Layout
<1>3. CASE at = {}
  <2>0. PICK p, q, L : /\ p = m_num_nodes + 1 /\ q = m_num_nodes + m_num_hidden + 1
                       /\ L = Len(m_keys)
    BY ZenonT(60)
  <2>1. L \in Nat /\ Len(m_data) = L /\ p \in 1..(L + 1) /\ q \in p..(L + 1)
    BY <1>3, <2>0, SetNodeMoves
  <2>2. m_nodes' = Append(m_nodes, n) /\ m_num_nodes' = m_num_nodes + 1
    BY <1>3, <2>0, SetNodeMoves, Zenon
  <2>pq. /\ p = m_num_nodes + 1 /\ q = m_num_nodes + m_num_hidden + 1
         /\ p \in Nat /\ q \in Nat /\ p <= q /\ q <= L + 1
    BY <1>3, <2>0, SetNodeMoves, Zenon
  <2>3. \A j \in 1..L : m_keys[j] # a
    BY <1>3, <2>0, SetNodeMoves, Zenon
  <2>4. /\ m_keys' \in Seq(Attrs)
        /\ Len(m_keys') = L + 1
        /\ \A j \in 1..(L + 1) :
             m_keys'[j] = IF j = p THEN a ELSE IF j = q THEN m_keys[p]
                          ELSE IF j = L + 1 THEN m_keys[q] ELSE m_keys[j]
    <3>1. MovedIn(Attrs, m_keys', m_keys, a, p, q)
      BY <1>3, <2>0, SetNodeMoves, Zenon
    <3>2. QED
      BY ONLY <2>0, <3>1, Zenon DEF MovedIn
  <2>5. /\ m_data' \in Seq(Contents)
        /\ Len(m_data') = L + 1
        /\ \A j \in 1..(L + 1) :
             m_data'[j] = IF j = p THEN IdVariant(n) ELSE IF j = q THEN m_data[p]
                          ELSE IF j = L + 1 THEN m_data[q] ELSE m_data[j]
    <3>1. MovedIn(Contents, m_data', m_data, IdVariant(n), p, q)
      BY <1>3, <2>0, SetNodeMoves, Zenon
    <3>2. QED
      BY ONLY <2>0, <2>1, <3>1, Zenon DEF MovedIn
  <2>6. ArraysTypeOK' /\ ArraysParallel'
    BY <1>1, <2>1, <2>2, <2>4, <2>5, <2>pq DEF ArraysTypeOK, Layout, ArraysParallel
  <2>7. KeysUnique'
    <3>1. \A j, k \in 1..L : m_keys[j] = m_keys[k] => j = k
      BY <2>0, Zenon DEF Layout, KeysUnique
    <3>2. \A j, k \in 1..(L + 1) : m_keys'[j] = m_keys'[k] => j = k
      BY ONLY <2>1, <2>3, <2>4, <3>1, MovedKeepsUnique
    <3>3. QED
      BY <2>4, <3>2, Zenon DEF KeysUnique
  <2>8. Sections'
    <3> SUFFICES ASSUME NEW j \in 1..(L + 1)
                 PROVE  /\ m_keys'[j] \in RefAttrs <=> j <= m_num_nodes + 1
                        /\ m_keys'[j] \in AsValue \cap Hidden <=>
                             m_num_nodes + 1 < j /\ j <= m_num_nodes + 1 + m_num_hidden
      BY <1>1, <2>2, <2>4, Zenon DEF Sections
    <3>1. CASE j = p
      <4>1. m_keys'[j] = a /\ a \in RefAttrs /\ j = m_num_nodes + 1
        BY <2>4, <2>pq, <3>1, Zenon
      <4>2. m_num_nodes \in Nat
        BY Zenon DEF ArraysTypeOK
      <4>3. QED
        BY ONLY <4>1, <4>2 DEF RefAttrs
    <3>2. CASE j # p /\ j = q
      <4>1. m_keys'[j] = m_keys[p] /\ p \in 1..L
        BY <2>1, <2>4, <2>pq, <3>2
      <4>2. QED
        BY <2>pq, <3>2, <4>1 DEF Layout, Sections, ArraysParallel, RefAttrs, ArraysTypeOK
    <3>3. CASE j # p /\ j # q /\ j = L + 1
      <4>1. m_keys'[j] = m_keys[q] /\ q \in 1..L
        BY <2>1, <2>4, <2>pq, <3>3
      <4>2. QED
        BY <2>1, <2>pq, <3>3, <4>1 DEF Layout, Sections, ArraysParallel, RefAttrs, ArraysTypeOK
    <3>4. CASE j # p /\ j # q /\ j # L + 1
      <4>1. m_keys'[j] = m_keys[j] /\ j \in 1..L
        BY <2>1, <2>4, <3>4
      <4>2. QED
        BY <2>1, <2>pq, <3>4, <4>1 DEF Layout, Sections, ArraysParallel, RefAttrs, ArraysTypeOK
    <3>5. QED
      BY <3>1, <3>2, <3>3, <3>4, Zenon
  <2>9. ContentsMatch'
    <3>1. \A j \in 1..(m_num_nodes + 1) :
            m_nodes'[j] = IF j = p THEN n ELSE m_nodes[j]
      BY <2>2, <2>pq DEF Layout, ArraysParallel, ArraysTypeOK
    <3> SUFFICES ASSUME NEW j \in 1..(L + 1)
                 PROVE  IF j <= m_num_nodes + 1 THEN m_data'[j] = IdVariant(m_nodes'[j])
                                                ELSE m_data'[j] \in Values \cup {Empty}
      BY <2>2, <2>4, Zenon DEF ContentsMatch, IdVariant
    <3>d. m_data'[j] = IF j = p THEN IdVariant(n) ELSE IF j = q THEN m_data[p]
                       ELSE IF j = L + 1 THEN m_data[q] ELSE m_data[j]
      BY <2>5, Zenon
    <3>n. /\ L \in Nat /\ m_num_nodes \in Nat /\ m_num_hidden \in Nat
          /\ j \in 1..(L + 1) /\ p = m_num_nodes + 1
          /\ q = m_num_nodes + m_num_hidden + 1 /\ q <= L + 1
      BY <2>1, <2>pq, Zenon DEF ArraysTypeOK
    <3>2. CASE j <= m_num_nodes
      <4>1. m_data'[j] = m_data[j] /\ m_nodes'[j] = m_nodes[j] /\ j \in 1..L
        BY <2>1, <2>5, <2>pq, <3>1, <3>2 DEF ArraysTypeOK
      <4>2. QED
        BY <2>0, <3>2, <4>1 DEF Layout, ContentsMatch, ArraysTypeOK
    <3>3. CASE j = p
      BY <2>1, <2>5, <2>pq, <3>1, <3>3 DEF ArraysTypeOK
    <3>4. CASE j > m_num_nodes + 1
      <4>1. \E k \in 1..L : k > m_num_nodes /\ m_data'[j] = m_data[k]
        <5>1. CASE j = q
          <6>1. m_data'[j] = m_data[p] /\ p \in 1..L /\ p > m_num_nodes
            BY ONLY <3>d, <3>n, <3>4, <5>1
          <6>2. QED
            BY <6>1, Zenon
        <5>2. CASE j # q /\ j = L + 1
          <6>1. m_data'[j] = m_data[q] /\ q \in 1..L /\ q > m_num_nodes
            BY ONLY <3>d, <3>n, <3>4, <5>2
          <6>2. QED
            BY <6>1, Zenon
        <5>3. CASE j # q /\ j # L + 1
          <6>1. m_data'[j] = m_data[j] /\ j \in 1..L /\ j > m_num_nodes
            BY ONLY <3>d, <3>n, <3>4, <5>3
          <6>2. QED
            BY <6>1, Zenon
        <5>4. QED
          BY <5>1, <5>2, <5>3, Zenon
      <4>2. QED
        BY <2>0, <3>4, <4>1 DEF Layout, ContentsMatch, ArraysTypeOK
    <3>5. QED
      BY <2>pq, <3>2, <3>3, <3>4 DEF ArraysTypeOK
  <2>10. QED
    BY <2>6, <2>7, <2>8, <2>9, Zenon DEF Layout
<1>4. QED
  BY <1>2, <1>3, Zenon

(* unset() keeps the layout: the slots behind the erased one move up, and  *)
(* the section that lost an entry is the one that shrinks.                 *)
LEMMA UnsetKeepsLayout ==
  ASSUME ArraysTypeOK, Layout, NEW t \in Threads, NEW a \in Attrs, Unset(t, a)
  PROVE  ArraysTypeOK' /\ Layout'
<1>1. CASE All(a) = {}
  <2>1. UNCHANGED arrays
    BY <1>1, Zenon DEF Unset
  <2>2. QED
    BY <2>1, Zenon DEF arrays, ArraysTypeOK, Layout, ArraysParallel, KeysUnique, Sections,
                ContentsMatch, IdVariant
<1>2. CASE All(a) # {}
  <2> DEFINE L == Len(m_keys)
  <2>1. PICK i \in 1..L : i = First(All(a))
    BY <1>2, FoundSlot DEF All, Layout, ArraysTypeOK
  <2>2. /\ m_keys' = Erase(m_keys, i)
        /\ m_data' = Erase(m_data, i)
        /\ m_nodes' = IF i <= Len(m_nodes) THEN Erase(m_nodes, i) ELSE m_nodes
        /\ i <= m_num_nodes =>
             m_num_nodes' = m_num_nodes - 1 /\ m_num_hidden' = m_num_hidden
        /\ ~(i <= m_num_nodes) =>
             /\ m_num_nodes' = m_num_nodes
             /\ m_num_hidden' = IF i <= m_num_nodes + m_num_hidden
                                THEN m_num_hidden - 1 ELSE m_num_hidden
    BY <1>2, <2>1, Zenon DEF Unset, InHidden
  <2>3. L \in Nat /\ Len(m_data) = L /\ Len(m_nodes) = m_num_nodes
    BY DEF ArraysTypeOK, Layout, ArraysParallel
  <2>4. /\ m_keys' \in Seq(Attrs)
        /\ Len(m_keys') = L - 1
        /\ \A j \in 1..(L - 1) : m_keys'[j] = IF j < i THEN m_keys[j] ELSE m_keys[j + 1]
    BY <2>1, <2>2, EraseFacts, Zenon DEF ArraysTypeOK
  <2>5. /\ m_data' \in Seq(Contents)
        /\ Len(m_data') = L - 1
        /\ \A j \in 1..(L - 1) : m_data'[j] = IF j < i THEN m_data[j] ELSE m_data[j + 1]
    <3>1. m_data \in Seq(Contents) /\ i \in 1..Len(m_data)
      BY <2>1, <2>3, Zenon DEF ArraysTypeOK
    <3>2. /\ m_data' \in Seq(Contents)
          /\ Len(m_data') = Len(m_data) - 1
          /\ \A j \in 1..(Len(m_data) - 1) : m_data'[j] = IF j < i THEN m_data[j] ELSE m_data[j + 1]
      BY <2>2, <3>1, EraseFacts, Zenon
    <3>3. QED
      BY <2>3, <3>2, Zenon
  <2> DEFINE From(j) == IF j < i THEN j ELSE j + 1
  <2>6. \A j \in 1..(L - 1) : /\ From(j) \in 1..L
                             /\ m_keys'[j] = m_keys[From(j)]
                             /\ m_data'[j] = m_data[From(j)]
    BY <2>1, <2>3, <2>4, <2>5
  <2>7. \A j, k \in 1..(L - 1) : From(j) = From(k) => j = k
    BY <2>1, <2>3
  <2>8. KeysUnique'
    <3> HIDE DEF From
    <3>1. \A j, k \in 1..L : m_keys[j] = m_keys[k] => j = k
      BY Zenon DEF Layout, KeysUnique
    <3>2. \A j, k \in 1..(L - 1) : m_keys'[j] = m_keys'[k] => j = k
      <4> SUFFICES ASSUME NEW j \in 1..(L - 1), NEW k \in 1..(L - 1), m_keys'[j] = m_keys'[k]
                   PROVE  j = k
        BY Zenon
      <4>1. /\ From(j) \in 1..L /\ m_keys'[j] = m_keys[From(j)]
            /\ From(k) \in 1..L /\ m_keys'[k] = m_keys[From(k)]
        BY <2>6, Zenon
      <4>2. From(j) = From(k)
        BY ONLY <3>1, <4>1, m_keys'[j] = m_keys'[k], Zenon
      <4>3. QED
        BY <2>7, <4>2, Zenon
    <3>3. QED
      BY <2>4, <3>2, Zenon DEF KeysUnique
  <2>9. CASE i <= m_num_nodes
    <3>1. m_num_nodes' = m_num_nodes - 1 /\ m_num_hidden' = m_num_hidden
      BY <2>2, <2>9, Zenon
    <3>2. m_nodes' = Erase(m_nodes, i) /\ i \in 1..Len(m_nodes) /\ m_nodes \in Seq(Nodes)
      BY <2>1, <2>2, <2>3, <2>9 DEF ArraysTypeOK
    <3>3. /\ m_nodes' \in Seq(Nodes)
          /\ Len(m_nodes') = Len(m_nodes) - 1
          /\ \A j \in 1..(Len(m_nodes) - 1) :
               m_nodes'[j] = IF j < i THEN m_nodes[j] ELSE m_nodes[j + 1]
      BY ONLY <3>2, EraseFacts, ZenonT(60)
    <3>4. ArraysTypeOK' /\ ArraysParallel'
      BY <2>1, <2>3, <2>4, <2>5, <2>9, <3>1, <3>3 DEF ArraysTypeOK, Layout, ArraysParallel
    <3>5. Sections'
      <4> SUFFICES ASSUME NEW j \in 1..(L - 1)
                   PROVE  /\ m_keys'[j] \in RefAttrs <=> j <= m_num_nodes - 1
                          /\ m_keys'[j] \in AsValue \cap Hidden <=>
                               /\ m_num_nodes - 1 < j
                               /\ j <= m_num_nodes - 1 + m_num_hidden
        BY <2>4, <3>1, Zenon DEF Sections
      <4>1. From(j) <= m_num_nodes <=> j <= m_num_nodes - 1
        BY <2>1, <2>3, <2>9 DEF ArraysTypeOK
      <4>2. From(j) <= m_num_nodes + m_num_hidden <=> j <= m_num_nodes - 1 + m_num_hidden
        BY <2>1, <2>3, <2>9 DEF ArraysTypeOK
      <4>3. m_num_nodes < From(j) <=> m_num_nodes - 1 < j
        BY <2>1, <2>3, <2>9 DEF ArraysTypeOK
      <4> HIDE DEF From
      <4>4. PICK k \in 1..L : k = From(j) /\ m_keys'[j] = m_keys[k]
        BY <2>6, Zenon
      <4>5. /\ m_keys[k] \in RefAttrs <=> k <= m_num_nodes
            /\ m_keys[k] \in AsValue \cap Hidden <=>
                 m_num_nodes < k /\ k <= m_num_nodes + m_num_hidden
        BY Zenon DEF Layout, Sections
      <4>6. QED
        BY <4>1, <4>2, <4>3, <4>4, <4>5, Zenon
    <3>6. ContentsMatch'
      <4> SUFFICES ASSUME NEW j \in 1..(L - 1)
                   PROVE  IF j <= m_num_nodes - 1 THEN m_data'[j] = IdVariant(m_nodes'[j])
                                                  ELSE m_data'[j] \in Values \cup {Empty}
        BY <2>4, <3>1, ZenonT(60) DEF ContentsMatch, IdVariant
      <4>1. From(j) <= m_num_nodes <=> j <= m_num_nodes - 1
        BY <2>1, <2>3, <2>9 DEF ArraysTypeOK
      <4>2. j <= m_num_nodes - 1 => m_nodes'[j] = m_nodes[From(j)]
        BY <2>3, <3>3 DEF ArraysTypeOK
      <4> HIDE DEF From
      <4>3. QED
        BY <2>3, <2>6, <4>1, <4>2, Zenon DEF Layout, ContentsMatch, ArraysTypeOK
    <3>7. QED
      BY <2>8, <3>4, <3>5, <3>6, Zenon DEF Layout
  <2>10. CASE i > m_num_nodes
    <3>1. /\ m_num_nodes' = m_num_nodes /\ m_nodes' = m_nodes
          /\ m_num_hidden' = IF i <= m_num_nodes + m_num_hidden
                             THEN m_num_hidden - 1 ELSE m_num_hidden
      BY <2>1, <2>2, <2>3, <2>10 DEF ArraysTypeOK
    <3>2. ArraysTypeOK' /\ ArraysParallel'
      BY <2>1, <2>3, <2>4, <2>5, <2>10, <3>1 DEF ArraysTypeOK, Layout, ArraysParallel
    <3>3. Sections'
      <4> SUFFICES ASSUME NEW j \in 1..(L - 1)
                   PROVE  /\ m_keys'[j] \in RefAttrs <=> j <= m_num_nodes
                          /\ m_keys'[j] \in AsValue \cap Hidden <=>
                               m_num_nodes < j /\ j <= m_num_nodes + m_num_hidden'
        BY <2>4, <3>1, Zenon DEF Sections
      <4>1. From(j) <= m_num_nodes <=> j <= m_num_nodes
        BY <2>1, <2>3, <2>10 DEF ArraysTypeOK
      <4>2. m_num_nodes < From(j) <=> m_num_nodes < j
        BY <2>1, <2>3, <2>10 DEF ArraysTypeOK
      <4>3. From(j) <= m_num_nodes + m_num_hidden <=> j <= m_num_nodes + m_num_hidden'
        <5>1. CASE i <= m_num_nodes + m_num_hidden
          <6>1. m_num_hidden' = m_num_hidden - 1
            BY <3>1, <5>1, Zenon
          <6>2. QED
            BY <2>1, <2>3, <5>1, <6>1 DEF ArraysTypeOK
        <5>2. CASE ~(i <= m_num_nodes + m_num_hidden)
          <6>1. m_num_hidden' = m_num_hidden
            BY <3>1, <5>2, Zenon
          <6>2. QED
            BY <2>1, <2>3, <5>2, <6>1 DEF ArraysTypeOK
        <5>3. QED
          BY <5>1, <5>2, Zenon
      <4> HIDE DEF From
      <4>4. PICK k \in 1..L : k = From(j) /\ m_keys'[j] = m_keys[k]
        BY <2>6, Zenon
      <4>5. /\ m_keys[k] \in RefAttrs <=> k <= m_num_nodes
            /\ m_keys[k] \in AsValue \cap Hidden <=>
                 m_num_nodes < k /\ k <= m_num_nodes + m_num_hidden
        BY Zenon DEF Layout, Sections
      <4>6. QED
        BY <4>1, <4>2, <4>3, <4>4, <4>5, Zenon
    <3>4. ContentsMatch'
      <4> SUFFICES ASSUME NEW j \in 1..(L - 1)
                   PROVE  IF j <= m_num_nodes THEN m_data'[j] = IdVariant(m_nodes[j])
                                              ELSE m_data'[j] \in Values \cup {Empty}
        BY <2>4, <3>1, Zenon DEF ContentsMatch, IdVariant
      <4>1. /\ j <= m_num_nodes => From(j) = j
            /\ From(j) <= m_num_nodes <=> j <= m_num_nodes
        BY <2>1, <2>3, <2>10 DEF ArraysTypeOK
      <4> HIDE DEF From
      <4>2. QED
        BY <2>3, <2>6, <4>1, Zenon DEF Layout, ContentsMatch, ArraysTypeOK
    <3>5. QED
      BY <2>8, <3>2, <3>3, <3>4, Zenon DEF Layout
  <2>11. QED
    BY <2>1, <2>3, <2>9, <2>10 DEF ArraysTypeOK
<1>3. QED
  BY <1>1, <1>2, Zenon

(* An exchange() that finds its key changes a value in place.              *)
LEMMA ExchangeKeepsLayout ==
  ASSUME ArraysTypeOK, Layout,
         NEW t \in Threads, NEW a \in AsValue, NEW v \in Values \cup {Empty}, Exchange(t, a, v)
  PROVE  ArraysTypeOK' /\ Layout'
<1> DEFINE at == Slots(a, m_num_nodes + 1, Len(m_keys))
<1>1. UNCHANGED <<m_keys, m_nodes, m_num_nodes, m_num_hidden>>
  BY Zenon DEF Exchange
<1>2. CASE at = {}
  <2>1. m_data' = m_data
    BY <1>2, Zenon DEF Exchange
  <2>2. QED
    BY <1>1, <2>1, Zenon DEF ArraysTypeOK, Layout, ArraysParallel, KeysUnique, Sections,
                      ContentsMatch, IdVariant
<1>3. CASE at # {}
  <2>1. PICK i : i = First(at)
    BY Zenon
  <2>2. i \in (m_num_nodes + 1)..Len(m_keys)
    <3>1. m_num_nodes + 1 \in 1..(Len(m_keys) + 1) /\ Len(m_keys) \in 0..Len(m_keys)
      BY DEF ArraysTypeOK, Layout, ArraysParallel
    <3>2. QED
      BY <1>3, <2>1, <3>1, FoundSlot, Zenon DEF Layout
  <2>3. m_data' = [m_data EXCEPT ![i] = v]
    BY <1>3, <2>1, Zenon DEF Exchange
  <2>4. ArraysTypeOK' /\ ArraysParallel'
    BY <1>1, <2>2, <2>3 DEF ArraysTypeOK, Contents, Layout, ArraysParallel
  <2>5. KeysUnique' /\ Sections'
    BY <1>1, Zenon DEF Layout, KeysUnique, Sections
  <2>6. ContentsMatch'
    BY <1>1, <2>2, <2>3 DEF Layout, ContentsMatch, ArraysParallel, ArraysTypeOK, IdVariant
  <2>7. QED
    BY <2>4, <2>5, <2>6, Zenon DEF Layout
<1>4. QED
  BY <1>2, <1>3, Zenon

(* TypeOK and Layout together are inductive.                               *)
LEMMA Inductive == TypeOK /\ Layout /\ [Next]_vars => TypeOK' /\ Layout'
<1> SUFFICES ASSUME TypeOK, Layout, [Next]_vars
             PROVE  TypeOK' /\ Layout'
  BY Zenon
<1> USE AttrAssumption
<1> USE DEF TypeOK
<1>1. ASSUME NEW t \in Threads, NEW a \in AsValue, NEW v \in Values, Set(t, a, v)
      PROVE  TypeOK' /\ Layout'
  BY <1>1, SetEntryKeepsLayout, Zenon DEF Set
<1>2. ASSUME NEW t \in Threads, NEW a \in AsValue, NEW v \in Values \cup {Empty}, Exchange(t, a, v)
      PROVE  TypeOK' /\ Layout'
  <2>1. pending' \in [Threads -> {Idle} \cup Pending]
    BY <1>2, Zenon DEF Exchange, Pending
  <2>2. QED
    BY <1>2, <2>1, ExchangeKeepsLayout, Zenon
<1>3. ASSUME NEW t \in Threads, ExchangeSet(t)
      PROVE  TypeOK' /\ Layout'
  <2>1. pending[t].attr \in AsValue /\ pending[t].val \in Values \cup {Empty}
    BY <1>3, Zenon DEF ExchangeSet, Pending
  <2>2. pending' \in [Threads -> {Idle} \cup Pending]
    BY <1>3, Zenon DEF ExchangeSet
  <2>3. QED
    BY <1>3, <2>1, <2>2, SetEntryKeepsLayout, Zenon DEF ExchangeSet
<1>4. ASSUME NEW t \in Threads, NEW a \in RefAttrs, NEW n \in Nodes, SetNode(t, a, n)
      PROVE  TypeOK' /\ Layout'
  <2>1. pending' = pending
    BY <1>4, Zenon DEF SetNode
  <2>2. QED
    BY <1>4, <2>1, SetNodeKeepsLayout, Zenon
<1>5. ASSUME NEW t \in Threads, NEW a \in Attrs, Unset(t, a)
      PROVE  TypeOK' /\ Layout'
  <2>1. pending' = pending
    BY <1>5, Zenon DEF Unset
  <2>2. QED
    BY <1>5, <2>1, UnsetKeepsLayout, Zenon
<1>6. ASSUME UNCHANGED <<arrays, pending>>
      PROVE  TypeOK' /\ Layout'
  BY <1>6, Zenon DEF arrays, ArraysTypeOK, Layout, ArraysParallel, KeysUnique, Sections,
              ContentsMatch, IdVariant
<1>7. \A a \in AsValue : BB!Exchangeable(a) \subseteq Values \cup {Empty}
  BY Zenon DEF BB!Exchangeable
<1>8. QED
  BY <1>1, <1>2, <1>3, <1>4, <1>5, <1>6, <1>7, ZenonT(60) DEF Next, Get, Snapshot, vars, arrays

(* For any number of threads, attributes and contents, the array layout    *)
(* that ContextBuffer.cpp:61-65 describes holds after every call.          *)
THEOREM LayoutAlways == Spec => [](TypeOK /\ Layout)
<1>1. Init => TypeOK /\ Layout
  BY DEF Init, TypeOK, ArraysTypeOK, Layout, ArraysParallel, KeysUnique, Sections,
         ContentsMatch
<1>2. QED
  BY <1>1, Inductive, PTL DEF Spec
-----------------------------------------------------------------------------
(* The refinement of Blackboard.                                           *)

(* What the board says of slot i.                                          *)
Slot(d, ns, nn, i) == IF i <= nn THEN ns[i] ELSE d[i]

Unique(k) == \A i, j \in 1..Len(k) : k[i] = k[j] => i = j

(* Board, of any arrays.                                                   *)
BoardOf(k, d, ns, nn) ==
  [a \in Attrs |->
    LET at == {i \in 1..Len(k) : k[i] = a}
        i  == CHOOSE i \in at : TRUE
    IN  IF at = {} THEN Empty ELSE Slot(d, ns, nn, i)]

LEMMA BoardIs ==
  /\ Board = BoardOf(m_keys, m_data, m_nodes, m_num_nodes)
  /\ Board' = BoardOf(m_keys', m_data', m_nodes', m_num_nodes')
BY Zenon DEF Board, BoardOf, Slot

(* A key's content is that of its only slot.                               *)
LEMMA BoardSlot ==
  ASSUME NEW k \in Seq(Attrs), Unique(k), NEW d, NEW ns, NEW nn, NEW i \in 1..Len(k)
  PROVE  BoardOf(k, d, ns, nn)[k[i]] = Slot(d, ns, nn, i)
<1>1. k[i] \in Attrs
  OBVIOUS
<1>2. {j \in 1..Len(k) : k[j] = k[i]} = {i}
  BY Zenon DEF Unique
<1>3. (CHOOSE j \in {i} : TRUE) = i
  BY Zenon
<1>4. QED
  BY <1>1, <1>2, <1>3, Zenon DEF BoardOf

(* A key without a slot has no content.                                    *)
LEMMA BoardAbsent ==
  ASSUME NEW k, NEW d, NEW ns, NEW nn, NEW a \in Attrs, \A i \in 1..Len(k) : k[i] # a
  PROVE  BoardOf(k, d, ns, nn)[a] = Empty
<1>1. {j \in 1..Len(k) : k[j] = a} = {}
  BY Zenon
<1>2. QED
  BY <1>1, Zenon DEF BoardOf

(* The arrays k2, d2, ns2 keep the entries of k, d, ns, but for key a, in  *)
(* whatever slots.                                                         *)
KeepOthers(k, d, ns, nn, k2, d2, ns2, nn2, a) ==
  /\ \A j \in 1..Len(k2) : k2[j] # a =>
       \E i \in 1..Len(k) : k[i] = k2[j] /\ Slot(d, ns, nn, i) = Slot(d2, ns2, nn2, j)
  /\ \A i \in 1..Len(k) : k[i] # a => \E j \in 1..Len(k2) : k2[j] = k[i]

LEMMA OthersKept ==
  ASSUME NEW k \in Seq(Attrs), Unique(k), NEW d, NEW ns, NEW nn,
         NEW k2 \in Seq(Attrs), Unique(k2), NEW d2, NEW ns2, NEW nn2, NEW a,
         KeepOthers(k, d, ns, nn, k2, d2, ns2, nn2, a),
         NEW b \in Attrs \ {a}
  PROVE  BoardOf(k2, d2, ns2, nn2)[b] = BoardOf(k, d, ns, nn)[b]
<1>1. CASE \E j \in 1..Len(k2) : k2[j] = b
  <2>1. PICK j \in 1..Len(k2) : k2[j] = b
    BY <1>1, Zenon
  <2>2. PICK i \in 1..Len(k) : k[i] = b /\ Slot(d, ns, nn, i) = Slot(d2, ns2, nn2, j)
    BY <2>1, Zenon DEF KeepOthers
  <2>3. BoardOf(k2, d2, ns2, nn2)[b] = Slot(d2, ns2, nn2, j)
    BY <2>1, BoardSlot
  <2>4. BoardOf(k, d, ns, nn)[b] = Slot(d, ns, nn, i)
    BY <2>2, BoardSlot
  <2>5. QED
    BY <2>2, <2>3, <2>4, Zenon
<1>2. CASE ~ \E j \in 1..Len(k2) : k2[j] = b
  <2>1. \A i \in 1..Len(k) : k[i] # b
    BY <1>2, Zenon DEF KeepOthers
  <2>2. QED
    BY <1>2, <2>1, BoardAbsent
<1>3. QED
  BY <1>1, <1>2, Zenon

(* A step that leaves key a with content c and keeps the other entries.    *)
Writes(a, c) ==
  /\ Board' = [Board EXCEPT ![a] = c]
  /\ \A j \in 1..Len(m_keys') :
       m_keys'[j] # a => \E i \in 1..Len(m_keys) : m_keys[i] = m_keys'[j]

(* What a step has to do to the arrays to be one.                          *)
LEMMA WritesIf ==
  ASSUME ArraysTypeOK, Layout, ArraysTypeOK', Layout', NEW a \in Attrs, NEW c,
         KeepOthers(m_keys, m_data, m_nodes, m_num_nodes,
                    m_keys', m_data', m_nodes', m_num_nodes', a),
         BoardOf(m_keys', m_data', m_nodes', m_num_nodes')[a] = c
  PROVE  Writes(a, c)
<1>1. /\ m_keys \in Seq(Attrs) /\ Unique(m_keys)
      /\ m_keys' \in Seq(Attrs) /\ Unique(m_keys')
  BY Zenon DEF ArraysTypeOK, Layout, KeysUnique, Unique
<1>2. \A b \in Attrs \ {a} : Board'[b] = Board[b]
  BY <1>1, BoardIs, OthersKept
<1>3. Board'[a] = c
  BY BoardIs, Zenon
<1>4. Board = [b \in Attrs |-> Board[b]] /\ Board' = [b \in Attrs |-> Board'[b]]
  <2>1. Board = [b \in Attrs |-> Board[b]]
    BY DEF Board
  <2>2. Board' = [b \in Attrs |-> Board'[b]]
    BY DEF Board
  <2>3. QED
    BY <2>1, <2>2, Zenon
<1>5. Board' = [Board EXCEPT ![a] = c]
  BY <1>2, <1>3, <1>4, Zenon
<1>6. QED
  BY <1>5, Zenon DEF Writes, KeepOthers

(* set() writes the value.                                                 *)
LEMMA SetEntryWrites ==
  ASSUME ArraysTypeOK, Layout,
         NEW a \in AsValue, NEW v \in Values \cup {Empty}, SetEntry(a, v)
  PROVE  Writes(a, v)
<1> USE AttrAssumption
<1>0. ArraysTypeOK' /\ Layout'
  BY SetEntryKeepsLayout, Zenon
<1>1. CASE All(a) # {}
  <2>1. PICK i : i = First(All(a))
    BY Zenon
  <2>2. i \in 1..Len(m_keys) /\ m_keys[i] = a
    BY <1>1, <2>1, FoundSlot DEF All, Layout, ArraysTypeOK
  <2>3. /\ m_data' = [m_data EXCEPT ![i] = v]
        /\ UNCHANGED <<m_keys, m_nodes, m_num_nodes, m_num_hidden>>
    BY <1>1, <2>1, Zenon DEF SetEntry
  <2>4. i > m_num_nodes /\ m_data'[i] = v
    BY <2>2, <2>3 DEF Layout, Sections, ArraysParallel, RefAttrs, ArraysTypeOK
  <2>5. \A j \in 1..Len(m_keys) : j # i =>
          Slot(m_data, m_nodes, m_num_nodes, j) = Slot(m_data', m_nodes, m_num_nodes, j)
    BY <2>2, <2>3 DEF Slot, ArraysTypeOK, Layout, ArraysParallel
  <2>6. KeepOthers(m_keys, m_data, m_nodes, m_num_nodes,
                   m_keys', m_data', m_nodes', m_num_nodes', a)
    BY <2>2, <2>3, <2>5, ZenonT(60) DEF KeepOthers
  <2>7. BoardOf(m_keys', m_data', m_nodes', m_num_nodes')[a] = v
    <3>1. m_keys' \in Seq(Attrs) /\ Unique(m_keys') /\ i \in 1..Len(m_keys') /\ m_keys'[i] = a
      BY <1>0, <2>2, <2>3, Zenon DEF ArraysTypeOK, Layout, KeysUnique, Unique
    <3>2. Slot(m_data', m_nodes', m_num_nodes', i) = v
      BY <2>2, <2>3, <2>4 DEF Slot, ArraysTypeOK
    <3>3. QED
      BY <3>1, <3>2, BoardSlot, Zenon
  <2>8. QED
    BY <1>0, <2>6, <2>7, WritesIf, Zenon
<1>2. CASE All(a) = {}
  <2>0. PICK n, L : n = Place(a) /\ L = Len(m_keys)
    BY Zenon
  <2>1. /\ n \in 1..(L + 1) /\ n > m_num_nodes + m_num_hidden
        /\ m_nodes' = m_nodes /\ m_num_nodes' = m_num_nodes /\ Len(m_data) = L
        /\ Inserted(Attrs, m_keys', m_keys, a, n)
        /\ Inserted(Contents, m_data', m_data, v, n)
    BY <1>2, <2>0, SetEntryInserts, Zenon
  <2>2. /\ L \in Nat /\ m_num_nodes \in Nat /\ m_num_hidden \in Nat /\ n > m_num_nodes
    BY <2>0, <2>1 DEF ArraysTypeOK
  <2>3. /\ Len(m_keys') = L + 1
        /\ \A i \in 1..(L + 1) :
             /\ m_keys'[i] = IF i = n THEN a ELSE IF i = L + 1 THEN m_keys[n] ELSE m_keys[i]
             /\ m_data'[i] = IF i = n THEN v ELSE IF i = L + 1 THEN m_data[n] ELSE m_data[i]
    BY <2>0, <2>1, Zenon DEF Inserted
  <2>4. \A j \in 1..(L + 1) : j # n =>
          LET i == IF j = L + 1 THEN n ELSE j
          IN  /\ i \in 1..L /\ m_keys[i] = m_keys'[j]
              /\ Slot(m_data, m_nodes, m_num_nodes, i) =
                   Slot(m_data', m_nodes', m_num_nodes', j)
    BY <2>1, <2>2, <2>3 DEF Slot
  <2>5. \A i \in 1..L : LET j == IF i = n THEN L + 1 ELSE i
                        IN  j \in 1..(L + 1) /\ m_keys'[j] = m_keys[i]
    BY <2>1, <2>2, <2>3
  <2>6. m_keys'[n] = a /\ Slot(m_data', m_nodes', m_num_nodes', n) = v
    BY <2>1, <2>2, <2>3 DEF Slot
  <2>7. KeepOthers(m_keys, m_data, m_nodes, m_num_nodes,
                   m_keys', m_data', m_nodes', m_num_nodes', a)
    BY <2>0, <2>3, <2>4, <2>5, <2>6, Zenon DEF KeepOthers
  <2>8. BoardOf(m_keys', m_data', m_nodes', m_num_nodes')[a] = v
    <3>1. m_keys' \in Seq(Attrs) /\ Unique(m_keys') /\ n \in 1..Len(m_keys')
      BY <1>0, <2>1, <2>3, ZenonT(60) DEF ArraysTypeOK, Layout, KeysUnique, Unique
    <3>2. QED
      BY <2>6, <3>1, BoardSlot, Zenon
  <2>9. QED
    BY <1>0, <2>7, <2>8, WritesIf, Zenon
<1>3. QED
  BY <1>1, <1>2, Zenon

(* set_node() writes the node.                                             *)
LEMMA SetNodeWrites ==
  ASSUME ArraysTypeOK, Layout,
         NEW t \in Threads, NEW a \in RefAttrs, NEW n \in Nodes, SetNode(t, a, n)
  PROVE  Writes(a, n)
<1> USE AttrAssumption
<1>0. ArraysTypeOK' /\ Layout' /\ a \in Attrs
  BY SetNodeKeepsLayout, Zenon DEF RefAttrs
<1>1. CASE Slots(a, 1, m_num_nodes) # {}
  <2>1. PICK i : i = First(Slots(a, 1, m_num_nodes))
    BY Zenon
  <2>2. i \in 1..m_num_nodes /\ m_keys[i] = a
    BY <1>1, <2>1, FoundSlot DEF Layout, ArraysTypeOK, ArraysParallel
  <2>3. /\ m_data' = [m_data EXCEPT ![i] = IdVariant(n)]
        /\ m_nodes' = [m_nodes EXCEPT ![i] = n]
        /\ m_keys' = m_keys /\ m_num_nodes' = m_num_nodes
    BY <1>1, <2>1, Zenon DEF SetNode
  <2>4. /\ i \in 1..Len(m_keys) /\ m_nodes'[i] = n
        /\ \A j \in 1..Len(m_keys) : j # i =>
             Slot(m_data, m_nodes, m_num_nodes, j) = Slot(m_data', m_nodes', m_num_nodes, j)
    BY <2>2, <2>3 DEF Slot, ArraysTypeOK, Layout, ArraysParallel
  <2>5. KeepOthers(m_keys, m_data, m_nodes, m_num_nodes,
                   m_keys', m_data', m_nodes', m_num_nodes', a)
    BY <2>2, <2>3, <2>4, ZenonT(60) DEF KeepOthers
  <2>6. BoardOf(m_keys', m_data', m_nodes', m_num_nodes')[a] = n
    <3>1. m_keys' \in Seq(Attrs) /\ Unique(m_keys') /\ i \in 1..Len(m_keys') /\ m_keys'[i] = a
      BY <1>0, <2>2, <2>3, <2>4, Zenon DEF ArraysTypeOK, Layout, KeysUnique, Unique
    <3>2. Slot(m_data', m_nodes', m_num_nodes', i) = n
      BY <2>2, <2>3, <2>4 DEF Slot, ArraysTypeOK
    <3>3. QED
      BY <3>1, <3>2, BoardSlot, Zenon
  <2>7. QED
    BY <1>0, <2>5, <2>6, WritesIf, Zenon
<1>2. CASE Slots(a, 1, m_num_nodes) = {}
  <2>0. PICK p, q, L : /\ p = m_num_nodes + 1 /\ q = m_num_nodes + m_num_hidden + 1
                       /\ L = Len(m_keys)
    BY Zenon
  <2>1. /\ L \in Nat /\ Len(m_data) = L /\ p \in Nat /\ q \in Nat /\ p <= q /\ q <= L + 1
        /\ p \in 1..(L + 1)
        /\ m_nodes' = Append(m_nodes, n) /\ m_num_nodes' = p
        /\ MovedIn(Attrs, m_keys', m_keys, a, p, q)
        /\ MovedIn(Contents, m_data', m_data, IdVariant(n), p, q)
    BY <1>2, <2>0, SetNodeMoves
  <2>2. /\ Len(m_keys') = L + 1
        /\ \A j \in 1..(L + 1) :
             m_keys'[j] = IF j = p THEN a ELSE IF j = q THEN m_keys[p]
                          ELSE IF j = L + 1 THEN m_keys[q] ELSE m_keys[j]
    BY <2>0, <2>1, Zenon DEF MovedIn
  <2>3. \A j \in 1..(L + 1) :
          m_data'[j] = IF j = p THEN IdVariant(n) ELSE IF j = q THEN m_data[p]
                       ELSE IF j = L + 1 THEN m_data[q] ELSE m_data[j]
    BY ONLY <2>1, Zenon DEF MovedIn
  <2>4. /\ m_num_nodes \in Nat /\ p = m_num_nodes + 1
        /\ \A j \in 1..p : m_nodes'[j] = IF j = p THEN n ELSE m_nodes[j]
    BY <2>0, <2>1 DEF Layout, ArraysParallel, ArraysTypeOK
  <2>n. /\ L \in Nat /\ p \in Nat /\ q \in Nat /\ p <= q /\ q <= L + 1 /\ p >= 1
        /\ m_num_nodes \in Nat /\ p = m_num_nodes + 1
    BY <2>1, <2>4
  <2>5. \A j \in 1..(L + 1) : j # p =>
          LET i == IF j = q THEN p ELSE IF j = L + 1 THEN q ELSE j
          IN  /\ i \in 1..L /\ m_keys[i] = m_keys'[j]
              /\ Slot(m_data, m_nodes, m_num_nodes, i) =
                   Slot(m_data', m_nodes', m_num_nodes', j)
    <3> SUFFICES ASSUME NEW j \in 1..(L + 1), j # p,
                        NEW i, i = IF j = q THEN p ELSE IF j = L + 1 THEN q ELSE j
                 PROVE  /\ i \in 1..L /\ m_keys[i] = m_keys'[j]
                        /\ Slot(m_data, m_nodes, m_num_nodes, i) =
                             Slot(m_data', m_nodes', m_num_nodes', j)
      BY Zenon
    <3>1. i \in 1..L /\ m_keys[i] = m_keys'[j]
      BY ONLY <2>1, <2>2, j \in 1..(L + 1), j # p,
              i = IF j = q THEN p ELSE IF j = L + 1 THEN q ELSE j
    <3>2. m_data[i] = m_data'[j]
      BY ONLY <2>1, <2>3, j \in 1..(L + 1), j # p,
              i = IF j = q THEN p ELSE IF j = L + 1 THEN q ELSE j, Zenon
    <3>3. (j <= p <=> i <= m_num_nodes) /\ (j <= p => i = j /\ j \in 1..p)
      BY ONLY <2>n, j \in 1..(L + 1), j # p,
              i = IF j = q THEN p ELSE IF j = L + 1 THEN q ELSE j
    <3>4. j <= p => m_nodes'[j] = m_nodes[i]
      BY ONLY <2>4, <3>3, j # p, Zenon
    <3>5. m_num_nodes' = p
      BY <2>1, Zenon
    <3>6. QED
      BY ONLY <3>1, <3>2, <3>3, <3>4, <3>5, Zenon DEF Slot
  <2>6. \A i \in 1..L : LET j == IF i = q THEN L + 1 ELSE IF i = p THEN q ELSE i
                        IN  j \in 1..(L + 1) /\ (p # q => m_keys'[j] = m_keys[i])
    BY ONLY <2>1, <2>2
  <2>7. p = q => \A i \in 1..L : LET j == IF i = p THEN L + 1 ELSE i
                                IN  j \in 1..(L + 1) /\ m_keys'[j] = m_keys[i]
    BY ONLY <2>1, <2>2
  <2>8. m_keys'[p] = a /\ Slot(m_data', m_nodes', m_num_nodes', p) = n
    <3>1. m_keys'[p] = a
      BY ONLY <2>n, <2>2
    <3>2. m_num_nodes' = p /\ p <= p /\ m_nodes'[p] = n
      <4>1. m_nodes'[p] = n
        BY ONLY <2>n, <2>4
      <4>2. QED
        BY <2>n, <2>1, <4>1
    <3>3. QED
      BY ONLY <3>1, <3>2, Zenon DEF Slot
  <2>9. KeepOthers(m_keys, m_data, m_nodes, m_num_nodes,
                   m_keys', m_data', m_nodes', m_num_nodes', a)
    <3>1. \A j \in 1..Len(m_keys') : m_keys'[j] # a =>
            \E i \in 1..Len(m_keys) :
              /\ m_keys[i] = m_keys'[j]
              /\ Slot(m_data, m_nodes, m_num_nodes, i) =
                   Slot(m_data', m_nodes', m_num_nodes', j)
      BY ONLY <2>0, <2>2, <2>5, <2>8, Zenon
    <3>2. \A i \in 1..Len(m_keys) : \E j \in 1..Len(m_keys') : m_keys'[j] = m_keys[i]
      BY ONLY <2>0, <2>2, <2>6, <2>7, Zenon
    <3>3. QED
      BY ONLY <3>1, <3>2, ZenonT(60) DEF KeepOthers
  <2>10. BoardOf(m_keys', m_data', m_nodes', m_num_nodes')[a] = n
    <3>1. m_keys' \in Seq(Attrs) /\ Unique(m_keys') /\ p \in 1..Len(m_keys')
      BY <1>0, <2>1, <2>2, Zenon DEF ArraysTypeOK, Layout, KeysUnique, Unique
    <3>2. QED
      BY <2>8, <3>1, BoardSlot, Zenon
  <2>11. QED
    BY <1>0, <2>9, <2>10, WritesIf, Zenon
<1>3. QED
  BY <1>1, <1>2, Zenon

(* unset() writes nothing in the key's place, and leaves it no entry.      *)
LEMMA UnsetWrites ==
  ASSUME ArraysTypeOK, Layout, NEW t \in Threads, NEW a \in Attrs, Unset(t, a)
  PROVE  Writes(a, Empty) /\ \A j \in 1..Len(m_keys') : m_keys'[j] # a
<1>0. ArraysTypeOK' /\ Layout'
  BY UnsetKeepsLayout, Zenon
<1>1. CASE All(a) = {}
  <2>1. UNCHANGED arrays
    BY <1>1, Zenon DEF Unset
  <2>2. \A i \in 1..Len(m_keys) : m_keys[i] # a
    BY <1>1, Zenon DEF All, Slots
  <2>3. KeepOthers(m_keys, m_data, m_nodes, m_num_nodes,
                   m_keys', m_data', m_nodes', m_num_nodes', a)
    BY <2>1, Zenon DEF KeepOthers, arrays
  <2>4. BoardOf(m_keys', m_data', m_nodes', m_num_nodes')[a] = Empty
    BY <2>1, <2>2, BoardAbsent, Zenon DEF arrays
  <2>5. QED
    BY <1>0, <2>1, <2>2, <2>3, <2>4, WritesIf, Zenon DEF arrays
<1>2. CASE All(a) # {}
  <2>0. PICK L : L = Len(m_keys)
    BY ZenonT(60)
  <2>1. PICK i \in 1..L : i = First(All(a)) /\ m_keys[i] = a
    BY <1>2, <2>0, FoundSlot DEF All, Layout, ArraysTypeOK
  <2>2. /\ m_keys' = Erase(m_keys, i)
        /\ m_data' = Erase(m_data, i)
        /\ m_nodes' = IF i <= Len(m_nodes) THEN Erase(m_nodes, i) ELSE m_nodes
        /\ m_num_nodes' = IF i <= m_num_nodes THEN m_num_nodes - 1 ELSE m_num_nodes
    BY <1>2, <2>1, Zenon DEF Unset
  <2>3. /\ L \in Nat /\ Len(m_data) = L /\ Len(m_nodes) = m_num_nodes
        /\ m_num_nodes \in Nat /\ m_num_nodes <= L
        /\ m_keys \in Seq(Attrs) /\ m_data \in Seq(Contents) /\ m_nodes \in Seq(Nodes)
    BY <2>0 DEF ArraysTypeOK, Layout, ArraysParallel
  <2>4. /\ Len(m_keys') = L - 1
        /\ \A j \in 1..(L - 1) : m_keys'[j] = IF j < i THEN m_keys[j] ELSE m_keys[j + 1]
    BY <2>0, <2>1, <2>2, <2>3, EraseFacts, ZenonT(60)
  <2>5. \A j \in 1..(L - 1) : m_data'[j] = IF j < i THEN m_data[j] ELSE m_data[j + 1]
    BY <2>1, <2>2, <2>3, EraseFacts, Zenon
  <2>6. i <= m_num_nodes =>
          \A j \in 1..(m_num_nodes - 1) :
            m_nodes'[j] = IF j < i THEN m_nodes[j] ELSE m_nodes[j + 1]
    <3> SUFFICES ASSUME i <= m_num_nodes
                 PROVE  \A j \in 1..(m_num_nodes - 1) :
                          m_nodes'[j] = IF j < i THEN m_nodes[j] ELSE m_nodes[j + 1]
      BY Zenon
    <3>1. m_nodes' = Erase(m_nodes, i) /\ i \in 1..Len(m_nodes)
      BY <2>1, <2>2, <2>3
    <3>2. QED
      BY ONLY <2>3, <3>1, EraseFacts, ZenonT(60)
  <2>7. i > m_num_nodes => m_nodes' = m_nodes
    BY <2>1, <2>2, <2>3
  <2>8. /\ i \in 1..L /\ L \in Nat /\ m_num_nodes \in Nat /\ m_num_nodes <= L
        /\ m_num_nodes' = IF i <= m_num_nodes THEN m_num_nodes - 1 ELSE m_num_nodes
    BY <2>2, <2>3, Zenon
  <2>9. \A j \in 1..(L - 1) :
          LET k == IF j < i THEN j ELSE j + 1
          IN  /\ k \in 1..L /\ k # i /\ m_keys[k] = m_keys'[j]
              /\ Slot(m_data, m_nodes, m_num_nodes, k) =
                   Slot(m_data', m_nodes', m_num_nodes', j)
    <3> SUFFICES ASSUME NEW j \in 1..(L - 1), NEW k, k = IF j < i THEN j ELSE j + 1
                 PROVE  /\ k \in 1..L /\ k # i /\ m_keys[k] = m_keys'[j]
                        /\ Slot(m_data, m_nodes, m_num_nodes, k) =
                             Slot(m_data', m_nodes', m_num_nodes', j)
      BY Zenon
    <3>1. k \in 1..L /\ k # i
      BY ONLY <2>8, j \in 1..(L - 1), k = IF j < i THEN j ELSE j + 1
    <3>2. m_keys[k] = m_keys'[j] /\ m_data[k] = m_data'[j]
      BY ONLY <2>4, <2>5, j \in 1..(L - 1), k = IF j < i THEN j ELSE j + 1, Zenon
    <3>3. /\ k <= m_num_nodes <=> j <= m_num_nodes'
          /\ k <= m_num_nodes /\ i <= m_num_nodes => j \in 1..(m_num_nodes - 1)
          /\ k <= m_num_nodes /\ ~(i <= m_num_nodes) => j = k
      BY ONLY <2>8, j \in 1..(L - 1), k = IF j < i THEN j ELSE j + 1
    <3>4. k <= m_num_nodes => m_nodes'[j] = m_nodes[k]
      <4>1. CASE i <= m_num_nodes
        BY ONLY <2>6, <3>3, <4>1, k = IF j < i THEN j ELSE j + 1, Zenon
      <4>2. CASE i > m_num_nodes
        BY ONLY <2>7, <2>8, <3>3, <4>2
      <4>3. QED
        BY <2>8, <4>1, <4>2
    <3>5. QED
      BY ONLY <3>1, <3>2, <3>3, <3>4, Zenon DEF Slot
  <2>10. \A k \in 1..L : k # i => LET j == IF k < i THEN k ELSE k - 1
                                  IN  j \in 1..(L - 1) /\ m_keys'[j] = m_keys[k]
    BY ONLY <2>4, <2>8
  <2>11. \A k \in 1..L : m_keys[k] = a => k = i
    BY <2>0, <2>1, Zenon DEF Layout, KeysUnique
  <2>12. \A j \in 1..Len(m_keys') : m_keys'[j] # a
    BY ONLY <2>4, <2>9, <2>11, Zenon
  <2>13. KeepOthers(m_keys, m_data, m_nodes, m_num_nodes,
                    m_keys', m_data', m_nodes', m_num_nodes', a)
    <3>1. \A j \in 1..Len(m_keys') :
            \E k \in 1..Len(m_keys) :
              /\ m_keys[k] = m_keys'[j]
              /\ Slot(m_data, m_nodes, m_num_nodes, k) =
                   Slot(m_data', m_nodes', m_num_nodes', j)
      BY ONLY <2>0, <2>4, <2>9, Zenon
    <3>2. \A k \in 1..Len(m_keys) : m_keys[k] # a =>
            \E j \in 1..Len(m_keys') : m_keys'[j] = m_keys[k]
      BY ONLY <2>0, <2>1, <2>4, <2>10, Zenon
    <3>3. QED
      BY ONLY <3>1, <3>2, Zenon DEF KeepOthers
  <2>14. BoardOf(m_keys', m_data', m_nodes', m_num_nodes')[a] = Empty
    BY <2>12, BoardAbsent, Zenon
  <2>15. QED
    BY <1>0, <2>12, <2>13, <2>14, WritesIf, Zenon
<1>3. QED
  BY <1>1, <1>2, Zenon

(* exchange() finds the value of its key, if it has one, and replaces it.  *)
LEMMA ExchangeWrites ==
  ASSUME ArraysTypeOK, Layout,
         NEW t \in Threads, NEW a \in AsValue, NEW v \in Values \cup {Empty}, Exchange(t, a, v),
         NEW at, at = Slots(a, m_num_nodes + 1, Len(m_keys))
  PROVE  /\ at = {} => Board[a] = Empty /\ UNCHANGED <<arrays, last>>
         /\ at # {} => /\ Writes(a, v)
                       /\ last' = BB!Call("exchange", a, v, Board[a])
         /\ pending' = IF Board[a] = Empty
                       THEN [pending EXCEPT ![t] = [attr |-> a, val |-> v, new |-> at = {}]]
                       ELSE pending
<1> USE AttrAssumption
<1>0. ArraysTypeOK' /\ Layout'
  BY ExchangeKeepsLayout, Zenon
<1>1. CASE at = {}
  <2>1. \A i \in 1..Len(m_keys) : m_keys[i] # a
    BY <1>1 DEF Slots, Layout, Sections, ArraysParallel, RefAttrs, ArraysTypeOK
  <2>2. Board[a] = Empty
    BY <2>1, BoardIs, BoardAbsent, ZenonT(60)
  <2>3. QED
    BY <1>1, <2>2, ZenonT(60) DEF Exchange, arrays
<1>2. CASE at # {}
  <2>1. PICK i : i = First(at)
    BY Zenon
  <2>2. i \in 1..Len(m_keys) /\ i > m_num_nodes /\ m_keys[i] = a
    <3>1. m_num_nodes + 1 \in 1..(Len(m_keys) + 1) /\ Len(m_keys) \in 0..Len(m_keys)
      BY DEF ArraysTypeOK, Layout, ArraysParallel
    <3>2. QED
      BY <1>2, <2>1, <3>1, FoundSlot DEF Layout, ArraysTypeOK
  <2>3. m_keys \in Seq(Attrs) /\ Unique(m_keys)
    BY Zenon DEF ArraysTypeOK, Layout, KeysUnique, Unique
  <2>4. Board[a] = m_data[i]
    <3>1. Slot(m_data, m_nodes, m_num_nodes, i) = m_data[i]
      BY <2>2 DEF Slot, ArraysTypeOK
    <3>2. QED
      BY <2>2, <2>3, <3>1, BoardIs, BoardSlot, Zenon
  <2>5. /\ m_data' = [m_data EXCEPT ![i] = v]
        /\ UNCHANGED <<m_keys, m_nodes, m_num_nodes, m_num_hidden>>
        /\ last' = BB!Call("exchange", a, v, m_data[i])
        /\ pending' = IF m_data[i] = Empty
                      THEN [pending EXCEPT ![t] = [attr |-> a, val |-> v, new |-> at = {}]]
                      ELSE pending
    BY <1>2, <2>1, ZenonT(60) DEF Exchange
  <2>6. /\ m_data'[i] = v
        /\ \A j \in 1..Len(m_keys) : j # i =>
             Slot(m_data, m_nodes, m_num_nodes, j) = Slot(m_data', m_nodes, m_num_nodes, j)
    BY <2>2, <2>5 DEF Slot, ArraysTypeOK, Layout, ArraysParallel
  <2>7. KeepOthers(m_keys, m_data, m_nodes, m_num_nodes,
                   m_keys', m_data', m_nodes', m_num_nodes', a)
    BY <2>2, <2>5, <2>6, ZenonT(60) DEF KeepOthers
  <2>8. BoardOf(m_keys', m_data', m_nodes', m_num_nodes')[a] = v
    <3>1. Slot(m_data', m_nodes', m_num_nodes', i) = v
      BY <2>2, <2>5, <2>6 DEF Slot, ArraysTypeOK
    <3>2. QED
      BY <2>2, <2>3, <2>5, <3>1, BoardSlot, Zenon
  <2>9. Writes(a, v)
    BY <1>0, <2>7, <2>8, WritesIf, Zenon
  <2>10. QED
    BY <1>2, <2>4, <2>5, <2>9, Zenon
<1>3. QED
  BY <1>1, <1>2, ZenonT(60)

(* get() and get_node() return what the board says.                        *)
LEMMA GetReads ==
  ASSUME ArraysTypeOK, Layout, NEW t \in Threads, NEW a \in Attrs, Get(t, a)
  PROVE  last' = BB!Call("get", a, Empty, Board[a])
<1> USE AttrAssumption
<1>1. PICK at : at = IF a \in AsValue THEN All(a) ELSE Slots(a, 1, m_num_nodes)
  BY Zenon
<1>2. last' = BB!Call("get", a, Empty,
                IF at = {} THEN Empty
                ELSE IF a \in AsValue THEN m_data[First(at)] ELSE m_nodes[First(at)])
  BY <1>1, Zenon DEF Get
<1>3. CASE at = {}
  <2>1. \A i \in 1..Len(m_keys) : m_keys[i] # a
    BY <1>1, <1>3 DEF All, Slots, Layout, Sections, ArraysParallel, RefAttrs, ArraysTypeOK
  <2>2. Board[a] = Empty
    BY <2>1, BoardIs, BoardAbsent, Zenon
  <2>3. QED
    BY <1>2, <1>3, <2>2, Zenon
<1>4. CASE at # {}
  <2>1. PICK i : i = First(at)
    BY Zenon
  <2>2. i \in 1..Len(m_keys) /\ m_keys[i] = a
    <3>1. CASE a \in AsValue
      BY <1>1, <1>4, <2>1, <3>1, FoundSlot DEF All, Layout, ArraysTypeOK
    <3>2. CASE a \notin AsValue
      <4>1. m_num_nodes \in 0..Len(m_keys) /\ 1 \in 1..(Len(m_keys) + 1)
        BY DEF ArraysTypeOK, Layout, ArraysParallel
      <4>2. i \in 1..m_num_nodes /\ m_keys[i] = a
        BY <1>1, <1>4, <2>1, <3>2, <4>1, FoundSlot, Zenon DEF Layout
      <4>3. QED
        BY <4>1, <4>2
    <3>3. QED
      BY <3>1, <3>2, Zenon
  <2>3. a \in AsValue <=> ~(i <= m_num_nodes)
    BY <2>2, Zenon DEF Layout, Sections, RefAttrs
  <2>4. Board[a] = Slot(m_data, m_nodes, m_num_nodes, i)
    <3>1. m_keys \in Seq(Attrs) /\ Unique(m_keys)
      BY Zenon DEF ArraysTypeOK, Layout, KeysUnique, Unique
    <3>2. QED
      BY <2>2, <3>1, BoardIs, BoardSlot, Zenon
  <2>5. QED
    BY <1>2, <1>4, <2>1, <2>3, <2>4, Zenon DEF Slot
<1>5. QED
  BY <1>3, <1>4, Zenon

(* Only a hidden attribute has an empty value on the board.                *)
VisibleSet ==
  \A i \in 1..Len(m_keys) : m_keys[i] \notin AsValue \cap Hidden => Board[m_keys[i]] # Empty

(* A snapshot holds the visible entries of the board.                      *)
LEMMA SnapshotShows ==
  ASSUME ArraysTypeOK, Layout, VisibleSet
  PROVE  SnapshotEntries = BB!Shown(Board)
<1> USE AttrAssumption
<1>1. PICK L, nn, nh : L = Len(m_keys) /\ nn = m_num_nodes /\ nh = m_num_hidden
  BY ZenonT(60)
<1>2. L \in Nat /\ nn \in Nat /\ nh \in Nat /\ nn + nh <= L /\ Len(m_data) = L
  BY <1>1 DEF ArraysTypeOK, Layout, ArraysParallel
<1>3. \A i \in 1..L : /\ m_keys[i] \in Attrs
                      /\ Board[m_keys[i]] = IF i <= nn THEN m_nodes[i] ELSE m_data[i]
  <2>1. m_keys \in Seq(Attrs) /\ Unique(m_keys)
    BY Zenon DEF ArraysTypeOK, Layout, KeysUnique, Unique
  <2>2. QED
    BY <1>1, <2>1, BoardIs, BoardSlot DEF Slot
<1>4. \A i \in 1..L : m_keys[i] \in AsValue \cap Hidden <=> nn < i /\ i <= nn + nh
  BY <1>1, Zenon DEF Layout, Sections
<1>5. \A i \in 1..L : m_keys[i] \notin AsValue \cap Hidden => Board[m_keys[i]] # Empty
  BY <1>1, Zenon DEF VisibleSet
<1>6. \A a \in Attrs : Board[a] # Empty => \E i \in 1..L : m_keys[i] = a
  BY <1>1, BoardIs, BoardAbsent, Zenon
<1>7. PICK V : V = Attrs \ (AsValue \cap Hidden)
  BY ZenonT(60)
<1>8. /\ BB!Shown(Board) = {<<a, Board[a]>> : a \in {x \in V : Board[x] # Empty}}
      /\ SnapshotEntries = {<<m_keys[i], m_nodes[i]>> : i \in 1..nn} \cup
                           {<<m_keys[i], m_data[i]>> : i \in (nn + nh + 1)..L}
  BY <1>1, <1>2, <1>7, Zenon DEF BB!Shown, SnapshotEntries
<1>9. ASSUME NEW i \in 1..L, i <= nn \/ i > nn + nh
      PROVE  /\ m_keys[i] \in V /\ Board[m_keys[i]] # Empty
  BY <1>2, <1>3, <1>4, <1>5, <1>7, <1>9
<1>10. ASSUME NEW a \in V, Board[a] # Empty
       PROVE  <<a, Board[a]>> \in {<<m_keys[i], m_nodes[i]>> : i \in 1..nn} \cup
                                  {<<m_keys[i], m_data[i]>> : i \in (nn + nh + 1)..L}
  <2>1. PICK i \in 1..L : m_keys[i] = a
    BY <1>6, <1>7, <1>10, Zenon
  <2>2. ~(nn < i /\ i <= nn + nh)
    BY <1>4, <1>7, <2>1, Zenon
  <2>3. CASE i <= nn
    BY <1>2, <1>3, <2>1, <2>3
  <2>4. CASE i > nn + nh
    BY <1>2, <1>3, <2>1, <2>4
  <2>5. QED
    BY <1>2, <2>2, <2>3, <2>4
<1>11. \A i \in 1..nn : <<m_keys[i], m_nodes[i]>> \in BB!Shown(Board)
  <2> SUFFICES ASSUME NEW i \in 1..nn
               PROVE  <<m_keys[i], m_nodes[i]>> \in BB!Shown(Board)
    BY Zenon
  <2>1. i \in 1..L /\ i <= nn
    BY <1>2
  <2>2. m_keys[i] \in V /\ Board[m_keys[i]] # Empty /\ Board[m_keys[i]] = m_nodes[i]
    BY <1>3, <1>9, <2>1, Zenon
  <2>3. QED
    BY <1>8, <2>2, Zenon
<1>12. \A i \in (nn + nh + 1)..L : <<m_keys[i], m_data[i]>> \in BB!Shown(Board)
  <2> SUFFICES ASSUME NEW i \in (nn + nh + 1)..L
               PROVE  <<m_keys[i], m_data[i]>> \in BB!Shown(Board)
    BY Zenon
  <2>1. i \in 1..L /\ i > nn + nh /\ ~(i <= nn)
    BY <1>2
  <2>2. m_keys[i] \in V /\ Board[m_keys[i]] # Empty /\ Board[m_keys[i]] = m_data[i]
    BY <1>3, <1>9, <2>1, Zenon
  <2>3. QED
    BY <1>8, <2>2, Zenon
<1>13. \A e \in BB!Shown(Board) : e \in SnapshotEntries
  BY <1>8, <1>10, Zenon
<1>14. \A e \in SnapshotEntries : e \in BB!Shown(Board)
  BY <1>8, <1>11, <1>12, Zenon
<1>15. QED
  BY <1>13, <1>14, Zenon

(* Threads share the blackboard, but no attribute on it.                   *)
OneUser == \A a \in Attrs : \A t, u \in Users[a] : t = u

(* A half-done exchange is for an attribute of its thread, and what it has *)
(* left to do is to store a value that the board does not have yet, or to  *)
(* store again the one it has.                                             *)
PendingOK ==
  \A t \in Threads : pending[t] # Idle =>
    /\ t \in Users[pending[t].attr]
    /\ pending[t].val \in BB!Exchangeable(pending[t].attr)
    /\ Board[pending[t].attr] = IF pending[t].new THEN Empty ELSE pending[t].val

(* The inductive invariant of the refinement.                              *)
BInv == TypeOK /\ Layout /\ VisibleSet /\ PendingOK

(* A thread's write leaves the visible entries set, and does not touch     *)
(* what the half-done exchanges of the other threads are about.            *)
LEMMA WriteKeeps ==
  ASSUME BInv, OneUser, TypeOK', NEW t \in Threads, NEW a \in Attrs, NEW c,
         t \in Users[a], Writes(a, c),
         c = Empty => a \in AsValue \cap Hidden \/ \A j \in 1..Len(m_keys') : m_keys'[j] # a
  PROVE  /\ VisibleSet'
         /\ \A u \in Threads \ {t} : pending[u] # Idle =>
              Board'[pending[u].attr] = Board[pending[u].attr]
<1> USE AttrAssumption
<1>1. Board' = [Board EXCEPT ![a] = c] /\ Board = [b \in Attrs |-> Board[b]]
  <2>1. Board = [b \in Attrs |-> Board[b]]
    BY DEF Board
  <2>2. QED
    BY <2>1, Zenon DEF Writes
<1>2. Board'[a] = c /\ \A b \in Attrs \ {a} : Board'[b] = Board[b]
  BY <1>1, Zenon
<1>3. VisibleSet'
  <2> SUFFICES ASSUME NEW j \in 1..Len(m_keys'), m_keys'[j] \notin AsValue \cap Hidden
               PROVE  Board'[m_keys'[j]] # Empty
    BY Zenon DEF VisibleSet
  <2>1. m_keys'[j] \in Attrs
    BY DEF TypeOK, ArraysTypeOK
  <2>2. CASE m_keys'[j] = a
    BY <1>2, <2>2, Zenon
  <2>3. CASE m_keys'[j] # a
    <3>1. PICK i \in 1..Len(m_keys) : m_keys[i] = m_keys'[j]
      BY <2>3, Zenon DEF Writes
    <3>2. Board[m_keys[i]] # Empty
      BY <3>1, Zenon DEF BInv, VisibleSet
    <3>3. QED
      BY <1>2, <2>1, <2>3, <3>1, <3>2, Zenon
  <2>4. QED
    BY <2>2, <2>3, Zenon
<1>4. ASSUME NEW u \in Threads \ {t}, pending[u] # Idle
      PROVE  Board'[pending[u].attr] = Board[pending[u].attr]
  <2>1. pending[u].attr \in Attrs
    BY <1>4, Zenon DEF BInv, TypeOK, Pending
  <2>2. u \in Users[pending[u].attr]
    BY <1>4, Zenon DEF BInv, PendingOK
  <2>3. pending[u].attr # a
    BY <2>2, Zenon DEF OneUser
  <2>4. QED
    BY <1>2, <2>1, <2>3, Zenon
<1>5. QED
  BY <1>3, <1>4, Zenon

(* Storing what is there already changes nothing.                          *)
LEMMA WriteSame ==
  ASSUME NEW a \in Attrs, Writes(a, Board[a])
  PROVE  Board' = Board
<1>1. Board = [b \in Attrs |-> Board[b]]
  BY DEF Board
<1>2. QED
  BY <1>1, Zenon DEF Writes

(* Each step of the arrays is a step of the map, or none, and keeps the    *)
(* invariant: set().                                                       *)
LEMMA SetRefines ==
  ASSUME BInv, OneUser, NEW t \in Threads, NEW a \in AsValue, NEW v \in Values, Set(t, a, v)
  PROVE  BInv' /\ BB!Set(a, v)
<1> USE AttrAssumption, EmptyAssumption
<1>1. pending' = pending /\ pending[t] = Idle /\ t \in Users[a] /\ SetEntry(a, v)
      /\ last' = BB!Call("set", a, v, Empty)
  BY Zenon DEF Set, Calls
<1>2. ArraysTypeOK' /\ Layout' /\ Writes(a, v)
  BY <1>1, SetEntryKeepsLayout, SetEntryWrites, ZenonT(60) DEF BInv, TypeOK
<1>3. TypeOK'
  BY <1>1, <1>2, ZenonT(60) DEF BInv, TypeOK
<1>4. /\ VisibleSet'
      /\ \A u \in Threads \ {t} : pending[u] # Idle =>
           Board'[pending[u].attr] = Board[pending[u].attr]
  BY <1>1, <1>2, <1>3, WriteKeeps, Zenon
<1>5. PendingOK'
  BY <1>1, <1>4, ZenonT(60) DEF BInv, PendingOK, Idle
<1>6. QED
  BY <1>1, <1>2, <1>3, <1>4, <1>5, Zenon DEF BInv, BB!Set, Writes, BB!Call

(* set_node().                                                             *)
LEMMA SetNodeRefines ==
  ASSUME BInv, OneUser, NEW t \in Threads, NEW a \in RefAttrs, NEW n \in Nodes, SetNode(t, a, n)
  PROVE  BInv' /\ BB!SetNode(a, n)
<1> USE AttrAssumption, EmptyAssumption
<1>1. pending' = pending /\ pending[t] = Idle /\ t \in Users[a] /\ a \in Attrs
      /\ last' = BB!Call("set_node", a, n, Empty)
  BY Zenon DEF SetNode, Calls, RefAttrs
<1>2. ArraysTypeOK' /\ Layout' /\ Writes(a, n)
  BY SetNodeKeepsLayout, SetNodeWrites, Zenon DEF BInv, TypeOK
<1>3. TypeOK'
  BY <1>1, <1>2, Zenon DEF BInv, TypeOK
<1>4. /\ VisibleSet'
      /\ \A u \in Threads \ {t} : pending[u] # Idle =>
           Board'[pending[u].attr] = Board[pending[u].attr]
  BY <1>1, <1>2, <1>3, WriteKeeps, Zenon
<1>5. PendingOK'
  BY <1>1, <1>4, ZenonT(60) DEF BInv, PendingOK, Idle
<1>6. QED
  BY <1>1, <1>2, <1>3, <1>4, <1>5, Zenon DEF BInv, BB!SetNode, Writes, BB!Call

(* unset().                                                                *)
LEMMA UnsetRefines ==
  ASSUME BInv, OneUser, NEW t \in Threads, NEW a \in Attrs, Unset(t, a)
  PROVE  BInv' /\ BB!Unset(a)
<1>1. pending' = pending /\ pending[t] = Idle /\ t \in Users[a]
      /\ last' = BB!Call("unset", a, Empty, Empty)
  BY ZenonT(60) DEF Unset, Calls
<1>2. /\ ArraysTypeOK' /\ Layout' /\ Writes(a, Empty)
      /\ \A j \in 1..Len(m_keys') : m_keys'[j] # a
  BY UnsetKeepsLayout, UnsetWrites, Zenon DEF BInv, TypeOK
<1>3. TypeOK'
  BY <1>1, <1>2, Zenon DEF BInv, TypeOK
<1>4. /\ VisibleSet'
      /\ \A u \in Threads \ {t} : pending[u] # Idle =>
           Board'[pending[u].attr] = Board[pending[u].attr]
  BY <1>1, <1>2, <1>3, WriteKeeps, Zenon
<1>5. PendingOK'
  BY <1>1, <1>4, ZenonT(60) DEF BInv, PendingOK, Idle
<1>6. QED
  BY <1>1, <1>2, <1>3, <1>4, <1>5, Zenon DEF BInv, BB!Unset, Writes, BB!Call

(* exchange() up to the release of the lock: the whole exchange, when it   *)
(* finds its key, or nothing.                                              *)
LEMMA ExchangeRefines ==
  ASSUME BInv, OneUser, NEW t \in Threads, NEW a \in AsValue,
         NEW v \in BB!Exchangeable(a), Exchange(t, a, v)
  PROVE  BInv' /\ (BB!Exchange(a, v) \/ UNCHANGED <<Board, last>>)
<1> USE AttrAssumption, EmptyAssumption
<1>0. v \in Values \cup {Empty} /\ (v = Empty => a \in AsValue \cap Hidden)
  BY Zenon DEF BB!Exchangeable
<1>1. PICK at : at = Slots(a, m_num_nodes + 1, Len(m_keys))
  BY Zenon
<1>2. /\ at = {} => Board[a] = Empty /\ UNCHANGED <<arrays, last>>
      /\ at # {} => /\ Writes(a, v)
                    /\ last' = BB!Call("exchange", a, v, Board[a])
      /\ pending' = IF Board[a] = Empty
                    THEN [pending EXCEPT ![t] = [attr |-> a, val |-> v, new |-> at = {}]]
                    ELSE pending
  BY <1>0, <1>1, ExchangeWrites, SMTT(60) DEF BInv, TypeOK
<1>3. pending[t] = Idle /\ t \in Users[a]
  BY ZenonT(60) DEF Exchange, Calls
<1>4. ArraysTypeOK' /\ Layout'
  BY <1>0, ExchangeKeepsLayout, Zenon DEF BInv, TypeOK
<1>5. PICK new \in BOOLEAN : new = (at = {})
  BY Zenon
<1>6. PICK p : p = [attr |-> a, val |-> v, new |-> new]
  BY ZenonT(60)
<1>7. /\ p \in Pending
      /\ pending' = IF Board[a] = Empty THEN [pending EXCEPT ![t] = p] ELSE pending
  BY <1>0, <1>2, <1>5, <1>6, Zenon DEF Pending
<1>8. /\ pending \in [Threads -> {Idle} \cup Pending]
      /\ \A u \in Threads \ {t} : pending'[u] = pending[u]
      /\ pending'[t] \in {p, Idle}
  BY <1>2, <1>3, <1>7, ZenonT(60) DEF BInv, TypeOK
<1>9. TypeOK'
  BY <1>4, <1>7, <1>8, Zenon DEF BInv, TypeOK
<1>10. CASE at = {}
  <2>1. UNCHANGED <<arrays, last>> /\ Board' = Board /\ Board[a] = Empty
    BY <1>2, <1>10, SMTT(60) DEF arrays, Board
  <2>2. VisibleSet'
    BY <2>1, Zenon DEF BInv, VisibleSet, arrays
  <2>3. PendingOK'
    <3> SUFFICES ASSUME NEW u \in Threads, pending'[u] # Idle
                 PROVE  /\ u \in Users[pending'[u].attr]
                        /\ pending'[u].val \in BB!Exchangeable(pending'[u].attr)
                        /\ Board'[pending'[u].attr] =
                             IF pending'[u].new THEN Empty ELSE pending'[u].val
      BY Zenon DEF PendingOK, Idle, BB!Exchangeable
    <3>1. CASE u = t
      <4>1. pending'[u] = p
        BY <1>8, <3>1, Zenon
      <4>2. p.attr = a /\ p.val = v /\ p.new = new
        BY <1>6, Zenon
      <4>3. new <=> at = {}
        BY <1>5, ZenonT(60)
      <4>4. Board'[a] = IF new THEN Empty ELSE v
        BY <1>10, <2>1, <4>3, Zenon
      <4>5. t \in Users[a] /\ v \in BB!Exchangeable(a)
        BY <1>3, Zenon
      <4>6. QED
        BY ONLY <3>1, <4>1, <4>2, <4>4, <4>5, Zenon
    <3>2. CASE u # t
      BY <1>8, <2>1, <3>2, Zenon DEF BInv, PendingOK
    <3>3. QED
      BY <3>1, <3>2, Zenon
  <2>4. QED
    BY <1>4, <1>9, <2>1, <2>2, <2>3, ZenonT(60) DEF BInv
<1>11. CASE at # {}
  <2>1. Writes(a, v) /\ last' = BB!Call("exchange", a, v, Board[a])
    BY <1>2, <1>11, Zenon
  <2>2. /\ VisibleSet'
        /\ \A u \in Threads \ {t} : pending[u] # Idle =>
             Board'[pending[u].attr] = Board[pending[u].attr]
    BY <1>0, <1>3, <1>9, <2>1, WriteKeeps, ZenonT(60)
  <2>3. Board'[a] = v
    <3>1. Board = [b \in Attrs |-> Board[b]]
      BY DEF Board
    <3>2. QED
      BY <2>1, <3>1, Zenon DEF Writes
  <2>4. PendingOK'
    <3> SUFFICES ASSUME NEW u \in Threads, pending'[u] # Idle
                 PROVE  /\ u \in Users[pending'[u].attr]
                        /\ pending'[u].val \in BB!Exchangeable(pending'[u].attr)
                        /\ Board'[pending'[u].attr] =
                             IF pending'[u].new THEN Empty ELSE pending'[u].val
      BY Zenon DEF PendingOK, Idle, BB!Exchangeable
    <3>1. CASE u = t
      <4>1. pending'[u] = p
        BY <1>8, <3>1, Zenon
      <4>2. p.attr = a /\ p.val = v /\ p.new = new
        BY <1>6, Zenon
      <4>3. new <=> at = {}
        BY <1>5, Zenon
      <4>4. Board'[a] = IF new THEN Empty ELSE v
        BY <1>11, <2>3, <4>3, Zenon
      <4>5. t \in Users[a] /\ v \in BB!Exchangeable(a)
        BY <1>3, Zenon
      <4>6. QED
        BY ONLY <3>1, <4>1, <4>2, <4>4, <4>5, Zenon
    <3>2. CASE u # t
      BY <1>8, <2>2, <3>2, SMTT(30) DEF BInv, PendingOK
    <3>3. QED
      BY <3>1, <3>2, Zenon
  <2>5. BB!Exchange(a, v)
    BY <2>1, Zenon DEF Writes, BB!Exchange, BB!Call
  <2>6. QED
    BY <1>4, <1>9, <2>2, <2>4, <2>5, ZenonT(60) DEF BInv
<1>12. QED
  BY <1>10, <1>11, Zenon

(* The rest of an exchange(): the whole exchange, when it did not find its *)
(* key, or a second store of the same value.                               *)
LEMMA ExchangeSetRefines ==
  ASSUME BInv, OneUser, NEW t \in Threads, ExchangeSet(t)
  PROVE  /\ BInv'
         /\ \/ \E a \in AsValue : \E v \in BB!Exchangeable(a) : BB!Exchange(a, v)
            \/ UNCHANGED <<Board, last>>
<1> USE AttrAssumption, EmptyAssumption
<1>0. PICK a, v, new : a = pending[t].attr /\ v = pending[t].val /\ new = pending[t].new
  BY Zenon
<1>1. /\ pending[t] # Idle /\ SetEntry(a, v)
      /\ last' = IF new THEN BB!Call("exchange", a, v, Empty) ELSE last
      /\ pending' = [pending EXCEPT ![t] = Idle]
  BY <1>0, Zenon DEF ExchangeSet
<1>2. /\ t \in Users[a] /\ v \in BB!Exchangeable(a)
      /\ Board[a] = IF new THEN Empty ELSE v
  BY <1>0, <1>1, Zenon DEF BInv, PendingOK
<1>3. a \in AsValue /\ a \in Attrs /\ v \in Values \cup {Empty} /\ new \in BOOLEAN
  BY <1>0, <1>1, Zenon DEF BInv, TypeOK, Pending
<1>4. v = Empty => a \in AsValue \cap Hidden
  BY <1>2, <1>3, Zenon DEF BB!Exchangeable
<1>5. ArraysTypeOK' /\ Layout' /\ Writes(a, v)
  BY <1>1, <1>3, SetEntryKeepsLayout, SetEntryWrites, Zenon DEF BInv, TypeOK
<1>6. /\ TypeOK' /\ pending'[t] = Idle
      /\ \A u \in Threads \ {t} : pending'[u] = pending[u]
  BY <1>1, <1>5, Zenon DEF BInv, TypeOK
<1>7. /\ VisibleSet'
      /\ \A u \in Threads \ {t} : pending[u] # Idle =>
           Board'[pending[u].attr] = Board[pending[u].attr]
  BY <1>2, <1>3, <1>4, <1>5, <1>6, WriteKeeps, ZenonT(60)
<1>8. PendingOK'
  <2> SUFFICES ASSUME NEW u \in Threads, pending'[u] # Idle
               PROVE  /\ u \in Users[pending'[u].attr]
                      /\ pending'[u].val \in BB!Exchangeable(pending'[u].attr)
                      /\ Board'[pending'[u].attr] =
                           IF pending'[u].new THEN Empty ELSE pending'[u].val
    BY ZenonT(60) DEF PendingOK, Idle, BB!Exchangeable
  <2>1. u # t /\ pending'[u] = pending[u]
    BY <1>6, ZenonT(60)
  <2>2. QED
    BY <1>7, <2>1, ZenonT(60) DEF BInv, PendingOK
<1>9. CASE new
  <2>1. BB!Exchange(a, v)
    BY <1>1, <1>2, <1>5, <1>9, ZenonT(60) DEF Writes, BB!Exchange, BB!Call
  <2>2. QED
    BY <1>2, <1>3, <1>5, <1>6, <1>7, <1>8, <2>1, ZenonT(60) DEF BInv
<1>10. CASE ~new
  <2>1. Board' = Board
    BY <1>2, <1>3, <1>5, <1>10, WriteSame, ZenonT(60)
  <2>2. QED
    BY <1>1, <1>5, <1>6, <1>7, <1>8, <1>10, <2>1, ZenonT(60) DEF BInv
<1>11. QED
  BY <1>9, <1>10, Zenon

(* A step that changes neither the arrays nor an exchange.                 *)
LEMMA QuietStep ==
  ASSUME BInv, UNCHANGED <<arrays, pending>>
  PROVE  BInv' /\ Board' = Board
<1>1. Board' = Board
  BY DEF arrays, Board
<1>2. TypeOK' /\ Layout'
  BY Zenon DEF BInv, TypeOK, arrays, ArraysTypeOK, Layout, ArraysParallel, KeysUnique, Sections,
         ContentsMatch, IdVariant
<1>3. VisibleSet'
  BY <1>1, Zenon DEF BInv, VisibleSet, arrays
<1>4. PendingOK'
  BY <1>1, Zenon DEF BInv, PendingOK, Idle, BB!Exchangeable
<1>5. QED
  BY <1>1, <1>2, <1>3, <1>4, Zenon DEF BInv

(* Every step of the arrays is a step of the map or leaves it alone.       *)
LEMMA StepRefines ==
  ASSUME BInv, OneUser, [Next]_vars
  PROVE  BInv' /\ [BB!Next]_(BB!bbVars)
<1> USE AttrAssumption DEF BB!bbVars
<1>1. ASSUME NEW t \in Threads, NEW a \in AsValue, NEW v \in Values, Set(t, a, v)
      PROVE  BInv' /\ BB!Next
  BY <1>1, SetRefines, Zenon DEF BB!Next
<1>2. ASSUME NEW t \in Threads, NEW a \in AsValue, NEW v \in BB!Exchangeable(a), Exchange(t, a, v)
      PROVE  BInv' /\ [BB!Next]_(BB!bbVars)
  BY <1>2, ExchangeRefines, Zenon DEF BB!Next
<1>3. ASSUME NEW t \in Threads, ExchangeSet(t)
      PROVE  BInv' /\ [BB!Next]_(BB!bbVars)
  BY <1>3, ExchangeSetRefines, Zenon DEF BB!Next
<1>4. ASSUME NEW t \in Threads, NEW a \in RefAttrs, NEW n \in Nodes, SetNode(t, a, n)
      PROVE  BInv' /\ BB!Next
  BY <1>4, SetNodeRefines, Zenon DEF BB!Next
<1>5. ASSUME NEW t \in Threads, NEW a \in Attrs, Unset(t, a)
      PROVE  BInv' /\ BB!Next
  <2>1. a \in RefAttrs \cup AsValue
    BY Zenon DEF RefAttrs
  <2>2. QED
    BY <1>5, <2>1, UnsetRefines, Zenon DEF BB!Next
<1>6. ASSUME NEW t \in Threads, NEW a \in Attrs, Get(t, a)
      PROVE  BInv' /\ BB!Next
  <2>1. a \in RefAttrs \cup AsValue
    BY Zenon DEF RefAttrs
  <2>2. BInv' /\ Board' = Board
    BY <1>6, QuietStep, Zenon DEF Get
  <2>3. last' = BB!Call("get", a, Empty, Board[a])
    BY <1>6, GetReads, Zenon DEF BInv, TypeOK
  <2>4. BB!Get(a)
    BY <2>2, <2>3, Zenon DEF BB!Get
  <2>5. QED
    BY <2>1, <2>2, <2>4, Zenon DEF BB!Next
<1>7. ASSUME NEW t \in Threads, Snapshot(t)
      PROVE  BInv' /\ BB!Next
  <2>1. BInv' /\ Board' = Board
    BY <1>7, QuietStep, Zenon DEF Snapshot
  <2>2. last' = BB!Call("snapshot", Empty, Empty, BB!Shown(Board))
    BY <1>7, SnapshotShows, Zenon DEF BInv, TypeOK, Snapshot
  <2>3. BB!Snapshot
    BY <2>1, <2>2, Zenon DEF BB!Snapshot
  <2>4. QED
    BY <2>1, <2>3, Zenon DEF BB!Next
<1>8. ASSUME UNCHANGED vars
      PROVE  BInv' /\ UNCHANGED BB!bbVars
  BY <1>8, QuietStep, Zenon DEF vars, arrays
<1>9. QED
  BY <1>1, <1>2, <1>3, <1>4, <1>5, <1>6, <1>7, <1>8, Zenon DEF Next

(* The arrays start as the empty map.                                      *)
LEMMA InitRefines == Init => BInv /\ BB!Init
<1> SUFFICES ASSUME Init
             PROVE  BInv /\ BB!Init
  BY Zenon
<1>1. TypeOK /\ Layout
  BY DEF Init, TypeOK, ArraysTypeOK, Layout, ArraysParallel, KeysUnique, Sections,
         ContentsMatch
<1>2. Len(m_keys) = 0
  BY Zenon DEF Init
<1>3. VisibleSet
  BY <1>2 DEF VisibleSet
<1>4. PendingOK
  BY Zenon DEF Init, PendingOK
<1>5. \A a \in Attrs : Board[a] = Empty
  BY <1>2, BoardIs, BoardAbsent
<1>6. Board = [a \in Attrs |-> Board[a]]
  BY DEF Board
<1>7. RefAttrs \cup AsValue = Attrs
  BY AttrAssumption, Zenon DEF RefAttrs
<1>8. Board = [a \in RefAttrs \cup AsValue |-> Empty]
  BY <1>5, <1>6, <1>7, Zenon
<1>9. QED
  BY <1>1, <1>3, <1>4, <1>8, Zenon DEF BInv, BB!Init, Init

(* For any number of threads, attributes and contents: as long as no two   *)
(* threads use the same attribute, the three-section arrays implement the  *)
(* map, the gap between the two locked parts of exchange() included.  Each *)
(* call takes effect in one step and returns what the map says.            *)
THEOREM ArraysImplementBlackboard == OneUser => (Spec => RefinesBlackboard)
<1>1. ASSUME OneUser
      PROVE  Spec => RefinesBlackboard
  <2>1. Init => BInv /\ BB!Init
    BY InitRefines, Zenon
  <2>2. BInv /\ [Next]_vars => BInv' /\ [BB!Next]_(BB!bbVars)
    BY <1>1, StepRefines, Zenon
  <2>3. QED
    BY <2>1, <2>2, PTL DEF Spec, RefinesBlackboard, BB!Spec
<1>2. QED
  BY <1>1, Zenon
=============================================================================
