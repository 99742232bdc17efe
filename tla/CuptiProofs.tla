---------------------------- MODULE CuptiProofs ----------------------------
(***************************************************************************)
(* The CUDA service: the callbacks of the CUDA runtime and driver APIs,    *)
(* with the list of sampled contexts that threads share, proved for any    *)
(* number of threads, contexts and nested calls.  The facts about          *)
(* subsequences are those of OmptProofs.                                   *)
(***************************************************************************)
EXTENDS Cupti, OmptProofs

-----------------------------------------------------------------------------
(* The CUDA service.                                                       *)

CuRecord == [up : {"off", "subscribed", "finished"}, names : Seq(STRING), domains : SUBSET KnownDomains,
             attrs : BOOLEAN, sampling : BOOLEAN, apis : SUBSET CuThreads, ctxs : SUBSET Contexts,
             ok : BOOLEAN, snaps : Nat, pushed : Nat]
CallOf == [d : ApiDomains, f : Functions, k : Symbols, seen : BOOLEAN]
Range2 == ApiDomains \X Functions
CuThread == [at : {"run", "push", "event", "cleanup", "erase", "read"}, ctx : Contexts \cup {0},
             idx : Nat, calls : Seq(CallOf), path : Seq(Range2),
             symbol : Symbols \cup {NoSymbol}, made : Nat]

CuTypeOK ==
  /\ cu \in CuRecord /\ samplingInfo \in Seq(Contexts) /\ groups \subseteq Contexts
  /\ contexts \in [Contexts -> {"none", "alive", "gone"}]
  /\ cuth \in [CuThreads -> CuThread] /\ cuRaced \in BOOLEAN
  /\ \A t \in CuThreads : /\ cuth[t].at = "push" => cuth[t].ctx \in Contexts
                          /\ Removing(t) => cuth[t].ctx \in Contexts /\ cuth[t].idx > 0

(* The regions of a list of calls, and which of them were seen.            *)
RegionsOf(calls) == [k \in 1..Len(calls) |-> <<calls[k].d, calls[k].f>>]
SeenIn(calls) == {k \in 1..Len(calls) : calls[k].seen}
NamedIn(calls) == {k \in 1..Len(calls) : calls[k].seen /\ calls[k].k # NoSymbol}

(* How CUDA nests calls: a driver call is the innermost, a runtime call    *)
(* has only a driver call in it.  Only a call of an enabled domain is      *)
(* seen, and once one is, so are the later ones of its domain.             *)
Nested(calls) ==
  /\ \A i, j \in 1..Len(calls) : i < j => calls[i].d = "nvtx" \/ (calls[i].d = "runtime" /\ calls[j].d = "driver")
  /\ \A i \in 1..Len(calls) : calls[i].d = "nvtx" => calls[i].k = NoSymbol
SeenOK(calls) ==
  /\ \A i \in 1..Len(calls) : calls[i].seen => cu.attrs /\ calls[i].d \in cu.domains
  /\ \A i, j \in 1..Len(calls) : i < j /\ calls[i].d = calls[j].d /\ calls[i].seen => calls[j].seen
SymbolOK(th) ==
  ~({"runtime", "driver"} \subseteq cu.domains) =>
    /\ NamedIn(th.calls) = {} => th.symbol = NoSymbol
    /\ \A k \in NamedIn(th.calls) : th.symbol = th.calls[k].k
CallsSound(th) ==
  /\ Nested(th.calls) /\ SeenOK(th.calls) /\ SymbolOK(th)
  /\ Selects(SeenIn(th.calls), th.path, RegionsOf(th.calls))

(* The contexts between a callback and m_sampling_info.                    *)
Listed(x) == \E i \in 1..Len(samplingInfo) : samplingInfo[i] = x
PushSound(t) ==
  cuth[t].at = "push" =>
    /\ contexts[cuth[t].ctx] = "alive" /\ ~Listed(cuth[t].ctx) /\ cuth[t].ctx \in groups
    /\ \A u \in CuThreads : cuth[u].at = "push" /\ cuth[u].ctx = cuth[t].ctx => u = t
RemoveSound(t) ==
  Removing(t) =>
    /\ contexts[cuth[t].ctx] = "gone"
    /\ cuth[t].idx \in 1..Len(samplingInfo) /\ samplingInfo[cuth[t].idx] = cuth[t].ctx
    /\ cuth[t].at = "erase" => cuth[t].ctx \notin groups
    /\ \A u \in CuThreads : Removing(u) /\ cuth[u].ctx = cuth[t].ctx => u = t
Lists ==
  /\ \A x \in groups : Listed(x) \/ \E t \in CuThreads : cuth[t].at = "push" /\ cuth[t].ctx = x
  /\ \A i, j \in 1..Len(samplingInfo) : samplingInfo[i] = samplingInfo[j] => i = j
  /\ \A i \in 1..Len(samplingInfo) :
       /\ contexts[samplingInfo[i]] # "none"
       /\ \/ samplingInfo[i] \in groups
          \/ \E t \in CuThreads : cuth[t].at = "erase" /\ cuth[t].ctx = samplingInfo[i]

CuInv ==
  /\ CuTypeOK
  /\ cu.up = "off" => ~cu.attrs /\ cu.domains = {}
  /\ cu.up # "finished" => \A t \in CuThreads : CallsSound(cuth[t])
  /\ ~cuRaced => Lists /\ \A t \in CuThreads : PushSound(t) /\ RemoveSound(t)

LEMMA SeqSame ==
  ASSUME NEW S, NEW p \in Seq(S), NEW q \in Seq(S), Len(p) = Len(q),
         \A i \in 1..Len(p) : p[i] = q[i]
  PROVE  p = q
<1>1. p \in [1..Len(p) -> S] /\ q \in [1..Len(p) -> S]
  OBVIOUS
<1>2. QED
  BY <1>1

LEMMA RegionsTyped ==
  ASSUME NEW calls \in Seq(CallOf)
  PROVE  /\ RegionsOf(calls) \in Seq(Range2) /\ Len(RegionsOf(calls)) = Len(calls)
         /\ \A k \in 1..Len(calls) : RegionsOf(calls)[k] = <<calls[k].d, calls[k].f>>
<1>1. \A k \in 1..Len(calls) : calls[k] \in CallOf
  OBVIOUS
<1>2. \A k \in 1..Len(calls) : <<calls[k].d, calls[k].f>> \in Range2
  BY <1>1, Zenon DEF CallOf, Range2
<1>3. RegionsOf(calls) \in [1..Len(calls) -> Range2] /\ Len(calls) \in Nat
  BY <1>2 DEF RegionsOf
<1>4. RegionsOf(calls) \in Seq(Range2) /\ Len(RegionsOf(calls)) = Len(calls)
  BY ONLY <1>3
<1>5. QED
  BY <1>4, Zenon DEF RegionsOf

LEMMA RegionsAppend ==
  ASSUME NEW calls \in Seq(CallOf), NEW c \in CallOf
  PROVE  RegionsOf(Append(calls, c)) = Append(RegionsOf(calls), <<c.d, c.f>>)
<1>1. PICK p : p = Append(calls, c)
  BY Zenon
<1>2. p \in Seq(CallOf) /\ Len(p) = Len(calls) + 1 /\ p[Len(calls) + 1] = c
      /\ \A k \in 1..Len(calls) : p[k] = calls[k]
  BY <1>1
<1>3. PICK r \in Seq(Range2) : r = RegionsOf(calls) /\ Len(r) = Len(calls)
        /\ \A k \in 1..Len(calls) : r[k] = <<calls[k].d, calls[k].f>>
  BY RegionsTyped, Zenon
<1>4. PICK w \in Seq(Range2) : w = RegionsOf(p) /\ Len(w) = Len(p)
        /\ \A k \in 1..Len(p) : w[k] = <<p[k].d, p[k].f>>
  BY <1>2, RegionsTyped, Zenon
<1>5. PICK e \in Range2 : e = <<c.d, c.f>>
  BY Zenon DEF Range2, CallOf
<1>6. PICK q : q = Append(r, e)
  BY Zenon
<1>7. q \in Seq(Range2) /\ Len(q) = Len(calls) + 1 /\ q[Len(calls) + 1] = e
      /\ \A k \in 1..Len(calls) : q[k] = r[k]
  BY <1>3, <1>6
<1>8. \A k \in 1..Len(w) : w[k] = q[k]
  <2> SUFFICES ASSUME NEW k \in 1..Len(w) PROVE w[k] = q[k]
    BY Zenon
  <2>1. CASE k = Len(calls) + 1
    BY <1>2, <1>4, <1>5, <1>7, <2>1, Zenon
  <2>2. CASE k \in 1..Len(calls)
    BY <1>2, <1>3, <1>4, <1>7, <2>2, Zenon
  <2>3. k = Len(calls) + 1 \/ k \in 1..Len(calls)
    BY <1>2, <1>4
  <2>4. QED
    BY <2>1, <2>2, <2>3, Zenon
<1>9. w = q
  BY <1>2, <1>4, <1>7, <1>8, SeqSame, Zenon
<1>10. QED
  BY <1>1, <1>3, <1>4, <1>5, <1>6, <1>9, Zenon

LEMMA RegionsPop ==
  ASSUME NEW calls \in Seq(CallOf), calls # <<>>
  PROVE  RegionsOf(calls) # <<>> /\ RegionsOf(AllButLast(calls)) = AllButLast(RegionsOf(calls))
<1>1. PICK p : p = AllButLast(calls)
  BY Zenon
<1>2. p \in Seq(CallOf) /\ Len(p) = Len(calls) - 1 /\ Len(calls) \in Nat /\ Len(calls) > 0
      /\ \A k \in 1..(Len(calls) - 1) : p[k] = calls[k]
  BY <1>1, LastGone
<1>3. PICK r \in Seq(Range2) : r = RegionsOf(calls) /\ Len(r) = Len(calls)
        /\ \A k \in 1..Len(calls) : r[k] = <<calls[k].d, calls[k].f>>
  BY RegionsTyped, Zenon
<1>4. PICK w \in Seq(Range2) : w = RegionsOf(p) /\ Len(w) = Len(p)
        /\ \A k \in 1..Len(p) : w[k] = <<p[k].d, p[k].f>>
  BY <1>2, RegionsTyped, Zenon
<1>5. PICK q : q = AllButLast(r)
  BY Zenon
<1>6. r # <<>>
  BY <1>2, <1>3
<1>7. q \in Seq(Range2) /\ Len(q) = Len(r) - 1 /\ \A k \in 1..(Len(r) - 1) : q[k] = r[k]
  BY <1>5, <1>6, LastGone, Zenon
<1>8. \A k \in 1..Len(w) : w[k] = q[k]
  <2> SUFFICES ASSUME NEW k \in 1..Len(w) PROVE w[k] = q[k]
    BY Zenon
  <2>1. k \in 1..(Len(calls) - 1) /\ k \in 1..Len(p) /\ k \in 1..Len(calls) /\ k \in 1..(Len(r) - 1)
    BY <1>2, <1>3, <1>4
  <2>2. w[k] = <<p[k].d, p[k].f>> /\ p[k] = calls[k]
    BY <1>2, <1>4, <2>1, Zenon
  <2>3. q[k] = <<calls[k].d, calls[k].f>>
    BY <1>3, <1>7, <2>1, Zenon
  <2>4. QED
    BY <2>2, <2>3, Zenon
<1>9. w = q
  <2>1. Len(w) = Len(q)
    BY <1>2, <1>3, <1>4, <1>7, Zenon
  <2>2. QED
    BY <1>7, <1>8, <2>1, SeqSame, Zenon
<1>10. QED
  BY <1>1, <1>3, <1>4, <1>5, <1>6, <1>9, Zenon

(* Caliper::end of a domain: nothing when the path has none of it, the     *)
(* innermost region when that is of the domain.                            *)
LEMMA EndNone ==
  ASSUME NEW path \in Seq(Range2), NEW d, \A i \in 1..Len(path) : path[i][1] # d
  PROVE  EndOf(path, d) = path
<1>1. {i \in DOMAIN path : path[i][1] = d} = {}
  OBVIOUS
<1>2. QED
  BY <1>1, Zenon DEF EndOf

LEMMA EndLast ==
  ASSUME NEW path \in Seq(Range2), NEW d, path # <<>>, path[Len(path)][1] = d
  PROVE  EndOf(path, d) = AllButLast(path)
<1>1. PICK n \in Nat : n = Len(path) /\ n > 0
  OBVIOUS
<1>2. PICK is : is = {i \in DOMAIN path : path[i][1] = d}
  BY Zenon
<1>3. n \in is /\ is \subseteq 1..n
  BY <1>1, <1>2
<1>4. (CHOOSE i \in is : \A m \in is : m <= i) = n
  <2>1. \A m \in is : m <= n
    BY <1>3
  <2>2. \A i \in is : (\A m \in is : m <= i) => i = n
    BY <1>3
  <2>3. QED
    BY <1>3, <2>1, <2>2, Zenon
<1>5. EndOf(path, d) = [i \in 1..Len(path) - 1 |-> IF i < n THEN path[i] ELSE path[i + 1]]
  BY <1>2, <1>3, <1>4, Zenon DEF EndOf
<1>6. PICK e : e = [i \in 1..(n - 1) |-> path[i]]
  BY Zenon
<1>7. EndOf(path, d) = e
  <2>1. \A i \in 1..(n - 1) : i < n
    OBVIOUS
  <2>2. QED
    BY <1>1, <1>5, <1>6, <2>1, Zenon
<1>8. e \in [1..(n - 1) -> Range2] /\ n - 1 \in Nat
  BY <1>1, <1>6
<1>9. e \in Seq(Range2) /\ Len(e) = n - 1
  BY ONLY <1>8
<1>10. \A i \in 1..Len(e) : e[i] = AllButLast(path)[i]
  BY <1>1, <1>6, <1>9, LastGone, Zenon
<1>11. e = AllButLast(path)
  BY <1>1, <1>9, <1>10, LastGone, SeqSame, Zenon
<1>12. QED
  BY <1>7, <1>11, Zenon

LEMMA CuInitially == CuInit => CuInv
<1> SUFFICES ASSUME CuInit PROVE CuInv
  BY Zenon
<1>1. PICK c \in CuConfigs :
        cu = [up |-> "off", names |-> c.domains, domains |-> {}, attrs |-> FALSE,
              sampling |-> c.sampling, apis |-> c.apis, ctxs |-> c.ctxs, ok |-> FALSE,
              snaps |-> 0, pushed |-> 0]
  BY Zenon DEF CuInit
<1>2. cu \in CuRecord /\ ~cu.attrs /\ cu.domains = {}
  BY <1>1, CuptiAssumption, Zenon DEF CuRecord
<1>3. /\ samplingInfo = <<>> /\ groups = {} /\ cuRaced = FALSE
      /\ contexts = [x \in Contexts |-> "none"]
      /\ cuth = [t \in CuThreads |->
                  [at |-> "run", ctx |-> 0, idx |-> 0, calls |-> <<>>,
                   path |-> <<>>, symbol |-> NoSymbol, made |-> 0]]
  BY Zenon DEF CuInit
<1>4. cuth \in [CuThreads -> CuThread]
  BY <1>3 DEF CuThread
<1>5. \A t \in CuThreads : /\ cuth[t].at = "run" /\ cuth[t].calls = <<>> /\ cuth[t].path = <<>>
                           /\ cuth[t].symbol = NoSymbol
  BY <1>3, Zenon
<1>6. CuTypeOK
  <2>a. samplingInfo \in Seq(Contexts)
    BY <1>3
  <2>1. samplingInfo \in Seq(Contexts) /\ groups \subseteq Contexts /\ cuRaced \in BOOLEAN
    BY <1>3, <2>a, Zenon
  <2>2. contexts \in [Contexts -> {"none", "alive", "gone"}]
    BY <1>3, Zenon
  <2>3. \A t \in CuThreads : cuth[t].at # "push" /\ ~Removing(t)
    BY <1>5, Zenon DEF Removing
  <2>4. QED
    BY <1>2, <1>4, <2>1, <2>2, <2>3, Zenon DEF CuTypeOK
<1>7. \A t \in CuThreads : CallsSound(cuth[t])
  <2>1. 1..Len(<<>>) = {}
    OBVIOUS
  <2>2. Nested(<<>>) /\ SeenOK(<<>>) /\ NamedIn(<<>>) = {} /\ SeenIn(<<>>) = {}
    BY <2>1, Zenon DEF Nested, SeenOK, NamedIn, SeenIn
  <2>3. <<>> \in Seq(CallOf)
    OBVIOUS
  <2>4. Selects(SeenIn(<<>>), <<>>, RegionsOf(<<>>))
    BY <2>2, <2>3, RegionsTyped, SelectsNone, Zenon
  <2>5. QED
    BY <1>5, <2>2, <2>4, Zenon DEF CallsSound, SymbolOK
<1>8. Lists /\ \A t \in CuThreads : PushSound(t) /\ RemoveSound(t)
  <2>1. Len(samplingInfo) = 0 /\ 1..0 = {}
    BY <1>3
  <2>2. QED
    BY <1>3, <1>5, <2>1, Zenon DEF Lists, PushSound, RemoveSound, Removing
<1>9. QED
  BY <1>2, <1>6, <1>7, <1>8, Zenon DEF CuInv

(* A thread's place, its context and its index change, its calls do not.   *)
Placed(t, a, x, n) ==
  /\ cuth' \in [CuThreads -> CuThread]
  /\ cuth'[t].at = a /\ cuth'[t].ctx = x /\ cuth'[t].idx = n
  /\ \A u \in CuThreads : /\ u # t => cuth'[u] = cuth[u]
                          /\ cuth'[u].calls = cuth[u].calls /\ cuth'[u].path = cuth[u].path
                          /\ cuth'[u].symbol = cuth[u].symbol

Places == {"run", "push", "event", "cleanup", "erase", "read"}

LEMMA PlacedBy ==
  ASSUME CuInv, NEW t \in CuThreads, NEW a \in Places, NEW x \in Contexts \cup {0}, NEW n \in Nat,
         NEW r, cuth' = [cuth EXCEPT ![t] = r],
         \/ r = [cuth[t] EXCEPT !.at = a] /\ x = cuth[t].ctx /\ n = cuth[t].idx
         \/ r = [cuth[t] EXCEPT !.at = a, !.ctx = x] /\ n = cuth[t].idx
         \/ r = [cuth[t] EXCEPT !.at = a, !.ctx = x, !.idx = n]
  PROVE  Placed(t, a, x, n)
<1>1. cuth \in [CuThreads -> CuThread]
  BY Zenon DEF CuInv, CuTypeOK
<1>2. PICK z \in CuThread : z = cuth[t]
  BY <1>1, Zenon
<1>3. /\ r \in CuThread /\ r.at = a /\ r.ctx = x /\ r.idx = n
      /\ r.calls = z.calls /\ r.path = z.path /\ r.symbol = z.symbol
  <2>1. CASE r = [z EXCEPT !.at = a] /\ x = z.ctx /\ n = z.idx
    BY <2>1, Zenon DEF CuThread, Places
  <2>2. CASE r = [z EXCEPT !.at = a, !.ctx = x] /\ n = z.idx
    BY <2>2, Zenon DEF CuThread, Places
  <2>3. CASE r = [z EXCEPT !.at = a, !.ctx = x, !.idx = n]
    BY <2>3, Zenon DEF CuThread, Places
  <2>4. QED
    BY <1>2, <2>1, <2>2, <2>3, Zenon
<1>4. cuth' \in [CuThreads -> CuThread] /\ cuth'[t] = r /\ \A u \in CuThreads : u # t => cuth'[u] = cuth[u]
  BY <1>1, <1>3, Zenon
<1>5. QED
  BY <1>2, <1>3, <1>4, Zenon DEF Placed

(* Steps that do not touch calls.                                          *)
SameCalls == \A u \in CuThreads : /\ cuth'[u].calls = cuth[u].calls /\ cuth'[u].path = cuth[u].path
                                  /\ cuth'[u].symbol = cuth[u].symbol

LEMMA CallsKept ==
  ASSUME CuInv, SameCalls, cu'.domains = cu.domains, cu'.attrs = cu.attrs,
         cu'.up # "finished" => cu.up # "finished"
  PROVE  cu'.up # "finished" => \A t \in CuThreads : CallsSound(cuth[t])'
<1> SUFFICES ASSUME cu'.up # "finished", NEW t \in CuThreads
             PROVE  CallsSound(cuth[t])'
  BY Zenon
<1>1. CallsSound(cuth[t])
  BY Zenon DEF CuInv
<1>2. cuth'[t].calls = cuth[t].calls /\ cuth'[t].path = cuth[t].path /\ cuth'[t].symbol = cuth[t].symbol
  BY Zenon DEF SameCalls
<1>3. SeenOK(cuth[t].calls)' /\ SymbolOK(cuth[t])'
  BY <1>1, <1>2, Zenon DEF CallsSound, SeenOK, SymbolOK
<1>4. QED
  BY <1>1, <1>2, <1>3, Zenon DEF CallsSound
(* Steps of a thread that is neither adding nor removing a context, before *)
(* or after.                                                               *)
LEMMA CuQuiet ==
  ASSUME CuInv, NEW t \in CuThreads, NEW a \in {"run", "event", "read"}, NEW x, NEW n,
         cuth[t].at \in {"run", "event", "read"}, Placed(t, a, x, n),
         cu' \in CuRecord, cu'.domains = cu.domains, cu'.attrs = cu.attrs, cu'.up = cu.up,
         samplingInfo' = samplingInfo, groups' = groups, cuRaced' \in BOOLEAN, cuRaced => cuRaced',
         contexts' \in [Contexts -> {"none", "alive", "gone"}],
         ~cuRaced' =>
           /\ \A y \in Contexts : /\ contexts[y] = "gone" => contexts'[y] = "gone"
                                  /\ contexts[y] # "none" => contexts'[y] # "none"
           /\ \A u \in CuThreads :
                cuth[u].at = "push" => contexts'[cuth[u].ctx] = contexts[cuth[u].ctx]
  PROVE  CuInv'
<1>0. CuTypeOK
  BY Zenon DEF CuInv
<1>1. \A u \in CuThreads :
        /\ cuth'[u].at = "push" <=> cuth[u].at = "push"
        /\ cuth'[u].at = "cleanup" <=> cuth[u].at = "cleanup"
        /\ cuth'[u].at = "erase" <=> cuth[u].at = "erase"
        /\ cuth[u].at \in {"push", "cleanup", "erase"} =>
             cuth'[u].ctx = cuth[u].ctx /\ cuth'[u].idx = cuth[u].idx
  BY Zenon DEF Placed
<1>2. \A u \in CuThreads : Removing(u)' <=> Removing(u)
  BY <1>1, Zenon DEF Removing
<1>3. CuTypeOK'
  <2>1. \A u \in CuThreads : /\ cuth'[u].at = "push" => cuth'[u].ctx \in Contexts
                             /\ Removing(u)' => cuth'[u].ctx \in Contexts /\ cuth'[u].idx > 0
    BY <1>0, <1>1, <1>2, Zenon DEF CuTypeOK, Removing
  <2>2. QED
    BY <1>0, <2>1, Zenon DEF CuTypeOK, Placed
<1>4. cu'.up # "finished" => \A u \in CuThreads : CallsSound(cuth[u])'
  <2>1. SameCalls
    BY Zenon DEF Placed, SameCalls
  <2>2. QED
    BY <2>1, CallsKept, Zenon
<1>5. ASSUME ~cuRaced'
      PROVE  Lists' /\ \A u \in CuThreads : PushSound(u)' /\ RemoveSound(u)'
  <2>0. Lists /\ \A u \in CuThreads : PushSound(u) /\ RemoveSound(u)
    BY <1>5, Zenon DEF CuInv
  <2>1. \A y : Listed(y)' <=> Listed(y)
    BY Zenon DEF Listed
  <2>2. Lists'
    <3>1. \A i \in 1..Len(samplingInfo) : samplingInfo[i] \in Contexts
      BY <1>0 DEF CuTypeOK
    <3>2. \A y \in groups' : Listed(y)' \/ \E u \in CuThreads : cuth'[u].at = "push" /\ cuth'[u].ctx = y
      BY <1>1, <2>0, <2>1 DEF Lists
    <3>3. \A i \in 1..Len(samplingInfo) :
            samplingInfo[i] \in groups \/ \E u \in CuThreads : cuth'[u].at = "erase" /\ cuth'[u].ctx = samplingInfo[i]
      BY <1>1, <2>0 DEF Lists
    <3>4. \A i \in 1..Len(samplingInfo) : contexts'[samplingInfo[i]] # "none"
      BY <1>5, <2>0, <3>1, Zenon DEF Lists
    <3>5. QED
      BY <2>0, <3>2, <3>3, <3>4 DEF Lists
  <2>3. ASSUME NEW u \in CuThreads PROVE PushSound(u)' /\ RemoveSound(u)'
    <3>1. PushSound(u)'
      <4> SUFFICES ASSUME cuth'[u].at = "push" PROVE PushSound(u)'
        BY Zenon DEF PushSound
      <4>1. cuth[u].at = "push" /\ cuth'[u].ctx = cuth[u].ctx /\ PushSound(u)
        BY <1>1, <2>0, Zenon
      <4>2. contexts'[cuth[u].ctx] = "alive"
        BY <1>5, <4>1, Zenon DEF PushSound
      <4>3. \A v \in CuThreads : cuth'[v].at = "push" /\ cuth'[v].ctx = cuth'[u].ctx => v = u
        BY <1>1, <4>1 DEF PushSound
      <4>4. QED
        BY <2>1, <4>1, <4>2, <4>3, Zenon DEF PushSound
    <3>2. RemoveSound(u)'
      <4> SUFFICES ASSUME Removing(u)' PROVE RemoveSound(u)'
        BY Zenon DEF RemoveSound
      <4>1. /\ Removing(u) /\ RemoveSound(u)
            /\ cuth[u].ctx \in Contexts /\ cuth'[u].ctx = cuth[u].ctx /\ cuth'[u].idx = cuth[u].idx
        BY <1>0, <1>1, <1>2, <2>0, Zenon DEF CuTypeOK, Removing
      <4>2. \A v \in CuThreads : Removing(v)' /\ cuth'[v].ctx = cuth'[u].ctx => v = u
        BY <1>1, <1>2, <4>1, ZenonT(60) DEF Removing, RemoveSound
      <4>3. contexts'[cuth[u].ctx] = "gone"
        BY <1>5, <4>1, Zenon DEF RemoveSound
      <4>4. cuth'[u].at = "erase" => cuth'[u].ctx \notin groups
        BY <1>1, <4>1, Zenon DEF RemoveSound
      <4>5. QED
        BY <4>1, <4>2, <4>3, <4>4, Zenon DEF RemoveSound
    <3>3. QED
      BY <3>1, <3>2, Zenon
  <2>4. QED
    BY <2>2, <2>3, Zenon
<1>6. QED
  BY <1>3, <1>4, <1>5, Zenon DEF CuInv

LEMMA CuPushEvent ==
  ASSUME CuInv, NEW t \in CuThreads, cuth[t].at \in {"run", "event"}, PushEvent(t),
         UNCHANGED <<samplingInfo, groups, contexts, cuRaced>>
  PROVE  CuInv'
<1>0. CuTypeOK /\ cuth[t] \in CuThread
  BY Zenon DEF CuInv, CuTypeOK
<1>1. PICK n \in {0, 1} : cu' = [cu EXCEPT !.pushed = @ + n]
  BY Zenon DEF PushEvent
<1>2. cu' \in CuRecord /\ cu'.domains = cu.domains /\ cu'.attrs = cu.attrs /\ cu'.up = cu.up
  <2>1. PICK m \in Nat : m = cu.pushed + n
    BY <1>0 DEF CuTypeOK, CuRecord
  <2>2. cu' = [cu EXCEPT !.pushed = m]
    BY <1>1, <2>1, Zenon
  <2>3. QED
    BY <1>0, <2>2, Zenon DEF CuTypeOK, CuRecord
<1>3. Placed(t, "run", cuth[t].ctx, cuth[t].idx)
  <2>1. cuth' = [cuth EXCEPT ![t] = [cuth[t] EXCEPT !.at = "run"]]
    BY Zenon DEF PushEvent
  <2>2. cuth[t].ctx \in Contexts \cup {0} /\ cuth[t].idx \in Nat /\ "run" \in Places
    BY <1>0, Zenon DEF CuThread, Places
  <2>3. QED
    BY <2>1, <2>2, PlacedBy, Zenon
<1>4. QED
  BY <1>0, <1>2, <1>3, CuQuiet DEF CuTypeOK

LEMMA CuStreamEvent == ASSUME CuInv, NEW t \in CuThreads, StreamEvent(t) PROVE CuInv'
<1>1. cuth[t].at = "run" /\ PushEvent(t) /\ UNCHANGED <<samplingInfo, groups, contexts, cuRaced>>
  BY Zenon DEF StreamEvent, Running
<1>2. QED
  BY <1>1, CuPushEvent, Zenon

LEMMA CuContextEvent == ASSUME CuInv, NEW t \in CuThreads, ContextEvent(t) PROVE CuInv'
<1>1. cuth[t].at = "event" /\ PushEvent(t) /\ UNCHANGED <<samplingInfo, groups, contexts, cuRaced>>
  BY Zenon DEF ContextEvent
<1>2. QED
  BY <1>1, CuPushEvent, Zenon

LEMMA CuSnapshotPick == ASSUME CuInv, NEW t \in CuThreads, SnapshotPick(t) PROVE CuInv'
<1>0. CuTypeOK /\ cuth[t] \in CuThread /\ cuth[t].at = "run"
  BY Zenon DEF CuInv, CuTypeOK, SnapshotPick, Running
<1>1. cu' \in CuRecord /\ cu'.domains = cu.domains /\ cu'.attrs = cu.attrs /\ cu'.up = cu.up
  <2>1. PICK m \in Nat : m = cu.snaps + 1
    BY <1>0 DEF CuTypeOK, CuRecord
  <2>2. cu' = [cu EXCEPT !.snaps = m]
    BY <2>1, Zenon DEF SnapshotPick
  <2>3. QED
    BY <1>0, <2>2, Zenon DEF CuTypeOK, CuRecord
<1>2. ReadFrom \in Contexts
  BY <1>0 DEF CuTypeOK, SnapshotPick, ReadFrom
<1>3. Placed(t, "read", ReadFrom, cuth[t].idx)
  <2>1. cuth' = [cuth EXCEPT ![t] = [cuth[t] EXCEPT !.at = "read", !.ctx = ReadFrom]]
    BY Zenon DEF SnapshotPick
  <2>2. ReadFrom \in Contexts \cup {0} /\ cuth[t].idx \in Nat /\ "read" \in Places
    BY <1>0, <1>2, Zenon DEF CuThread, Places
  <2>3. QED
    BY <2>1, <2>2, PlacedBy, Zenon
<1>4. cuRaced' \in BOOLEAN /\ (cuRaced => cuRaced')
  BY <1>0, Zenon DEF SnapshotPick
<1>5. UNCHANGED <<samplingInfo, groups, contexts>>
  BY Zenon DEF SnapshotPick
<1>6. QED
  BY <1>0, <1>1, <1>3, <1>4, <1>5, CuQuiet DEF CuTypeOK

LEMMA CuSnapshotRead == ASSUME CuInv, NEW t \in CuThreads, SnapshotRead(t) PROVE CuInv'
<1>0. CuTypeOK /\ cuth[t] \in CuThread /\ cuth[t].at = "read"
  BY Zenon DEF CuInv, CuTypeOK, SnapshotRead
<1>1. Placed(t, "run", cuth[t].ctx, cuth[t].idx)
  <2>1. cuth' = [cuth EXCEPT ![t] = [cuth[t] EXCEPT !.at = "run"]]
    BY Zenon DEF SnapshotRead
  <2>2. cuth[t].ctx \in Contexts \cup {0} /\ cuth[t].idx \in Nat /\ "run" \in Places
    BY <1>0, Zenon DEF CuThread, Places
  <2>3. QED
    BY <2>1, <2>2, PlacedBy, Zenon
<1>2. UNCHANGED <<cu, samplingInfo, groups, contexts, cuRaced>>
  BY Zenon DEF SnapshotRead
<1>3. QED
  BY <1>0, <1>1, <1>2, CuQuiet DEF CuTypeOK

(* Steps that leave the contexts and m_sampling_info alone.                *)
LEMMA ListsKept ==
  ASSUME CuInv, cuth' \in [CuThreads -> CuThread], cu' \in CuRecord,
         UNCHANGED <<samplingInfo, groups, contexts, cuRaced>>,
         \A u \in CuThreads : cuth'[u].at = cuth[u].at /\ cuth'[u].ctx = cuth[u].ctx /\ cuth'[u].idx = cuth[u].idx
  PROVE  CuTypeOK' /\ (~cuRaced' => Lists' /\ \A t \in CuThreads : PushSound(t)' /\ RemoveSound(t)')
<1>0. CuTypeOK
  BY Zenon DEF CuInv
<1>1. \A u \in CuThreads : Removing(u)' <=> Removing(u)
  BY Zenon DEF Removing
<1>2. CuTypeOK'
  BY <1>0, <1>1, Zenon DEF CuTypeOK
<1>3. ASSUME ~cuRaced
      PROVE  Lists' /\ \A t \in CuThreads : PushSound(t)' /\ RemoveSound(t)'
  <2>0. Lists /\ \A t \in CuThreads : PushSound(t) /\ RemoveSound(t)
    BY <1>3, Zenon DEF CuInv
  <2>1. \A y : Listed(y)' <=> Listed(y)
    BY Zenon DEF Listed
  <2>2. Lists'
    BY <2>0, <2>1 DEF Lists
  <2>3. \A t \in CuThreads : PushSound(t)'
    BY <2>0, <2>1 DEF PushSound
  <2>4. \A t \in CuThreads : RemoveSound(t)'
    BY <1>1, <2>0, Zenon DEF RemoveSound
  <2>5. QED
    BY <2>2, <2>3, <2>4, Zenon
<1>4. QED
  BY <1>2, <1>3, Zenon

LEMMA CuInitialize == ASSUME CuInv, NEW n, Initialize(n) PROVE CuInv'
<1>0. CuTypeOK /\ cu.up = "off" /\ ~cu.attrs
  BY Zenon DEF CuInv, Initialize
<1>a. PICK s : s = DomainNames([domains |-> cu.names, sampling |-> cu.sampling])
  BY Zenon
<1>b. PICK D : D = {s[i] : i \in 1..n} \cap (KnownDomains \ {"none"})
  BY Zenon
<1>c. PICK k \in BOOLEAN : k = (n = Len(s))
  BY Zenon
<1>1. D \subseteq KnownDomains /\ cu' = [cu EXCEPT !.up = "subscribed", !.domains = D, !.ok = k]
  BY <1>a, <1>b, <1>c, Zenon DEF Initialize
<1>2. cu' \in CuRecord /\ cu'.up = "subscribed" /\ cu'.attrs = cu.attrs /\ cu'.domains = D
  BY <1>0, <1>1, Zenon DEF CuTypeOK, CuRecord
<1>3. UNCHANGED <<samplingInfo, groups, contexts, cuth, cuRaced>>
  BY Zenon DEF Initialize
<1>4. CuTypeOK' /\ (~cuRaced' => Lists' /\ \A t \in CuThreads : PushSound(t)' /\ RemoveSound(t)')
  BY <1>0, <1>2, <1>3, ListsKept, Zenon DEF CuTypeOK
<1>5. \A t \in CuThreads : CallsSound(cuth[t])'
  <2> SUFFICES ASSUME NEW t \in CuThreads PROVE CallsSound(cuth[t])'
    BY Zenon
  <2>1. CallsSound(cuth[t])
    BY <1>0, Zenon DEF CuInv
  <2>2. \A i \in 1..Len(cuth[t].calls) : ~cuth[t].calls[i].seen
    BY <1>0, <2>1, Zenon DEF CallsSound, SeenOK
  <2>3. NamedIn(cuth[t].calls) = {} /\ cuth[t].symbol = NoSymbol
    <3>1. NamedIn(cuth[t].calls) = {}
      BY <2>2, Zenon DEF NamedIn
    <3>2. ~({"runtime", "driver"} \subseteq cu.domains)
      BY <1>0, Zenon DEF CuInv
    <3>3. QED
      BY <2>1, <3>1, <3>2, Zenon DEF CallsSound, SymbolOK
  <2>4. SeenOK(cuth[t].calls)' /\ SymbolOK(cuth[t])'
    BY <1>3, <2>2, <2>3, Zenon DEF SeenOK, SymbolOK
  <2>5. QED
    BY <1>3, <2>1, <2>4, Zenon DEF CallsSound
<1>6. QED
  BY <1>2, <1>4, <1>5, Zenon DEF CuInv

LEMMA CuPostInit == ASSUME CuInv, PostInit PROVE CuInv'
<1>0. CuTypeOK /\ cu.up = "subscribed" /\ ~cu.attrs
  BY Zenon DEF CuInv, PostInit
<1>1. cu' \in CuRecord /\ cu'.up = "subscribed" /\ cu'.domains = cu.domains
  BY <1>0, Zenon DEF PostInit, CuTypeOK, CuRecord
<1>2. UNCHANGED <<samplingInfo, groups, contexts, cuth, cuRaced>>
  BY Zenon DEF PostInit
<1>3. CuTypeOK' /\ (~cuRaced' => Lists' /\ \A t \in CuThreads : PushSound(t)' /\ RemoveSound(t)')
  BY <1>0, <1>1, <1>2, ListsKept, Zenon DEF CuTypeOK
<1>4. \A t \in CuThreads : CallsSound(cuth[t])'
  <2> SUFFICES ASSUME NEW t \in CuThreads PROVE CallsSound(cuth[t])'
    BY Zenon
  <2>1. CallsSound(cuth[t])
    BY <1>0, Zenon DEF CuInv
  <2>2. \A i \in 1..Len(cuth[t].calls) : ~cuth[t].calls[i].seen
    BY <1>0, <2>1, Zenon DEF CallsSound, SeenOK
  <2>3. SeenOK(cuth[t].calls)' /\ SymbolOK(cuth[t])'
    BY <1>1, <1>2, <2>1, <2>2, Zenon DEF CallsSound, SeenOK, SymbolOK
  <2>4. QED
    BY <1>2, <2>1, <2>3, Zenon DEF CallsSound
<1>5. QED
  BY <1>1, <1>3, <1>4, Zenon DEF CuInv
LEMMA EndTyped == ASSUME NEW path \in Seq(Range2), NEW d PROVE EndOf(path, d) \in Seq(Range2)
<1>1. PICK is : is = {i \in DOMAIN path : path[i][1] = d}
  BY Zenon
<1>2. CASE is = {}
  BY <1>1, <1>2, Zenon DEF EndOf
<1>3. CASE is # {}
  <2>1. PICK n \in Nat : n = Len(path) /\ n > 0
    BY <1>1, <1>3
  <2>2. PICK j : j = CHOOSE i \in is : \A m \in is : m <= i
    BY Zenon
  <2>3. EndOf(path, d) = [i \in 1..(n - 1) |-> IF i < j THEN path[i] ELSE path[i + 1]]
    BY <1>1, <1>3, <2>1, <2>2, Zenon DEF EndOf
  <2>4. \A i \in 1..(n - 1) : path[i] \in Range2 /\ path[i + 1] \in Range2
    BY <2>1
  <2>5. EndOf(path, d) \in [1..(n - 1) -> Range2] /\ n - 1 \in Nat
    BY <2>1, <2>3, <2>4
  <2>6. QED
    BY ONLY <2>5
<1>4. QED
  BY <1>2, <1>3, Zenon
(* One thread's calls change, nothing else.                                *)
LEMMA CuCallStep ==
  ASSUME CuInv, NEW t \in CuThreads, NEW cs \in Seq(CallOf), NEW p \in Seq(Range2),
         NEW z \in Symbols \cup {NoSymbol}, NEW n \in Nat,
         cuth' = [cuth EXCEPT ![t] = [cuth[t] EXCEPT !.made = n, !.calls = cs, !.path = p, !.symbol = z]],
         UNCHANGED <<cu, samplingInfo, groups, contexts, cuRaced>>,
         cu.up # "finished" =>
           /\ Nested(cs) /\ SeenOK(cs) /\ Selects(SeenIn(cs), p, RegionsOf(cs))
           /\ ~({"runtime", "driver"} \subseteq cu.domains) =>
                (NamedIn(cs) = {} => z = NoSymbol) /\ \A k \in NamedIn(cs) : z = cs[k].k
  PROVE  CuInv'
<1>0. CuTypeOK /\ cuth \in [CuThreads -> CuThread]
  BY Zenon DEF CuInv, CuTypeOK
<1>1. PICK y \in CuThread : y = cuth[t]
  BY <1>0, Zenon
<1>2. PICK r : r = [y EXCEPT !.made = n, !.calls = cs, !.path = p, !.symbol = z]
  BY Zenon
<1>3. /\ r \in CuThread /\ r.calls = cs /\ r.path = p /\ r.symbol = z
      /\ r.at = y.at /\ r.ctx = y.ctx /\ r.idx = y.idx
  BY <1>2, Zenon DEF CuThread
<1>4. cuth' \in [CuThreads -> CuThread] /\ cuth'[t] = r /\ \A u \in CuThreads : u # t => cuth'[u] = cuth[u]
  BY <1>0, <1>1, <1>2, <1>3, Zenon
<1>5. \A u \in CuThreads : cuth'[u].at = cuth[u].at /\ cuth'[u].ctx = cuth[u].ctx /\ cuth'[u].idx = cuth[u].idx
  BY <1>1, <1>3, <1>4, Zenon
<1>6. CuTypeOK' /\ (~cuRaced' => Lists' /\ \A u \in CuThreads : PushSound(u)' /\ RemoveSound(u)')
  BY <1>0, <1>4, <1>5, ListsKept, Zenon DEF CuTypeOK
<1>7. ASSUME cu'.up # "finished", NEW u \in CuThreads
      PROVE  CallsSound(cuth[u])'
  <2>1. CASE u # t
    <3>1. cuth'[u] = cuth[u] /\ CallsSound(cuth[u])
      BY <1>4, <1>7, <2>1, Zenon DEF CuInv
    <3>a. /\ cuth'[u].calls = cuth[u].calls /\ cuth'[u].path = cuth[u].path /\ cuth'[u].symbol = cuth[u].symbol
          /\ cu' = cu
      BY <3>1, Zenon
    <3>2. SeenOK(cuth[u].calls)' /\ SymbolOK(cuth[u])'
      <4>1. SeenOK(cuth[u].calls)'
        <5>1. PICK q : q = cuth[u].calls
          BY Zenon
        <5>2. SeenOK(q)
          BY <3>1, <5>1, Zenon DEF CallsSound
        <5>3. SeenOK(q)'
          BY <3>a, <5>2, Zenon DEF SeenOK
        <5>4. q = cuth'[u].calls
          BY <3>a, <5>1, Zenon
        <5>5. QED
          BY <5>3, <5>4, Zenon
      <4>2. SymbolOK(cuth[u])'
        BY <3>1, <3>a, Zenon DEF CallsSound, SymbolOK
      <4>3. QED
        BY <4>1, <4>2, Zenon
    <3>3. QED
      BY <3>1, <3>2, <3>a, Zenon DEF CallsSound
  <2>2. CASE u = t
    <3>1. SeenOK(cs)' /\ SymbolOK(r)'
      BY <1>3, <1>7, Zenon DEF SeenOK, SymbolOK
    <3>2. QED
      BY <1>3, <1>4, <1>7, <2>2, <3>1 DEF CallsSound, SymbolOK, SeenOK
  <2>3. QED
    BY <2>1, <2>2, Zenon
<1>8. QED
  BY <1>6, <1>7, Zenon DEF CuInv

LEMMA CuEnter ==
  ASSUME CuInv, NEW t \in CuThreads, NEW d \in ApiDomains, NEW f \in Functions, NEW k \in Symbols,
         Enter(t, d, f, k)
  PROVE  CuInv'
<1>0. CuTypeOK /\ cuth[t] \in CuThread
  BY Zenon DEF CuInv, CuTypeOK
<1>1. PICK cs \in Seq(CallOf), p \in Seq(Range2), z \in Symbols \cup {NoSymbol}, n \in Nat :
        cs = cuth[t].calls /\ p = cuth[t].path /\ z = cuth[t].symbol /\ n = cuth[t].made
  BY <1>0, Zenon DEF CuThread
<1>2. PICK seen \in BOOLEAN : seen = (Subscribed(d) /\ cu.attrs)
  BY Zenon
<1>3. PICK c : c = [d |-> d, f |-> f, k |-> k, seen |-> seen]
  BY Zenon
<1>4. c \in CallOf /\ c.d = d /\ c.f = f /\ c.k = k /\ c.seen = seen
  BY <1>3, Zenon DEF CallOf
<1>5. PICK e \in Range2 : e = <<d, f>>
  BY Zenon DEF Range2
<1>6. PICK q : q = Append(cs, c)
  BY Zenon
<1>7. q \in Seq(CallOf) /\ Len(q) = Len(cs) + 1 /\ q[Len(cs) + 1] = c
      /\ (\A i \in 1..Len(cs) : q[i] = cs[i]) /\ Len(cs) \in Nat
  BY <1>4, <1>6
<1>8. PICK w : w = IF seen THEN Append(p, e) ELSE p
  BY Zenon
<1>9. PICK y : y = IF seen /\ k # NoSymbol THEN k ELSE z
  BY Zenon
<1>10. w \in Seq(Range2) /\ y \in Symbols \cup {NoSymbol} /\ n + 1 \in Nat
  BY <1>8, <1>9
<1>11. cuth' = [cuth EXCEPT ![t] = [cuth[t] EXCEPT !.made = n + 1, !.calls = q, !.path = w, !.symbol = y]]
  BY <1>1, <1>2, <1>3, <1>5, <1>6, <1>8, <1>9, ZenonT(60) DEF Enter
<1>12. UNCHANGED <<cu, samplingInfo, groups, contexts, cuRaced>>
  BY Zenon DEF Enter
<1>13. ASSUME cu.up # "finished"
       PROVE  /\ Nested(q) /\ SeenOK(q) /\ Selects(SeenIn(q), w, RegionsOf(q))
              /\ ~({"runtime", "driver"} \subseteq cu.domains) =>
                   (NamedIn(q) = {} => y = NoSymbol) /\ \A i \in NamedIn(q) : y = q[i].k
  <2>0. CallsSound(cuth[t])
    BY <1>13, Zenon DEF CuInv
  <2>1. Nested(cs) /\ SeenOK(cs) /\ Selects(SeenIn(cs), p, RegionsOf(cs)) /\ SymbolOK(cuth[t])
    BY <1>1, <2>0, Zenon DEF CallsSound
  <2>a. \A i \in 1..Len(cs) : cs[i] \in CallOf
    OBVIOUS
  <2>2. \A i \in 1..Len(cs) : cs[i] \in CallOf /\ cs[i].d \in ApiDomains
    BY <2>a, Zenon DEF CallOf
  <2>3. \A i \in 1..Len(cs) : cs[i].d = "nvtx" \/ (d = "driver" /\ cs[i].d = "runtime")
    <3>1. \A i \in 1..Len(cs) : i \in DOMAIN cs
      OBVIOUS
    <3>2. \A i \in DOMAIN cs : /\ d = "driver" \/ cs[i].d = "nvtx"
                               /\ d = "driver" => cs[i].d # "driver"
      BY <1>1, ZenonT(60) DEF Enter
    <3>3. ASSUME NEW i \in 1..Len(cs)
          PROVE  cs[i].d = "nvtx" \/ (d = "driver" /\ cs[i].d = "runtime")
      <4>1. /\ d = "driver" \/ cs[i].d = "nvtx"
            /\ d = "driver" => cs[i].d # "driver"
        BY <3>1, <3>2, Zenon
      <4>2. cs[i].d \in {"runtime", "driver", "nvtx"}
        BY <2>2, Zenon DEF ApiDomains
      <4>3. QED
        BY <4>1, <4>2, Zenon
    <3>4. QED
      BY <3>3, Zenon
  <2>4. d = "nvtx" => k = NoSymbol
    BY Zenon DEF Enter
  <2>5. \A i \in 1..Len(q) : i \in 1..Len(cs) \/ i = Len(cs) + 1
    BY <1>7
  <2>6. Nested(q)
    BY <1>4, <1>7, <2>1, <2>3, <2>4, <2>5, SMTT(30) DEF Nested
  <2>7. seen => cu.attrs /\ d \in cu.domains
    BY <1>2, Zenon DEF Subscribed
  <2>8. \A i \in 1..Len(cs) : cs[i].seen /\ cs[i].d = d => seen
    <3> SUFFICES ASSUME NEW i \in 1..Len(cs), cs[i].seen, cs[i].d = d PROVE seen
      BY Zenon
    <3>1. cu.attrs /\ d \in cu.domains
      BY <2>1, Zenon DEF SeenOK
    <3>2. cu.up # "off"
      BY <3>1, Zenon DEF CuInv
    <3>3. cu.up = "subscribed"
      BY <1>0, <1>13, <3>2, Zenon DEF CuTypeOK, CuRecord
    <3>4. QED
      BY <1>2, <3>1, <3>3, Zenon DEF Subscribed
  <2>9. SeenOK(q)
    BY <1>4, <1>7, <2>1, <2>5, <2>7, <2>8 DEF SeenOK
  <2>10. Selects(SeenIn(q), w, RegionsOf(q))
    <3>1. PICK r \in Seq(Range2) : r = RegionsOf(cs) /\ Len(r) = Len(cs)
      BY RegionsTyped, Zenon
    <3>2. RegionsOf(q) = Append(r, e)
      BY <1>4, <1>5, <1>6, <3>1, RegionsAppend, Zenon
    <3>3. \A i \in 1..Len(r) : i \in SeenIn(q) <=> i \in SeenIn(cs)
      BY <1>7, <3>1 DEF SeenIn
    <3>4. Len(r) + 1 \in SeenIn(q) <=> seen
      BY <1>4, <1>7, <3>1 DEF SeenIn
    <3>5. Selects(SeenIn(cs), p, r)
      BY <2>1, <3>1, Zenon
    <3>6. IF Len(r) + 1 \in SeenIn(q) THEN Selects(SeenIn(q), Append(p, e), Append(r, e))
          ELSE Selects(SeenIn(q), p, Append(r, e))
      BY <3>3, <3>5, SelectsAppend, Zenon
    <3>7. QED
      BY <1>8, <3>2, <3>4, <3>6, Zenon
  <2>11. ASSUME ~({"runtime", "driver"} \subseteq cu.domains)
         PROVE  (NamedIn(q) = {} => y = NoSymbol) /\ \A i \in NamedIn(q) : y = q[i].k
    <3>1. (NamedIn(cs) = {} => z = NoSymbol) /\ \A i \in NamedIn(cs) : z = cs[i].k
      BY <1>1, <2>1, <2>11, Zenon DEF SymbolOK
    <3>2. \A i \in 1..Len(cs) : i \in NamedIn(q) <=> i \in NamedIn(cs)
      BY <1>7 DEF NamedIn
    <3>3. Len(cs) + 1 \in NamedIn(q) <=> seen /\ k # NoSymbol
      BY <1>4, <1>7 DEF NamedIn
    <3>4. \A i \in NamedIn(q) : i \in NamedIn(cs) \/ i = Len(cs) + 1
      BY <2>5, <3>2, Zenon DEF NamedIn
    <3>5. \A i \in NamedIn(cs) : i \in 1..Len(cs) /\ i \in NamedIn(q)
      BY <3>2, Zenon DEF NamedIn
    <3>6. CASE seen /\ k # NoSymbol
      <4>1. NamedIn(cs) = {}
        <5> SUFFICES ASSUME NEW i \in NamedIn(cs) PROVE FALSE
          BY Zenon
        <5>1. i \in 1..Len(cs) /\ cs[i].seen /\ cs[i].k # NoSymbol
          BY Zenon DEF NamedIn
        <5>2. cs[i].d # "nvtx" /\ cs[i].d \in cu.domains
          BY <2>1, <5>1, Zenon DEF Nested, SeenOK
        <5>3. d = "driver" /\ cs[i].d = "runtime"
          BY <2>3, <5>1, <5>2, Zenon
        <5>4. QED
          BY <2>7, <2>11, <3>6, <5>2, <5>3, Zenon
      <4>2. y = k /\ \A i \in NamedIn(q) : i = Len(cs) + 1
        BY <1>9, <3>4, <3>6, <4>1, Zenon
      <4>3. QED
        BY <1>4, <1>7, <3>3, <3>6, <4>2, Zenon
    <3>7. CASE ~(seen /\ k # NoSymbol)
      <4>1. y = z /\ NamedIn(q) = NamedIn(cs)
        BY <1>9, <3>3, <3>4, <3>5, <3>7, Zenon
      <4>2. \A i \in NamedIn(cs) : q[i] = cs[i]
        BY <1>7, <3>5, Zenon
      <4>3. QED
        BY <3>1, <4>1, <4>2, Zenon
    <3>8. QED
      BY <3>6, <3>7, Zenon
  <2>12. QED
    BY <2>6, <2>9, <2>10, <2>11, Zenon
<1>14. QED
  BY <1>7, <1>10, <1>11, <1>12, <1>13, CuCallStep, Zenon

LEMMA CuExits == ASSUME CuInv, NEW t \in CuThreads, CuExit(t) PROVE CuInv'
<1>0. CuTypeOK /\ cuth[t] \in CuThread
  BY Zenon DEF CuInv, CuTypeOK
<1>1. PICK cs \in Seq(CallOf), p \in Seq(Range2), z \in Symbols \cup {NoSymbol}, n \in Nat :
        cs = cuth[t].calls /\ p = cuth[t].path /\ z = cuth[t].symbol /\ n = cuth[t].made
  BY <1>0, Zenon DEF CuThread
<1>2. cs # <<>>
  BY <1>1, Zenon DEF CuExit
<1>3. PICK m \in Nat : m = Len(cs) /\ m > 0
  BY <1>2
<1>4. PICK c \in CallOf : c = cs[m]
  BY <1>3
<1>5. PICK heard \in BOOLEAN : heard = (Subscribed(c.d) /\ cu.attrs)
  BY Zenon
<1>6. PICK q : q = AllButLast(cs)
  BY Zenon
<1>7. q \in Seq(CallOf) /\ Len(q) = m - 1 /\ \A i \in 1..(m - 1) : q[i] = cs[i]
  BY <1>2, <1>3, <1>6, LastGone, Zenon
<1>8. PICK w : w = IF heard THEN EndOf(p, c.d) ELSE p
  BY Zenon
<1>9. PICK y : y = IF heard THEN (IF c.k # NoSymbol THEN NoSymbol ELSE z) ELSE z
  BY Zenon
<1>10. y \in Symbols \cup {NoSymbol}
  BY <1>9, Zenon
<1>11. w \in Seq(Range2)
  BY <1>8, EndTyped, Zenon
<1>12. cuth' = [cuth EXCEPT ![t] = [cuth[t] EXCEPT !.made = n, !.calls = q, !.path = w, !.symbol = y]]
  <2>1. cuth' = [cuth EXCEPT ![t] = [cuth[t] EXCEPT !.calls = q, !.path = w, !.symbol = y]]
    BY <1>1, <1>3, <1>4, <1>5, <1>6, <1>8, <1>9, Zenon DEF CuExit, EndSymbol, AllButLast
  <2>2. [cuth[t] EXCEPT !.calls = q, !.path = w, !.symbol = y]
          = [cuth[t] EXCEPT !.made = n, !.calls = q, !.path = w, !.symbol = y]
    BY <1>0, <1>1, Zenon DEF CuThread
  <2>3. QED
    BY <2>1, <2>2, Zenon
<1>13. UNCHANGED <<cu, samplingInfo, groups, contexts, cuRaced>>
  BY Zenon DEF CuExit
<1>14. ASSUME cu.up # "finished"
       PROVE  /\ Nested(q) /\ SeenOK(q) /\ Selects(SeenIn(q), w, RegionsOf(q))
              /\ ~({"runtime", "driver"} \subseteq cu.domains) =>
                   (NamedIn(q) = {} => y = NoSymbol) /\ \A i \in NamedIn(q) : y = q[i].k
  <2>0. CallsSound(cuth[t])
    BY <1>14, Zenon DEF CuInv
  <2>1. Nested(cs) /\ SeenOK(cs) /\ Selects(SeenIn(cs), p, RegionsOf(cs)) /\ SymbolOK(cuth[t])
    BY <1>1, <2>0, Zenon DEF CallsSound
  <2>2. \A i \in 1..Len(q) : i \in 1..Len(cs) /\ i < m /\ m \in 1..Len(cs)
    BY <1>3, <1>7
  <2>3. Nested(q) /\ SeenOK(q)
    BY <1>3, <1>7, <2>1, <2>2, ZenonT(60) DEF Nested, SeenOK
  <2>4. c.seen => heard
    <3> SUFFICES ASSUME c.seen PROVE heard
      BY Zenon
    <3>1. cu.attrs /\ c.d \in cu.domains
      BY <1>3, <1>4, <2>1 DEF SeenOK
    <3>2. cu.up = "subscribed"
      BY <1>0, <1>14, <3>1, Zenon DEF CuInv, CuTypeOK, CuRecord
    <3>3. QED
      BY <1>5, <3>1, <3>2, Zenon DEF Subscribed
  <2>5. Selects(SeenIn(q), w, RegionsOf(q))
    <3>1. PICK r \in Seq(Range2) : /\ r = RegionsOf(cs) /\ Len(r) = m
                                   /\ \A i \in 1..m : r[i] = <<cs[i].d, cs[i].f>>
      BY <1>3, RegionsTyped, Zenon
    <3>2. r # <<>> /\ RegionsOf(q) = AllButLast(r)
      BY <1>2, <1>6, <3>1, RegionsPop, Zenon
    <3>3. \A i \in 1..(Len(r) - 1) : i \in SeenIn(q) <=> i \in SeenIn(cs)
      BY <1>3, <1>7, <3>1 DEF SeenIn
    <3>4. Len(r) \in SeenIn(cs) <=> c.seen
      BY <1>3, <1>4, <3>1 DEF SeenIn
    <3>5. Selects(SeenIn(cs), p, r)
      BY <2>1, <3>1, Zenon
    <3>6. IF Len(r) \in SeenIn(cs)
          THEN p # <<>> /\ p[Len(p)] = r[Len(r)] /\ Selects(SeenIn(q), AllButLast(p), AllButLast(r))
          ELSE Selects(SeenIn(q), p, AllButLast(r))
      BY <3>2, <3>3, <3>5, SelectsPop, Zenon
    <3>7. CASE c.seen
      <4>1. p[Len(p)][1] = c.d
        BY <1>3, <1>4, <3>1, <3>4, <3>6, <3>7
      <4>2. w = AllButLast(p)
        BY <1>8, <2>4, <3>4, <3>6, <3>7, <4>1, EndLast, Zenon
      <4>3. QED
        BY <3>2, <3>4, <3>6, <3>7, <4>2, Zenon
    <3>8. CASE ~c.seen
      <4>1. \A i \in 1..Len(p) : p[i][1] # c.d
        <5> SUFFICES ASSUME NEW i \in 1..Len(p), p[i][1] = c.d PROVE FALSE
          BY Zenon
        <5>1. PICK h \in 1..Len(r) : h \in SeenIn(cs) /\ p[i] = r[h]
          BY <3>5, Zenon DEF Selects
        <5>2. h \in 1..m /\ cs[h].seen /\ cs[h].d = c.d
          BY <3>1, <5>1 DEF SeenIn
        <5>3. h # m
          BY <1>4, <3>8, <5>2, Zenon
        <5>4. h < m /\ m \in 1..Len(cs) /\ h \in 1..Len(cs)
          BY <1>3, <5>2, <5>3
        <5>5. cs[m].seen
          BY <1>4, <2>1, <5>2, <5>4, Zenon DEF SeenOK
        <5>6. QED
          BY <1>4, <3>8, <5>5, Zenon
      <4>2. w = p
        BY <1>8, <4>1, EndNone, Zenon
      <4>3. QED
        BY <3>2, <3>4, <3>6, <3>8, <4>2, Zenon
    <3>9. QED
      BY <3>7, <3>8, Zenon
  <2>6. ASSUME ~({"runtime", "driver"} \subseteq cu.domains)
        PROVE  (NamedIn(q) = {} => y = NoSymbol) /\ \A i \in NamedIn(q) : y = q[i].k
    <3>1. (NamedIn(cs) = {} => z = NoSymbol) /\ \A i \in NamedIn(cs) : z = cs[i].k
      BY <1>1, <2>1, <2>6, Zenon DEF SymbolOK
    <3>2. \A i \in NamedIn(q) : i \in NamedIn(cs) /\ i < m /\ q[i] = cs[i]
      BY <1>3, <1>7 DEF NamedIn
    <3>3. \A i \in NamedIn(cs) : i \in NamedIn(q) \/ i = m
      BY <1>3, <1>7 DEF NamedIn
    <3>4. CASE heard /\ c.k # NoSymbol
      <4>1. NamedIn(q) = {}
        <5> SUFFICES ASSUME NEW i \in NamedIn(q) PROVE FALSE
          BY Zenon
        <5>1. i \in 1..Len(cs) /\ i < m /\ m \in 1..Len(cs) /\ cs[i].seen /\ cs[i].k # NoSymbol
          BY <1>3, <3>2 DEF NamedIn
        <5>2. cs[i].d # "nvtx" /\ cs[i].d \in cu.domains
          BY <2>1, <5>1, Zenon DEF Nested, SeenOK
        <5>3. cs[i].d = "runtime" /\ c.d = "driver"
          BY <1>4, <2>1, <5>1, <5>2, Zenon DEF Nested
        <5>4. c.d \in cu.domains
          BY <1>5, <3>4, Zenon DEF Subscribed
        <5>5. QED
          BY <2>6, <5>2, <5>3, <5>4, Zenon
      <4>2. QED
        BY <1>9, <3>4, <4>1, Zenon
    <3>5. CASE ~(heard /\ c.k # NoSymbol)
      <4>1. y = z
        BY <1>9, <3>5, Zenon
      <4>2. m \notin NamedIn(cs)
        BY <1>4, <2>4, <3>5, Zenon DEF NamedIn
      <4>3. NamedIn(q) = NamedIn(cs)
        BY <3>2, <3>3, <4>2, Zenon
      <4>4. QED
        BY <3>1, <3>2, <4>1, <4>3, Zenon
    <3>6. QED
      BY <3>4, <3>5, Zenon
  <2>7. QED
    BY <2>3, <2>5, <2>6, Zenon
<1>15. QED
  BY <1>7, <1>10, <1>11, <1>12, <1>13, <1>14, CuCallStep, Zenon
LEMMA CuCreateContext ==
  ASSUME CuInv, NEW t \in CuThreads, NEW x \in Contexts, CreateContext(t, x)
  PROVE  CuInv'
<1>0. CuTypeOK /\ cuth[t] \in CuThread /\ cuth[t].at = "run" /\ contexts[x] = "none"
  BY Zenon DEF CuInv, CuTypeOK, CreateContext, Running
<1>1. /\ cuth[t].ctx \in Contexts \cup {0} /\ cuth[t].idx \in Nat
      /\ "run" \in Places /\ "event" \in Places /\ "push" \in Places
  BY <1>0, Zenon DEF CuThread, Places
<1>2. /\ contexts' = [contexts EXCEPT ![x] = "alive"]
      /\ contexts' \in [Contexts -> {"none", "alive", "gone"}] /\ contexts'[x] = "alive"
      /\ \A y \in Contexts : y # x => contexts'[y] = contexts[y]
  BY <1>0, Zenon DEF CreateContext, CuTypeOK
<1>3. UNCHANGED <<cu, samplingInfo, cuRaced>>
  BY Zenon DEF CreateContext
<1>4. ~cuRaced => \A u \in CuThreads : /\ cuth[u].at = "push" => contexts[cuth[u].ctx] = "alive"
                                       /\ Removing(u) => contexts[cuth[u].ctx] = "gone"
  BY Zenon DEF CuInv, PushSound, RemoveSound
<1>5. CASE groups' = groups /\ (cuth' = cuth \/ cuth' = [cuth EXCEPT ![t].at = "event"])
  <2>1. PICK a \in {"run", "event"} : Placed(t, a, cuth[t].ctx, cuth[t].idx)
    <3>1. CASE cuth' = cuth
      BY <1>0, <3>1, Zenon DEF Placed, CuTypeOK
    <3>2. CASE cuth' = [cuth EXCEPT ![t].at = "event"]
      BY <1>1, <3>2, PlacedBy, Zenon
    <3>3. QED
      BY <1>5, <3>1, <3>2, Zenon
  <2>2. ~cuRaced' => \A u \in CuThreads : cuth[u].at = "push" => contexts'[cuth[u].ctx] = contexts[cuth[u].ctx]
    BY <1>0, <1>2, <1>3, <1>4, Zenon DEF CuTypeOK
  <2>3. \A y \in Contexts : /\ contexts[y] = "gone" => contexts'[y] = "gone"
                            /\ contexts[y] # "none" => contexts'[y] # "none"
    BY <1>0, <1>2, Zenon
  <2>4. a \in {"run", "event", "read"}
    BY <2>1, Zenon
  <2>5. QED
    BY <1>0, <1>2, <1>3, <1>5, <2>1, <2>2, <2>3, <2>4, CuQuiet DEF CuTypeOK
<1>6. CASE groups' = groups \cup {x} /\ cuth' = [cuth EXCEPT ![t].at = "push", ![t].ctx = x]
  <2>1. Placed(t, "push", x, cuth[t].idx)
    BY <1>1, <1>6, PlacedBy, Zenon
  <2>2. groups' \subseteq Contexts
    BY <1>0, <1>6, Zenon DEF CuTypeOK
  <2>3. CuTypeOK' /\ cu' = cu /\ SameCalls
    <3>1. \A u \in CuThreads : /\ cuth'[u].at = "push" => cuth'[u].ctx \in Contexts
                               /\ Removing(u)' => cuth'[u].ctx \in Contexts /\ cuth'[u].idx > 0
      BY <1>0, <2>1, Zenon DEF CuTypeOK, Placed, Removing
    <3>2. QED
      BY <1>0, <1>2, <1>3, <2>1, <2>2, <3>1, Zenon DEF CuTypeOK, Placed, SameCalls
  <2>4. ASSUME ~cuRaced'
        PROVE  Lists' /\ \A u \in CuThreads : PushSound(u)' /\ RemoveSound(u)'
    <3>0. Lists /\ (\A u \in CuThreads : PushSound(u) /\ RemoveSound(u)) /\ ~cuRaced
      BY <1>3, <2>4, Zenon DEF CuInv
    <3>1. \A y : Listed(y)' <=> Listed(y)
      BY <1>3, Zenon DEF Listed
    <3>2. ~Listed(x)
      BY <1>0, <3>0 DEF Lists, Listed
    <3>3. \A i \in 1..Len(samplingInfo) : samplingInfo[i] \in Contexts /\ samplingInfo[i] # x
      BY <1>0, <3>2 DEF CuTypeOK, Listed
    <3>4. /\ cuth'[t].at = "push" /\ cuth'[t].ctx = x /\ ~Removing(t) /\ ~Removing(t)'
          /\ \A u \in CuThreads : u # t => cuth'[u] = cuth[u] /\ (Removing(u)' <=> Removing(u))
      BY <1>0, <2>1, Zenon DEF Placed, Removing
    <3>5. Lists'
      <4>1. \A y \in groups' : Listed(y)' \/ \E u \in CuThreads : cuth'[u].at = "push" /\ cuth'[u].ctx = y
        <5> SUFFICES ASSUME NEW y \in groups', ~Listed(y)
                     PROVE  \E u \in CuThreads : cuth'[u].at = "push" /\ cuth'[u].ctx = y
          BY <3>1, Zenon
        <5>1. CASE y = x
          BY <3>4, <5>1, Zenon
        <5>2. CASE y # x
          <6>1. PICK u \in CuThreads : cuth[u].at = "push" /\ cuth[u].ctx = y
            BY <1>6, <3>0, <5>2, Zenon DEF Lists
          <6>2. u # t
            BY <1>0, <6>1, Zenon
          <6>3. QED
            BY <3>4, <6>1, <6>2, Zenon
        <5>3. QED
          BY <5>1, <5>2, Zenon
      <4>2. ASSUME NEW i \in 1..Len(samplingInfo)
            PROVE  /\ contexts'[samplingInfo[i]] # "none"
                   /\ \/ samplingInfo[i] \in groups'
                      \/ \E u \in CuThreads : cuth'[u].at = "erase" /\ cuth'[u].ctx = samplingInfo[i]
        <5>1. contexts'[samplingInfo[i]] # "none"
          BY <1>2, <3>0, <3>3, Zenon DEF Lists
        <5>2. CASE samplingInfo[i] \in groups
          BY <1>6, <5>1, <5>2, Zenon
        <5>3. CASE \E u \in CuThreads : cuth[u].at = "erase" /\ cuth[u].ctx = samplingInfo[i]
          <6>1. PICK u \in CuThreads : cuth[u].at = "erase" /\ cuth[u].ctx = samplingInfo[i]
            BY <5>3, Zenon
          <6>2. u # t
            BY <1>0, <6>1, Zenon
          <6>3. QED
            BY <3>4, <5>1, <6>1, <6>2, Zenon
        <5>4. QED
          BY <3>0, <5>2, <5>3, Zenon DEF Lists
      <4>3. QED
        BY <1>3, <3>0, <4>1, <4>2 DEF Lists
    <3>6. ASSUME NEW u \in CuThreads PROVE PushSound(u)' /\ RemoveSound(u)'
      <4>1. CASE u = t
        <5>1. \A v \in CuThreads : cuth'[v].at = "push" /\ cuth'[v].ctx = x => v = t
          BY <1>0, <1>4, <3>0, <3>4, Zenon
        <5>2. x \in groups'
          BY <1>6, Zenon
        <5>3. QED
          BY <1>2, <3>1, <3>2, <3>4, <4>1, <5>1, <5>2, Zenon DEF PushSound, RemoveSound
      <4>2. CASE u # t
        <5>1. cuth'[u] = cuth[u] /\ (Removing(u)' <=> Removing(u))
          BY <3>4, <4>2, Zenon
        <5>2. cuth[u].at = "push" \/ Removing(u) => cuth[u].ctx \in Contexts /\ cuth[u].ctx # x
          BY <1>0, <1>4, <3>0, Zenon DEF CuTypeOK
        <5>3. PushSound(u)'
          <6> SUFFICES ASSUME cuth[u].at = "push" PROVE PushSound(u)'
            BY <5>1, Zenon DEF PushSound
          <6>1. PushSound(u) /\ contexts'[cuth[u].ctx] = contexts[cuth[u].ctx] /\ groups \subseteq groups'
            BY <1>2, <1>6, <3>0, <5>2, Zenon
          <6>2. \A v \in CuThreads : cuth'[v].at = "push" /\ cuth'[v].ctx = cuth'[u].ctx => v = u
            BY <3>4, <5>1, <5>2, <6>1, Zenon DEF PushSound
          <6>3. QED
            BY <3>1, <5>1, <6>1, <6>2, Zenon DEF PushSound
        <5>4. RemoveSound(u)'
          <6> SUFFICES ASSUME Removing(u) PROVE RemoveSound(u)'
            BY <5>1, Zenon DEF RemoveSound
          <6>1. RemoveSound(u) /\ contexts'[cuth[u].ctx] = contexts[cuth[u].ctx]
            BY <1>2, <3>0, <5>2, Zenon
          <6>2. \A v \in CuThreads : Removing(v)' /\ cuth'[v].ctx = cuth'[u].ctx => v = u
            BY <3>4, <5>1, <6>1, Zenon DEF RemoveSound
          <6>3. cuth'[u].at = "erase" => cuth'[u].ctx \notin groups'
            BY <1>6, <5>1, <5>2, <6>1 DEF RemoveSound
          <6>4. QED
            BY <1>3, <5>1, <6>1, <6>2, <6>3, Zenon DEF RemoveSound
        <5>5. QED
          BY <5>3, <5>4, Zenon
      <4>3. QED
        BY <4>1, <4>2, Zenon
    <3>7. QED
      BY <3>5, <3>6, Zenon
  <2>5. cu'.up # "finished" => \A u \in CuThreads : CallsSound(cuth[u])'
    BY <2>3, CallsKept, Zenon
  <2>6. QED
    BY <2>3, <2>4, <2>5, Zenon DEF CuInv
<1>7. QED
  BY <1>5, <1>6, Zenon DEF CreateContext

LEMMA CuPushInfo == ASSUME CuInv, NEW t \in CuThreads, PushInfo(t) PROVE CuInv'
<1>0. CuTypeOK /\ cuth[t] \in CuThread /\ cuth[t].at = "push"
  BY Zenon DEF CuInv, CuTypeOK, PushInfo
<1>1. PICK x \in Contexts : x = cuth[t].ctx
  BY <1>0, Zenon DEF CuTypeOK
<1>2. Placed(t, "event", x, cuth[t].idx)
  <2>1. cuth' = [cuth EXCEPT ![t] = [cuth[t] EXCEPT !.at = "event"]]
    BY Zenon DEF PushInfo
  <2>2. x \in Contexts \cup {0} /\ cuth[t].idx \in Nat /\ "event" \in Places
    BY <1>0, Zenon DEF CuThread, Places
  <2>3. QED
    BY <1>1, <2>1, <2>2, PlacedBy, Zenon
<1>3. /\ samplingInfo' \in Seq(Contexts) /\ Len(samplingInfo') = Len(samplingInfo) + 1
      /\ samplingInfo'[Len(samplingInfo) + 1] = x /\ Len(samplingInfo) \in Nat
      /\ \A i \in 1..Len(samplingInfo) : samplingInfo'[i] = samplingInfo[i]
  BY <1>0, <1>1 DEF PushInfo, CuTypeOK
<1>4. UNCHANGED <<cu, groups, contexts>> /\ cuRaced' \in BOOLEAN
      /\ (~cuRaced' => ~cuRaced /\ \A u \in CuThreads : ~Removing(u))
  BY <1>0, Zenon DEF PushInfo, CuTypeOK
<1>5. /\ cuth'[t].at = "event"
      /\ \A u \in CuThreads : /\ u # t => cuth'[u] = cuth[u]
                              /\ Removing(u)' <=> Removing(u)
  BY <1>0, <1>2, Zenon DEF Placed, Removing
<1>6. CuTypeOK' /\ SameCalls
  <2>1. \A u \in CuThreads : /\ cuth'[u].at = "push" => cuth'[u].ctx \in Contexts
                             /\ Removing(u)' => cuth'[u].ctx \in Contexts /\ cuth'[u].idx > 0
    BY <1>0, <1>5, Zenon DEF CuTypeOK, Removing
  <2>2. QED
    BY <1>0, <1>2, <1>3, <1>4, <2>1, Zenon DEF CuTypeOK, Placed, SameCalls
<1>7. ASSUME ~cuRaced'
      PROVE  Lists' /\ \A u \in CuThreads : PushSound(u)' /\ RemoveSound(u)'
  <2>0. Lists /\ (\A u \in CuThreads : PushSound(u) /\ RemoveSound(u)) /\ \A u \in CuThreads : ~Removing(u)
    BY <1>4, <1>7, Zenon DEF CuInv
  <2>a. PICK m \in Nat : m = Len(samplingInfo)
    BY <1>3, Zenon
  <2>b. /\ Len(samplingInfo') = m + 1 /\ samplingInfo'[m + 1] = x
        /\ \A i \in 1..m : samplingInfo'[i] = samplingInfo[i]
    BY <1>3, <2>a, Zenon
  <2>1. /\ \A i \in 1..(m + 1) : i \in 1..m \/ i = m + 1
        /\ \A i \in 1..m : i \in 1..(m + 1) /\ i # m + 1
        /\ m + 1 \in 1..(m + 1)
    BY ONLY m \in Nat
  <2>2. \A y : Listed(y)' <=> Listed(y) \/ y = x
    <3> SUFFICES ASSUME NEW y PROVE Listed(y)' <=> Listed(y) \/ y = x
      BY Zenon
    <3>1. Listed(y)' => Listed(y) \/ y = x
      BY <2>a, <2>b, <2>1, Zenon DEF Listed
    <3>2. Listed(y) => Listed(y)'
      BY <2>a, <2>b, <2>1, Zenon DEF Listed
    <3>3. Listed(x)'
      BY <2>b, <2>1, Zenon DEF Listed
    <3>4. QED
      BY <3>1, <3>2, <3>3, Zenon
  <2>3. contexts[x] = "alive" /\ ~Listed(x) /\ x \in groups
        /\ \A u \in CuThreads : cuth[u].at = "push" /\ cuth[u].ctx = x => u = t
    BY <1>0, <1>1, <2>0, Zenon DEF PushSound
  <2>4. Lists'
    <3>1. \A y \in groups' : Listed(y)' \/ \E u \in CuThreads : cuth'[u].at = "push" /\ cuth'[u].ctx = y
      <4> SUFFICES ASSUME NEW y \in groups, ~Listed(y), y # x
                   PROVE  \E u \in CuThreads : cuth'[u].at = "push" /\ cuth'[u].ctx = y
        BY <1>4, <2>2, Zenon
      <4>1. PICK u \in CuThreads : cuth[u].at = "push" /\ cuth[u].ctx = y
        BY <2>0, Zenon DEF Lists
      <4>2. u # t
        BY <1>1, <4>1, Zenon
      <4>3. QED
        BY <1>5, <4>1, <4>2, Zenon
    <3>a. /\ \A i, j \in 1..m : samplingInfo[i] = samplingInfo[j] => i = j
          /\ \A i \in 1..m : samplingInfo[i] # x
      BY <2>0, <2>3, <2>a, ZenonT(60) DEF Lists, Listed
    <3>2. \A i, j \in 1..(m + 1) : samplingInfo'[i] = samplingInfo'[j] => i = j
      <4> SUFFICES ASSUME NEW i \in 1..(m + 1), NEW j \in 1..(m + 1), samplingInfo'[i] = samplingInfo'[j]
                   PROVE  i = j
        BY Zenon
      <4>1. QED
        BY <2>b, <2>1, <3>a, Zenon
    <3>3. \A i \in 1..(m + 1) : contexts'[samplingInfo'[i]] # "none" /\ samplingInfo'[i] \in groups'
      <4>1. \A i \in 1..m : contexts[samplingInfo[i]] # "none" /\ samplingInfo[i] \in groups
        BY <2>0, <2>a, Zenon DEF Lists, Removing
      <4>2. QED
        BY <1>4, <2>b, <2>1, <2>3, <4>1, Zenon
    <3>4. QED
      BY <2>b, <3>1, <3>2, <3>3, Zenon DEF Lists
  <2>5. ASSUME NEW u \in CuThreads PROVE PushSound(u)' /\ RemoveSound(u)'
    <3>1. RemoveSound(u)'
      BY <1>5, <2>0, Zenon DEF RemoveSound
    <3>2. PushSound(u)'
      <4> SUFFICES ASSUME u # t, cuth'[u].at = "push" PROVE PushSound(u)'
        BY <1>5, Zenon DEF PushSound
      <4>1. cuth'[u] = cuth[u] /\ cuth[u].ctx # x
        BY <1>5, <2>3, Zenon
      <4>2. QED
        BY <1>4, <1>5, <2>0, <2>2, <4>1, ZenonT(60) DEF PushSound
    <3>3. QED
      BY <3>1, <3>2, Zenon
  <2>6. QED
    BY <2>4, <2>5, Zenon
<1>8. cu'.up # "finished" => \A u \in CuThreads : CallsSound(cuth[u])'
  BY <1>4, <1>6, CallsKept, Zenon
<1>9. QED
  BY <1>4, <1>6, <1>7, <1>8, Zenon DEF CuInv

LEMMA CuDestroyContext ==
  ASSUME CuInv, NEW t \in CuThreads, NEW x \in Contexts, DestroyContext(t, x)
  PROVE  CuInv'
<1>0. CuTypeOK /\ cuth[t] \in CuThread /\ cuth[t].at = "run" /\ contexts[x] = "alive"
  BY Zenon DEF CuInv, CuTypeOK, DestroyContext, Running
<1>1. /\ contexts' = [contexts EXCEPT ![x] = "gone"]
      /\ contexts' \in [Contexts -> {"none", "alive", "gone"}] /\ contexts'[x] = "gone"
      /\ \A y \in Contexts : y # x => contexts'[y] = contexts[y]
  BY <1>0, Zenon DEF DestroyContext, CuTypeOK
<1>2. UNCHANGED <<cu, samplingInfo, groups, cuRaced>>
      /\ \A u \in CuThreads : cuth[u].at = "push" => cuth[u].ctx # x
  BY Zenon DEF DestroyContext
<1>3. PICK is : is = {i \in DOMAIN samplingInfo : samplingInfo[i] = x}
  BY Zenon
<1>4. is \subseteq 1..Len(samplingInfo) /\ is \subseteq Nat
  BY <1>0, <1>3 DEF CuTypeOK
<1>5. PICK n : n = FirstOf(is)
  BY Zenon
<1>6. n \in Nat /\ (is # {} => n \in is)
  <2>1. CASE is = {}
    BY <1>5, <2>1, Zenon DEF FirstOf
  <2>2. CASE is # {}
    <3>1. \E i \in is : \A j \in is : i <= j
      BY <1>4, <2>2, LeastOf, Zenon
    <3>2. QED
      BY <1>4, <1>5, <2>2, <3>1, Zenon DEF FirstOf
  <2>3. QED
    BY <2>1, <2>2, Zenon
<1>7. PICK a : a = IF ~Subscribed("resource") THEN "run"
                   ELSE IF cu.sampling /\ is # {} THEN "cleanup" ELSE "event"
  BY Zenon
<1>8. a \in {"run", "cleanup", "event"} /\ a \in Places /\ (a = "cleanup" => is # {})
  BY <1>7, Zenon DEF Places
<1>9. Placed(t, a, x, n)
  <2>1. cuth' = [cuth EXCEPT ![t] = [cuth[t] EXCEPT !.at = a, !.ctx = x, !.idx = n]]
    <3>1. cuth' = [cuth EXCEPT ![t].at = a, ![t].ctx = x, ![t].idx = n]
      BY <1>3, <1>5, <1>7, Zenon DEF DestroyContext
    <3>2. QED
      BY <1>0, <3>1, Zenon DEF CuTypeOK
  <2>2. x \in Contexts \cup {0}
    BY Zenon
  <2>3. QED
    BY <1>6, <1>8, <2>1, <2>2, PlacedBy, Zenon
<1>10. CASE a # "cleanup"
  <2>1. \A u \in CuThreads : cuth[u].at = "push" => contexts'[cuth[u].ctx] = contexts[cuth[u].ctx]
    BY <1>0, <1>1, <1>2, Zenon DEF CuTypeOK
  <2>2. \A y \in Contexts : /\ contexts[y] = "gone" => contexts'[y] = "gone"
                            /\ contexts[y] # "none" => contexts'[y] # "none"
    BY <1>0, <1>1, Zenon
  <2>3. a \in {"run", "event", "read"}
    BY <1>8, <1>10, Zenon
  <2>4. QED
    BY <1>0, <1>1, <1>2, <1>9, <2>1, <2>2, <2>3, CuQuiet DEF CuTypeOK
<1>11. CASE a = "cleanup"
  <2>0. n \in 1..Len(samplingInfo) /\ samplingInfo[n] = x /\ n > 0
    BY <1>3, <1>4, <1>6, <1>8, <1>11
  <2>1. /\ cuth'[t].at = "cleanup" /\ cuth'[t].ctx = x /\ cuth'[t].idx = n /\ Removing(t)' /\ ~Removing(t)
        /\ \A u \in CuThreads : u # t => cuth'[u] = cuth[u] /\ (Removing(u)' <=> Removing(u))
    BY <1>0, <1>9, <1>11, Zenon DEF Placed, Removing
  <2>2. CuTypeOK' /\ SameCalls
    <3>1. \A u \in CuThreads : /\ cuth'[u].at = "push" => cuth'[u].ctx \in Contexts
                               /\ Removing(u)' => cuth'[u].ctx \in Contexts /\ cuth'[u].idx > 0
      BY <1>0, <2>0, <2>1, Zenon DEF CuTypeOK
    <3>2. QED
      BY <1>0, <1>1, <1>2, <1>9, <3>1, Zenon DEF CuTypeOK, Placed, SameCalls
  <2>3. ASSUME ~cuRaced'
        PROVE  Lists' /\ \A u \in CuThreads : PushSound(u)' /\ RemoveSound(u)'
    <3>0. Lists /\ \A u \in CuThreads : PushSound(u) /\ RemoveSound(u)
      BY <1>2, <2>3, Zenon DEF CuInv
    <3>1. \A y : Listed(y)' <=> Listed(y)
      BY <1>2, Zenon DEF Listed
    <3>2. \A u \in CuThreads : /\ cuth'[u].at = "push" <=> cuth[u].at = "push"
                               /\ cuth'[u].at = "erase" <=> cuth[u].at = "erase"
                               /\ cuth[u].at \in {"push", "erase"} => cuth'[u] = cuth[u]
      BY <1>0, <2>1, Zenon
    <3>3. \A i \in 1..Len(samplingInfo) : contexts'[samplingInfo[i]] # "none"
      BY <1>0, <1>1, <3>0, SMTT(60) DEF Lists, CuTypeOK
    <3>4. Lists'
      <4>1. \A y \in groups' : Listed(y)' \/ \E u \in CuThreads : cuth'[u].at = "push" /\ cuth'[u].ctx = y
        BY <1>2, <3>0, <3>1, <3>2 DEF Lists
      <4>2. \A i \in 1..Len(samplingInfo) :
              samplingInfo[i] \in groups \/ \E u \in CuThreads : cuth'[u].at = "erase" /\ cuth'[u].ctx = samplingInfo[i]
        BY <3>0, <3>2, SMTT(60) DEF Lists
      <4>3. QED
        BY <1>2, <3>0, <3>3, <4>1, <4>2 DEF Lists
    <3>5. \A u \in CuThreads : PushSound(u)'
      <4> SUFFICES ASSUME NEW u \in CuThreads, cuth'[u].at = "push" PROVE PushSound(u)'
        BY Zenon DEF PushSound
      <4>1. cuth[u].at = "push" /\ cuth'[u] = cuth[u] /\ cuth[u].ctx \in Contexts /\ cuth[u].ctx # x
        BY <1>0, <1>2, <3>2, Zenon DEF CuTypeOK
      <4>2. PushSound(u) /\ contexts'[cuth[u].ctx] = contexts[cuth[u].ctx]
        BY <1>1, <3>0, <4>1, Zenon
      <4>3. \A v \in CuThreads : cuth'[v].at = "push" /\ cuth'[v].ctx = cuth'[u].ctx => v = u
        BY <3>2, <4>1, <4>2, Zenon DEF PushSound
      <4>4. QED
        BY <1>2, <3>1, <4>1, <4>2, <4>3, Zenon DEF PushSound
    <3>6. \A u \in CuThreads : Removing(u) => cuth[u].ctx \in Contexts /\ cuth[u].ctx # x
      BY <1>0, <3>0, Zenon DEF CuTypeOK, RemoveSound
    <3>7. ASSUME NEW u \in CuThreads, Removing(u)' PROVE RemoveSound(u)'
      <4>1. CASE u = t
        <5>1. \A v \in CuThreads : Removing(v)' /\ cuth'[v].ctx = x => v = t
          BY <2>1, <3>6, Zenon
        <5>2. QED
          BY <1>1, <1>2, <2>0, <2>1, <4>1, <5>1, Zenon DEF RemoveSound
      <4>2. CASE u # t
        <5>1. cuth'[u] = cuth[u] /\ Removing(u) /\ cuth[u].ctx \in Contexts /\ cuth[u].ctx # x
          BY <2>1, <3>6, <3>7, <4>2, Zenon
        <5>2. \A v \in CuThreads : Removing(v)' /\ cuth'[v].ctx = cuth[u].ctx => v = u
          BY <2>1, <3>0, <5>1, SMTT(60) DEF RemoveSound
        <5>3. RemoveSound(u)
          BY <3>0, Zenon
        <5>4. QED
          BY <1>1, <1>2, <5>1, <5>2, <5>3, Zenon DEF RemoveSound
      <4>3. QED
        BY <4>1, <4>2, Zenon
    <3>8. \A u \in CuThreads : RemoveSound(u)'
      BY <3>7, Zenon DEF RemoveSound
    <3>9. QED
      BY <3>4, <3>5, <3>8, Zenon
  <2>4. cu'.up # "finished" => \A u \in CuThreads : CallsSound(cuth[u])'
    BY <1>2, <2>2, CallsKept, Zenon
  <2>5. QED
    BY <1>2, <2>2, <2>3, <2>4, Zenon DEF CuInv
<1>12. QED
  BY <1>10, <1>11, Zenon
LEMMA CuCleanup == ASSUME CuInv, NEW t \in CuThreads, Cleanup(t) PROVE CuInv'
<1>0. CuTypeOK /\ cuth[t] \in CuThread /\ cuth[t].at = "cleanup" /\ Removing(t)
  BY Zenon DEF CuInv, CuTypeOK, Cleanup, Removing
<1>1. PICK x \in Contexts, n \in Nat : x = cuth[t].ctx /\ n = cuth[t].idx /\ n > 0
  BY <1>0, Zenon DEF CuTypeOK, CuThread
<1>2. Placed(t, "erase", x, n)
  <2>1. cuth' = [cuth EXCEPT ![t] = [cuth[t] EXCEPT !.at = "erase"]]
    BY Zenon DEF Cleanup
  <2>2. x \in Contexts \cup {0} /\ "erase" \in Places
    BY Zenon DEF Places
  <2>3. QED
    BY <1>1, <2>1, <2>2, PlacedBy, Zenon
<1>3. UNCHANGED <<cu, samplingInfo, contexts, cuRaced>> /\ groups' = groups \ {x}
  BY <1>1, Zenon DEF Cleanup, CleanupGroup
<1>4. /\ cuth'[t].at = "erase" /\ cuth'[t].ctx = x /\ cuth'[t].idx = n
      /\ \A u \in CuThreads : /\ u # t => cuth'[u] = cuth[u]
                              /\ Removing(u)' <=> Removing(u)
                              /\ cuth'[u].ctx = cuth[u].ctx /\ cuth'[u].idx = cuth[u].idx
  BY <1>0, <1>1, <1>2, Zenon DEF Placed, Removing
<1>5. CuTypeOK' /\ SameCalls
  <2>1. \A u \in CuThreads : /\ cuth'[u].at = "push" => cuth'[u].ctx \in Contexts
                             /\ Removing(u)' => cuth'[u].ctx \in Contexts /\ cuth'[u].idx > 0
    BY <1>0, <1>1, <1>4, Zenon DEF CuTypeOK
  <2>2. QED
    BY <1>0, <1>2, <1>3, <2>1, Zenon DEF CuTypeOK, Placed, SameCalls
<1>6. ASSUME ~cuRaced'
      PROVE  Lists' /\ \A u \in CuThreads : PushSound(u)' /\ RemoveSound(u)'
  <2>0. Lists /\ \A u \in CuThreads : PushSound(u) /\ RemoveSound(u)
    BY <1>3, <1>6, Zenon DEF CuInv
  <2>1. \A y : Listed(y)' <=> Listed(y)
    BY <1>3, Zenon DEF Listed
  <2>2. contexts[x] = "gone"
    BY <1>0, <1>1, <2>0, Zenon DEF RemoveSound
  <2>3. \A u \in CuThreads : /\ cuth'[u].at = "push" <=> cuth[u].at = "push"
                             /\ cuth[u].at = "erase" => cuth'[u].at = "erase"
    BY <1>0, <1>4, Zenon
  <2>4. Lists'
    <3>1. \A y \in groups' : Listed(y)' \/ \E u \in CuThreads : cuth'[u].at = "push" /\ cuth'[u].ctx = y
      <4> SUFFICES ASSUME NEW y \in groups, ~Listed(y)
                   PROVE  \E u \in CuThreads : cuth'[u].at = "push" /\ cuth'[u].ctx = y
        BY <1>3, <2>1, Zenon
      <4>1. PICK u \in CuThreads : cuth[u].at = "push" /\ cuth[u].ctx = y
        BY <2>0, Zenon DEF Lists
      <4>2. QED
        BY <1>4, <2>3, <4>1, Zenon
    <3>2. ASSUME NEW i \in 1..Len(samplingInfo)
          PROVE  \/ samplingInfo[i] \in groups'
                 \/ \E u \in CuThreads : cuth'[u].at = "erase" /\ cuth'[u].ctx = samplingInfo[i]
      <4>1. CASE samplingInfo[i] = x
        BY <1>4, <4>1, Zenon
      <4>2. CASE samplingInfo[i] # x /\ samplingInfo[i] \in groups
        BY <1>3, <4>2, Zenon
      <4>3. CASE \E u \in CuThreads : cuth[u].at = "erase" /\ cuth[u].ctx = samplingInfo[i]
        BY <1>4, <2>3, <4>3, Zenon
      <4>4. QED
        BY <2>0, <4>1, <4>2, <4>3, Zenon DEF Lists
    <3>3. QED
      BY <1>3, <2>0, <3>1, <3>2 DEF Lists
  <2>5. ASSUME NEW u \in CuThreads PROVE PushSound(u)' /\ RemoveSound(u)'
    <3>1. PushSound(u)'
      <4> SUFFICES ASSUME cuth'[u].at = "push" PROVE PushSound(u)'
        BY Zenon DEF PushSound
      <4>1. cuth[u].at = "push" /\ PushSound(u)
        BY <2>0, <2>3, Zenon
      <4>2. cuth[u].ctx # x
        BY <2>2, <4>1, Zenon DEF PushSound
      <4>3. \A v \in CuThreads : cuth'[v].at = "push" /\ cuth'[v].ctx = cuth'[u].ctx => v = u
        BY <1>4, <2>3, <4>1, Zenon DEF PushSound
      <4>4. QED
        BY <1>3, <1>4, <2>1, <4>1, <4>2, <4>3, Zenon DEF PushSound
    <3>2. RemoveSound(u)'
      <4> SUFFICES ASSUME Removing(u)' PROVE RemoveSound(u)'
        BY Zenon DEF RemoveSound
      <4>1. Removing(u) /\ RemoveSound(u) /\ cuth'[u].ctx = cuth[u].ctx /\ cuth'[u].idx = cuth[u].idx
        BY <1>4, <2>0, Zenon
      <4>2. \A v \in CuThreads : Removing(v)' /\ cuth'[v].ctx = cuth'[u].ctx => v = u
        BY <1>4, <4>1, ZenonT(60) DEF RemoveSound
      <4>3. cuth'[u].at = "erase" => cuth'[u].ctx \notin groups'
        <5>1. CASE u = t
          BY <1>3, <1>4, <5>1, Zenon
        <5>2. CASE u # t
          BY <1>3, <1>4, <4>1, <5>2, Zenon DEF RemoveSound
        <5>3. QED
          BY <5>1, <5>2, Zenon
      <4>4. QED
        BY <1>3, <4>1, <4>2, <4>3, Zenon DEF RemoveSound
    <3>3. QED
      BY <3>1, <3>2, Zenon
  <2>6. QED
    BY <2>4, <2>5, Zenon
<1>7. cu'.up # "finished" => \A u \in CuThreads : CallsSound(cuth[u])'
  BY <1>3, <1>5, CallsKept, Zenon
<1>8. QED
  BY <1>3, <1>5, <1>6, <1>7, Zenon DEF CuInv

LEMMA ErasedAt ==
  ASSUME NEW S, NEW s \in Seq(S), NEW j \in 1..Len(s)
  PROVE  /\ EraseAt(s, j) \in Seq(S) /\ Len(EraseAt(s, j)) = Len(s) - 1
         /\ \A i \in 1..(Len(s) - 1) : EraseAt(s, j)[i] = IF i < j THEN s[i] ELSE s[i + 1]
<1>1. PICK n \in Nat : n = Len(s) /\ n > 0
  OBVIOUS
<1>2. PICK e : e = [i \in 1..(n - 1) |-> IF i < j THEN s[i] ELSE s[i + 1]]
  BY Zenon
<1>3. \A i \in 1..(n - 1) : s[i] \in S /\ s[i + 1] \in S
  BY <1>1
<1>4. e \in [1..(n - 1) -> S] /\ n - 1 \in Nat
  BY <1>1, <1>2, <1>3
<1>5. e \in Seq(S) /\ Len(e) = n - 1
  BY ONLY <1>4
<1>6. EraseAt(s, j) = e
  BY <1>1, <1>2, Zenon DEF EraseAt
<1>7. QED
  BY <1>1, <1>2, <1>5, <1>6, Zenon

LEMMA CuEraseInfo == ASSUME CuInv, NEW t \in CuThreads, EraseInfo(t) PROVE CuInv'
<1>0. CuTypeOK /\ cuth[t] \in CuThread /\ cuth[t].at = "erase" /\ Removing(t)
  BY Zenon DEF CuInv, CuTypeOK, EraseInfo, Removing
<1>1. PICK x \in Contexts, n \in Nat : x = cuth[t].ctx /\ n = cuth[t].idx /\ n > 0
  BY <1>0, Zenon DEF CuTypeOK, CuThread
<1>2. Placed(t, "event", x, n)
  <2>1. cuth' = [cuth EXCEPT ![t] = [cuth[t] EXCEPT !.at = "event"]]
    BY Zenon DEF EraseInfo
  <2>2. x \in Contexts \cup {0} /\ "event" \in Places
    BY Zenon DEF Places
  <2>3. QED
    BY <1>1, <2>1, <2>2, PlacedBy, Zenon
<1>3. UNCHANGED <<cu, groups, contexts>> /\ cuRaced' \in BOOLEAN
      /\ (~cuRaced' => ~cuRaced /\ \A u \in CuThreads : u # t => ~Removing(u))
  BY <1>0, Zenon DEF EraseInfo, CuTypeOK
<1>4. PICK m \in Nat : m = Len(samplingInfo)
  BY <1>0 DEF CuTypeOK
<1>5. /\ samplingInfo' \in Seq(Contexts)
      /\ n <= m => /\ Len(samplingInfo') = m - 1
                   /\ \A i \in 1..(m - 1) :
                        samplingInfo'[i] = IF i < n THEN samplingInfo[i] ELSE samplingInfo[i + 1]
  <2>1. samplingInfo \in Seq(Contexts)
    BY <1>0, Zenon DEF CuTypeOK
  <2>2. CASE n <= m
    <3>1. n \in 1..Len(samplingInfo) /\ samplingInfo' = EraseAt(samplingInfo, n)
      BY <1>1, <1>4, <2>2 DEF EraseInfo
    <3>2. QED
      BY <1>4, <2>1, <3>1, ErasedAt, Zenon
  <2>3. CASE ~(n <= m)
    BY <1>1, <1>4, <2>1, <2>3, Zenon DEF EraseInfo
  <2>4. QED
    BY <2>2, <2>3, Zenon
<1>6. /\ cuth'[t].at = "event"
      /\ \A u \in CuThreads : u # t => cuth'[u] = cuth[u] /\ (Removing(u)' <=> Removing(u))
      /\ ~Removing(t)'
  BY <1>2, Zenon DEF Placed, Removing
<1>7. CuTypeOK' /\ SameCalls
  <2>1. \A u \in CuThreads : /\ cuth'[u].at = "push" => cuth'[u].ctx \in Contexts
                             /\ Removing(u)' => cuth'[u].ctx \in Contexts /\ cuth'[u].idx > 0
    BY <1>0, <1>6, Zenon DEF CuTypeOK
  <2>2. QED
    BY <1>0, <1>2, <1>3, <1>5, <2>1, Zenon DEF CuTypeOK, Placed, SameCalls
<1>8. ASSUME ~cuRaced'
      PROVE  Lists' /\ \A u \in CuThreads : PushSound(u)' /\ RemoveSound(u)'
  <2>0. /\ Lists /\ (\A u \in CuThreads : PushSound(u) /\ RemoveSound(u))
        /\ \A u \in CuThreads : u # t => ~Removing(u)
    BY <1>3, <1>8, Zenon DEF CuInv
  <2>a. RemoveSound(t)
    BY <2>0, Zenon
  <2>1. n \in 1..m /\ samplingInfo[n] = x /\ x \notin groups /\ n <= m
    <3>1. n \in 1..m /\ samplingInfo[n] = x /\ x \notin groups
      BY <1>0, <1>1, <1>4, <2>a, Zenon DEF RemoveSound
    <3>2. QED
      BY <3>1
  <2>2. \A i \in 1..(m - 1) : IF i < n THEN i \in 1..m /\ samplingInfo'[i] = samplingInfo[i]
                              ELSE i + 1 \in 1..m /\ i + 1 # n /\ samplingInfo'[i] = samplingInfo[i + 1]
    BY <1>5, <2>1
  <2>3. \A i \in 1..m : i # n => \E k \in 1..(m - 1) : samplingInfo'[k] = samplingInfo[i]
    <3> SUFFICES ASSUME NEW i \in 1..m, i # n
                 PROVE  \E k \in 1..(m - 1) : samplingInfo'[k] = samplingInfo[i]
      BY Zenon
    <3>1. CASE i < n
      <4>1. i \in 1..(m - 1)
        BY <2>1, <3>1
      <4>2. QED
        BY <2>2, <3>1, <4>1, Zenon
    <3>2. CASE i > n
      <4>1. i - 1 \in 1..(m - 1) /\ ~(i - 1 < n) /\ (i - 1) + 1 = i
        BY <2>1, <3>2
      <4>2. QED
        BY <2>2, <4>1, Zenon
    <3>3. QED
      BY <2>1, <3>1, <3>2
  <2>4. \A y : y # x => (Listed(y)' <=> Listed(y))
    <3> SUFFICES ASSUME NEW y, y # x PROVE Listed(y)' <=> Listed(y)
      BY Zenon
    <3>1. Listed(y) => Listed(y)'
      BY <1>4, <1>5, <2>1, <2>3, Zenon DEF Listed
    <3>2. Listed(y)' => Listed(y)
      BY <1>4, <1>5, <2>1, <2>2, Zenon DEF Listed
    <3>3. QED
      BY <3>1, <3>2, Zenon
  <2>5. \A i, j \in 1..m : samplingInfo[i] = samplingInfo[j] => i = j
    BY <1>4, <2>0, Zenon DEF Lists
  <2>6. \A i \in 1..(m - 1) : samplingInfo'[i] # x /\ \E k \in 1..m : k # n /\ samplingInfo'[i] = samplingInfo[k]
    BY <2>1, <2>2, <2>5
  <2>7. Lists'
    <3>1. \A y \in groups' : Listed(y)' \/ \E u \in CuThreads : cuth'[u].at = "push" /\ cuth'[u].ctx = y
      <4> SUFFICES ASSUME NEW y \in groups, ~Listed(y)
                   PROVE  \E u \in CuThreads : cuth'[u].at = "push" /\ cuth'[u].ctx = y
        BY <1>3, <2>1, <2>4, Zenon
      <4>1. PICK u \in CuThreads : cuth[u].at = "push" /\ cuth[u].ctx = y
        BY <2>0, Zenon DEF Lists
      <4>2. u # t
        BY <1>0, <4>1, Zenon
      <4>3. QED
        BY <1>6, <4>1, <4>2, Zenon
    <3>2. \A i, j \in 1..(m - 1) : samplingInfo'[i] = samplingInfo'[j] => i = j
      <4> SUFFICES ASSUME NEW i \in 1..(m - 1), NEW j \in 1..(m - 1), samplingInfo'[i] = samplingInfo'[j]
                   PROVE  i = j
        BY Zenon
      <4>1. PICK k \in 1..m : k = (IF i < n THEN i ELSE i + 1) /\ samplingInfo'[i] = samplingInfo[k]
        BY <2>2, Zenon
      <4>2. PICK l \in 1..m : l = (IF j < n THEN j ELSE j + 1) /\ samplingInfo'[j] = samplingInfo[l]
        BY <2>2, Zenon
      <4>3. k = l
        BY <2>5, <4>1, <4>2, Zenon
      <4>4. QED
        BY ONLY <4>1, <4>2, <4>3, i \in 1..(m - 1), j \in 1..(m - 1), n \in Nat
    <3>3. \A i \in 1..(m - 1) : contexts'[samplingInfo'[i]] # "none" /\ samplingInfo'[i] \in groups'
      <4> SUFFICES ASSUME NEW i \in 1..(m - 1)
                   PROVE  contexts'[samplingInfo'[i]] # "none" /\ samplingInfo'[i] \in groups'
        BY Zenon
      <4>1. PICK k \in 1..m : samplingInfo'[i] = samplingInfo[k] /\ samplingInfo[k] # x
        BY <2>6, Zenon
      <4>2. contexts[samplingInfo[k]] # "none" /\ samplingInfo[k] \in groups
        <5>1. ~\E u \in CuThreads : cuth[u].at = "erase" /\ cuth[u].ctx = samplingInfo[k]
          BY <1>1, <2>0, <4>1, Zenon DEF Removing
        <5>2. QED
          BY <1>4, <2>0, <5>1, Zenon DEF Lists
      <4>3. QED
        BY <1>3, <4>1, <4>2, Zenon
    <3>4. Len(samplingInfo') = m - 1
      BY <1>5, <2>1, Zenon
    <3>5. QED
      BY <3>1, <3>2, <3>3, <3>4, Zenon DEF Lists
  <2>8. ASSUME NEW u \in CuThreads PROVE PushSound(u)' /\ RemoveSound(u)'
    <3>1. RemoveSound(u)'
      BY <1>6, <2>0, Zenon DEF RemoveSound
    <3>2. PushSound(u)'
      <4> SUFFICES ASSUME cuth'[u].at = "push" PROVE PushSound(u)'
        BY Zenon DEF PushSound
      <4>1. u # t /\ cuth'[u] = cuth[u] /\ PushSound(u)
        BY <1>6, <2>0, Zenon
      <4>2. cuth[u].ctx # x
        BY <2>1, <4>1, Zenon DEF PushSound
      <4>3. \A v \in CuThreads : cuth'[v].at = "push" /\ cuth'[v].ctx = cuth'[u].ctx => v = u
        BY <1>6, <4>1, Zenon DEF PushSound
      <4>4. QED
        BY <1>3, <2>4, <4>1, <4>2, <4>3, Zenon DEF PushSound
    <3>3. QED
      BY <3>1, <3>2, Zenon
  <2>9. QED
    BY <2>7, <2>8, Zenon
<1>9. cu'.up # "finished" => \A u \in CuThreads : CallsSound(cuth[u])'
  BY <1>3, <1>7, CallsKept, Zenon
<1>10. QED
  BY <1>3, <1>7, <1>8, <1>9, Zenon DEF CuInv

LEMMA CuFinishes == ASSUME CuInv, CuFinish PROVE CuInv'
<1>0. CuTypeOK
  BY Zenon DEF CuInv
<1>1. cu' \in CuRecord /\ cu'.up = "finished"
  BY <1>0, Zenon DEF CuFinish, CuTypeOK, CuRecord
<1>2. /\ samplingInfo' = <<>> /\ UNCHANGED <<contexts, cuth>> /\ cuRaced' \in BOOLEAN
      /\ groups' = groups \ {samplingInfo[i] : i \in DOMAIN samplingInfo}
      /\ (~cuRaced' => ~cuRaced /\ \A u \in CuThreads : cuth[u].at = "run")
  BY <1>0, Zenon DEF CuFinish, CuTypeOK
<1>3. CuTypeOK'
  BY <1>0, <1>1, <1>2 DEF CuTypeOK, Removing
<1>4. ASSUME ~cuRaced'
      PROVE  Lists' /\ \A u \in CuThreads : PushSound(u)' /\ RemoveSound(u)'
  <2>1. groups' = {}
    <3> SUFFICES ASSUME NEW x \in groups PROVE x \in {samplingInfo[i] : i \in DOMAIN samplingInfo}
      BY <1>2, Zenon
    <3>1. Listed(x)
      BY <1>2, <1>4, Zenon DEF CuInv, Lists
    <3>2. QED
      BY <1>0, <3>1 DEF Listed, CuTypeOK
  <2>2. Len(samplingInfo') = 0
    BY <1>2, Zenon
  <2>3. Lists'
    <3>1. 1..0 = {}
      OBVIOUS
    <3>2. QED
      BY <2>1, <2>2, <3>1, Zenon DEF Lists
  <2>4. \A u \in CuThreads : cuth'[u].at = "run"
    BY <1>2, <1>4, Zenon
  <2>5. QED
    BY <2>3, <2>4, Zenon DEF PushSound, RemoveSound, Removing
<1>5. QED
  BY <1>1, <1>3, <1>4, Zenon DEF CuInv

LEMMA CuInductive == CuInv /\ [CuNext]_cuVars => CuInv'
<1> SUFFICES ASSUME CuInv, [CuNext]_cuVars
             PROVE  CuInv'
  BY Zenon
<1>1. ASSUME NEW n, Initialize(n) PROVE CuInv'
  BY <1>1, CuInitialize, Zenon
<1>2. CASE PostInit
  BY <1>2, CuPostInit, Zenon
<1>3. CASE CuFinish
  BY <1>3, CuFinishes, Zenon
<1>4. ASSUME NEW t \in CuThreads, CuExit(t) PROVE CuInv'
  BY <1>4, CuExits, Zenon
<1>5. ASSUME NEW t \in CuThreads, StreamEvent(t) PROVE CuInv'
  BY <1>5, CuStreamEvent, Zenon
<1>6. ASSUME NEW t \in CuThreads, PushInfo(t) PROVE CuInv'
  BY <1>6, CuPushInfo, Zenon
<1>7. ASSUME NEW t \in CuThreads, ContextEvent(t) PROVE CuInv'
  BY <1>7, CuContextEvent, Zenon
<1>8. ASSUME NEW t \in CuThreads, Cleanup(t) PROVE CuInv'
  BY <1>8, CuCleanup, Zenon
<1>9. ASSUME NEW t \in CuThreads, EraseInfo(t) PROVE CuInv'
  BY <1>9, CuEraseInfo, Zenon
<1>10. ASSUME NEW t \in CuThreads, SnapshotPick(t) PROVE CuInv'
  BY <1>10, CuSnapshotPick, Zenon
<1>11. ASSUME NEW t \in CuThreads, SnapshotRead(t) PROVE CuInv'
  BY <1>11, CuSnapshotRead, Zenon
<1>12. ASSUME NEW t \in CuThreads, NEW d \in ApiDomains, NEW f \in Functions, NEW k \in Symbols,
              Enter(t, d, f, k)
       PROVE  CuInv'
  BY <1>12, CuEnter, Zenon
<1>13. ASSUME NEW t \in CuThreads, NEW x \in Contexts, CreateContext(t, x) PROVE CuInv'
  BY <1>13, CuCreateContext, Zenon
<1>14. ASSUME NEW t \in CuThreads, NEW x \in Contexts, DestroyContext(t, x) PROVE CuInv'
  BY <1>14, CuDestroyContext, Zenon
<1>15. CASE UNCHANGED cuVars
  <2>1. UNCHANGED <<cu, samplingInfo, groups, contexts, cuth, cuRaced>>
    BY <1>15, Zenon DEF cuVars
  <2>2. CuTypeOK' /\ (~cuRaced' => Lists' /\ \A t \in CuThreads : PushSound(t)' /\ RemoveSound(t)')
    BY <2>1, ListsKept, Zenon DEF CuInv, CuTypeOK
  <2>3. cu'.up # "finished" => \A t \in CuThreads : CallsSound(cuth[t])'
    BY <2>1, CallsKept, Zenon DEF SameCalls
  <2>4. QED
    BY <2>1, <2>2, <2>3, Zenon DEF CuInv
<1>16. QED
  BY <1>1, <1>2, <1>3, <1>4, <1>5, <1>6, <1>7, <1>8, <1>9, <1>10, <1>11, <1>12, <1>13, <1>14, <1>15, Zenon
     DEF CuNext

(* The event groups CUPTI holds are those the service can still find, as   *)
(* long as nobody used m_sampling_info while another thread removed from   *)
(* it, and the open regions of every thread are the calls whose beginning  *)
(* the service heard of, in order, for any number of threads, contexts and *)
(* calls (CuptiEventSampling.cpp, Cupti.cpp).                              *)
THEOREM CuptiAlwaysSound == CuSpec => []CuptiSound
<1>1. CuInv => CuptiSound
  <2> SUFFICES ASSUME CuInv PROVE CuptiSound
    BY Zenon
  <2>0. CuTypeOK
    BY Zenon DEF CuInv
  <2>1. GroupsTracked
    <3> SUFFICES ASSUME ~cuRaced
                 PROVE  /\ groups \subseteq {samplingInfo[i] : i \in DOMAIN samplingInfo}
                              \cup {cuth[t].ctx : t \in {u \in CuThreads : cuth[u].at = "push"}}
                        /\ \A i, j \in DOMAIN samplingInfo : samplingInfo[i] = samplingInfo[j] => i = j
                        /\ \A i \in DOMAIN samplingInfo :
                             \/ samplingInfo[i] \in groups
                             \/ \E t \in CuThreads : cuth[t].at = "erase" /\ cuth[t].ctx = samplingInfo[i]
      BY Zenon DEF GroupsTracked
    <3>1. Lists /\ DOMAIN samplingInfo = 1..Len(samplingInfo)
      BY <2>0 DEF CuInv, CuTypeOK
    <3>2. QED
      BY <3>1 DEF Lists, Listed
  <2>2. RegionsMatchCalls
    <3> SUFFICES ASSUME cu.up = "subscribed", NEW t \in CuThreads
                 PROVE  /\ \E f \in [1..Len(cuth[t].path) -> 1..Len(cuth[t].calls)] :
                             /\ \A i, j \in 1..Len(cuth[t].path) : i < j => f[i] < f[j]
                             /\ \A k \in 1..Len(cuth[t].calls) :
                                  cuth[t].calls[k].seen <=> \E i \in 1..Len(cuth[t].path) : f[i] = k
                             /\ \A i \in 1..Len(cuth[t].path) :
                                  cuth[t].path[i] = <<cuth[t].calls[f[i]].d, cuth[t].calls[f[i]].f>>
                        /\ ~({"runtime", "driver"} \subseteq cu.domains) =>
                             IF NamedIn(cuth[t].calls) = {} THEN cuth[t].symbol = NoSymbol
                             ELSE \E k \in NamedIn(cuth[t].calls) : cuth[t].symbol = cuth[t].calls[k].k
      BY Zenon DEF RegionsMatchCalls, NamedIn
    <3>1. CallsSound(cuth[t])
      BY Zenon DEF CuInv
    <3>2. PICK cs \in Seq(CallOf), p \in Seq(Range2) : cs = cuth[t].calls /\ p = cuth[t].path
      BY <2>0, Zenon DEF CuTypeOK, CuThread
    <3>3. PICK r \in Seq(Range2) : /\ r = RegionsOf(cs) /\ Len(r) = Len(cs)
                                   /\ \A k \in 1..Len(cs) : r[k] = <<cs[k].d, cs[k].f>>
      BY RegionsTyped, Zenon
    <3>4. Selects(SeenIn(cs), p, r)
      BY <3>1, <3>2, <3>3, Zenon DEF CallsSound
    <3>5. PICK f \in [1..Len(p) -> 1..Len(cs)] :
            /\ \A i, j \in 1..Len(p) : i < j => f[i] < f[j]
            /\ \A k \in 1..Len(cs) : k \in SeenIn(cs) <=> \E i \in 1..Len(p) : f[i] = k
            /\ \A i \in 1..Len(p) : p[i] = r[f[i]]
      <4>1. PICK f \in [1..Len(p) -> 1..Len(r)] :
              /\ \A i, j \in 1..Len(p) : i < j => f[i] < f[j]
              /\ \A k \in 1..Len(r) : k \in SeenIn(cs) <=> \E i \in 1..Len(p) : f[i] = k
              /\ \A i \in 1..Len(p) : p[i] = r[f[i]]
        BY <3>4, Zenon DEF Selects
      <4>2. QED
        BY <3>3, <4>1, Zenon
    <3>6. \A k \in 1..Len(cs) : k \in SeenIn(cs) <=> cs[k].seen
      BY Zenon DEF SeenIn
    <3>7. \A i \in 1..Len(p) : p[i] = <<cs[f[i]].d, cs[f[i]].f>>
      BY <3>3, <3>5, Zenon
    <3>8. ~({"runtime", "driver"} \subseteq cu.domains) =>
            IF NamedIn(cs) = {} THEN cuth[t].symbol = NoSymbol
            ELSE \E k \in NamedIn(cs) : cuth[t].symbol = cs[k].k
      BY <3>1, <3>2, Zenon DEF CallsSound, SymbolOK
    <3>9. QED
      BY <3>2, <3>5, <3>6, <3>7, <3>8, ZenonT(60)
  <2>3. QED
    BY <2>1, <2>2, Zenon DEF CuptiSound
<1>2. QED
  BY <1>1, CuInitially, CuInductive, PTL DEF CuSpec
=============================================================================
