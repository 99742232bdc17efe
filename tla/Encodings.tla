----------------------------- MODULE Encodings ------------------------------
(***************************************************************************)
(* The values of Caliper, and the binary encodings of the records that     *)
(* hold them.                                                              *)
(***************************************************************************)
EXTENDS Integers, Sequences, FiniteSets, SequencesExt

-----------------------------------------------------------------------------
(***************************************************************************)
(* The values of Caliper (src/common/cali_variant.c, Variant.cpp): a word  *)
(* that holds type and size, and a word that holds the value, a union of   *)
(* int, unsigned, double, bool, type and pointer.  Integers have widths    *)
(* IntW and UintW (32 and 64 in the build; small here); a double is a      *)
(* number of halves; strings are pointers into Text.                       *)
(***************************************************************************)
CONSTANTS IntW, UintW, Text, Halves

VARIABLES va, vb, vc     \* three variants, compared and converted
vnVars == <<va, vb, vc>>

CALI_INV == 0
CALI_USR == 1
CALI_INT == 2
CALI_UINT == 3
CALI_STRING == 4
CALI_ADDR == 5
CALI_DOUBLE == 6
CALI_BOOL == 7
CALI_TYPE == 8
MaxType == CALI_TYPE

UintMax == 2^UintW - 1
IntMin == -(2^(IntW - 1))
IntMax == 2^(IntW - 1) - 1

(* The bit pattern of an int or double in the union, and back.             *)
IntBits(i) == i % 2^IntW
BitsInt(b) == LET i == b % 2^IntW IN IF i > IntMax THEN i - 2^IntW ELSE i
HalfBits(h) == h % (UintMax + 1)
BitsHalf(b) == IF b > UintMax \div 2 THEN b - UintMax - 1 ELSE b

(* cali_make_variant: the size is kept for strings and blobs only.         *)
MakeVariant(type, bits, size) ==
  [ts |-> IF type \in {CALI_USR, CALI_STRING} THEN size * 256 + type ELSE type,
   v  |-> IF type = CALI_INV THEN 0 ELSE bits]

Empty == MakeVariant(CALI_INV, 0, 0)

TypeOf(x) == LET t == x.ts % 256 IN IF t <= MaxType THEN t ELSE CALI_INV
SizeOf(x) == x.ts \div 256
Bytes(x) == SubSeq(Text[x.v], 1, SizeOf(x))      \* cali_variant_get_data

(* The conversions, with the flag that says whether they apply.            *)
Trunc(h) == IF h >= 0 THEN h \div 2 ELSE -((-h) \div 2)
Fail(r) == [ok |-> FALSE, r |-> r]
Ok(r) == [ok |-> TRUE, r |-> r]
ToInt(x) == CASE TypeOf(x) = CALI_INT -> Ok(BitsInt(x.v))
              [] TypeOf(x) \in {CALI_ADDR, CALI_UINT} -> Ok(BitsInt(x.v))
              [] TypeOf(x) = CALI_DOUBLE -> Ok(Trunc(BitsHalf(x.v)))
              [] TypeOf(x) \in {CALI_BOOL, CALI_TYPE} -> Ok(x.v)
              [] OTHER -> Fail(0)

ToUint(x) == CASE TypeOf(x) = CALI_INT -> Ok(BitsInt(x.v) % 2^UintW)    \* sign extension
               [] TypeOf(x) \in {CALI_ADDR, CALI_UINT, CALI_BOOL, CALI_TYPE} -> Ok(x.v)
               [] TypeOf(x) = CALI_DOUBLE -> Ok(Trunc(BitsHalf(x.v)) % 2^UintW)
               [] OTHER -> Fail(0)

IntHalves(b) == 2 * BitsInt(b)
ToDouble(x) == CASE TypeOf(x) = CALI_INT -> Ok(IntHalves(x.v))
                 [] TypeOf(x) \in {CALI_ADDR, CALI_UINT, CALI_BOOL, CALI_TYPE} -> Ok(2 * x.v)
                 [] TypeOf(x) = CALI_DOUBLE -> Ok(BitsHalf(x.v))
                 [] OTHER -> Fail(0)

ToBool(x) == IF TypeOf(x) \in {CALI_INT, CALI_UINT, CALI_ADDR, CALI_BOOL} THEN Ok(x.v # 0) ELSE Fail(FALSE)

(* cali_variant_compare.  The difference of two ints is computed in int;    *)
(* the difference of two unsigned numbers modulo 2^64.                      *)
WrapInt(i) == BitsInt(i)

MemCompare(s, t) ==
  LET n == IF Len(s) < Len(t) THEN Len(s) ELSE Len(t)
      D == {i \in 1..n : s[i] # t[i]}
  IN  IF D = {} THEN Len(s) - Len(t)
      ELSE LET i == CHOOSE j \in D : \A k \in D : j <= k IN s[i] - t[i]

(* A defect: unsigned values are compared as signed ones.                  *)
CompareUintAsInt(x, y) == WrapInt(x - y)

CompareUint(x, y) == LET d == (x - y) % 2^UintW IN
                     IF d = 0 THEN 0 ELSE IF d > x THEN -1 ELSE 1

Compare(x, y) ==
  IF TypeOf(x) # TypeOf(y) THEN TypeOf(x) - TypeOf(y)
  ELSE CASE TypeOf(x) \in {CALI_INV, CALI_INT} -> WrapInt(BitsInt(x.v) - BitsInt(y.v))
         [] TypeOf(x) \in {CALI_USR, CALI_STRING} -> MemCompare(Bytes(x), Bytes(y))
         [] TypeOf(x) \in {CALI_ADDR, CALI_UINT} -> CompareUint(x.v, y.v)
         [] TypeOf(x) = CALI_DOUBLE -> BitsHalf(x.v) - BitsHalf(y.v)
         [] OTHER -> x.v - y.v

(* cali_variant_eq. *)
Eq(x, y) == /\ x.ts = y.ts
            /\ IF TypeOf(x) \in {CALI_USR, CALI_STRING} THEN x.v = y.v \/ Bytes(x) = Bytes(y) ELSE x.v = y.v

(* Variant::to_string and from_string, by what they keep: the text of a     *)
(* double has a limited number of digits (here: no halves), a trailing NUL  *)
(* of a string is dropped, a blob cannot be read back.                      *)
DropNul(s) == IF s # <<>> /\ s[Len(s)] = 0 THEN SubSeq(s, 1, Len(s) - 1) ELSE s
ToText(x) == CASE TypeOf(x) = CALI_INV -> <<"", 0>>
               [] TypeOf(x) = CALI_INT -> <<"num", BitsInt(x.v)>>
               [] TypeOf(x) = CALI_UINT -> <<"num", x.v>>
               [] TypeOf(x) = CALI_STRING -> <<"str", DropNul(Bytes(x))>>
               [] TypeOf(x) = CALI_ADDR -> <<"hex", x.v>>
               [] TypeOf(x) = CALI_DOUBLE -> <<"num", Trunc(BitsHalf(x.v))>>
               [] TypeOf(x) = CALI_BOOL -> <<"word", x.v>>
               [] TypeOf(x) = CALI_TYPE -> <<"type", x.v>>
               [] OTHER -> <<"blob", Bytes(x)>>

(* StringConverter: a number is what stoi, stoull or stod make of the text, *)
(* a bool also a word.                                                     *)
StrToInt(t) == IF t[1] = "num" /\ t[2] \in IntMin..IntMax THEN Ok(t[2]) ELSE Fail(0)

StrToUint(t, base) == IF t[1] = base THEN Ok(t[2] % 2^UintW) ELSE Fail(0)   \* stoull negates
StrToDouble(t) == IF t[1] = "num" THEN Ok(2 * t[2]) ELSE Fail(0)
StrToBool(t) == IF t[1] \in {"word", "num"} THEN Ok(t[2] # 0) ELSE Fail(FALSE)

(* Variant::from_string.                                                   *)
Make(type, c, bits) == IF c.ok THEN Ok(MakeVariant(type, bits, 0)) ELSE Fail(Empty)
FromText(type, t) ==
  CASE type = CALI_INT -> Make(type, StrToInt(t), IntBits(StrToInt(t).r))
    [] type = CALI_UINT -> Make(type, StrToUint(t, "num"), StrToUint(t, "num").r)
    [] type = CALI_ADDR -> Make(type, StrToUint(t, "hex"), StrToUint(t, "hex").r)
    [] type = CALI_DOUBLE -> Make(type, StrToDouble(t), HalfBits(StrToDouble(t).r))
    [] type = CALI_BOOL -> Make(type, StrToBool(t), IF StrToBool(t).r THEN 1 ELSE 0)
    [] type = CALI_TYPE /\ t[1] = "type" /\ t[2] # CALI_INV -> Ok(MakeVariant(CALI_TYPE, t[2], 0))
    [] type = CALI_STRING /\ t[1] = "str" /\ \E p \in DOMAIN Text : IsPrefix(t[2], Text[p]) ->
         Ok(MakeVariant(CALI_STRING, CHOOSE p \in DOMAIN Text : IsPrefix(t[2], Text[p]), Len(t[2])))
    [] OTHER -> Fail(Empty)

AllVariants ==
  {Empty} \cup {MakeVariant(CALI_INT, IntBits(i), 0) : i \in IntMin..IntMax}
  \cup {MakeVariant(t, u, 0) : t \in {CALI_UINT, CALI_ADDR}, u \in 0..UintMax}
  \cup {MakeVariant(CALI_DOUBLE, HalfBits(h), 0) : h \in Halves}
  \cup {MakeVariant(CALI_BOOL, b, 0) : b \in {0, 1}} \cup {MakeVariant(CALI_TYPE, t, 0) : t \in {CALI_INV, CALI_INT, CALI_TYPE}}
  \cup UNION {{MakeVariant(t, p, n) : t \in {CALI_USR, CALI_STRING}, n \in 0..Len(Text[p])} : p \in DOMAIN Text}

VnInit == va = Empty /\ vb = Empty /\ vc = Empty
VnNext == \/ va = Empty /\ va' \in AllVariants /\ UNCHANGED <<vb, vc>>
          \/ vb = Empty /\ vb' \in AllVariants /\ UNCHANGED <<va, vc>>
          \/ va # Empty /\ vb # Empty /\ vc = Empty /\ vc' \in AllVariants /\ UNCHANGED <<va, vb>>

VnSpec == VnInit /\ [][VnNext]_vnVars

---------------------------------------------------------------------------
(* Int differences that leave the range of int. *)
FarApart(x, y) == TypeOf(x) = CALI_INT /\ TypeOf(y) = CALI_INT
                  /\ (BitsInt(x.v) - BitsInt(y.v)) \notin IntMin..IntMax

(* cali_variant_compare is a total order, antisymmetric and transitive over *)
(* all types, as the sorts and maps that use it need, unless two ints are   *)
(* further apart than an int can hold.                                      *)
CompareIsOrder == ~(FarApart(va, vb) \/ FarApart(vb, va) \/ FarApart(vb, vc) \/ FarApart(va, vc)) =>
  /\ Compare(va, vb) < 0 <=> Compare(vb, va) > 0
  /\ Compare(va, vb) <= 0 /\ Compare(vb, vc) <= 0 => Compare(va, vc) <= 0

(* Two variants compare equal exactly when cali_variant_eq says so, also    *)
(* strings at different addresses: a map ordered by one and a search by the *)
(* other agree.                                                             *)
CompareAgreesWithEq == (Compare(va, vb) = 0) <=> Eq(va, vb)

(* A value read back from its text is the value, for every type a data file *)
(* can hold except doubles, and strings that end with a NUL.                *)
TextRoundTrip ==
  TypeOf(va) \in {CALI_INT, CALI_UINT, CALI_ADDR, CALI_BOOL} \/ (TypeOf(va) = CALI_TYPE /\ va.v # CALI_INV)
  \/ (TypeOf(va) = CALI_STRING /\ DropNul(Bytes(va)) = Bytes(va)) =>
     LET b == FromText(TypeOf(va), ToText(va)) IN b.ok /\ Eq(b.r, va)

(* Wherever two conversions apply to the same value they agree: int and     *)
(* unsigned modulo 2^32, double by truncation (for an int always, for the   *)
(* others if the number is one an int can hold), bool by being zero.        *)
ConversionsAgree ==
  /\ ToInt(va).ok = ToUint(va).ok /\ ToInt(va).ok = ToDouble(va).ok
  /\ ToInt(va).ok => IntBits(ToInt(va).r) = IntBits(ToUint(va).r)
  /\ ToInt(va).ok /\ (TypeOf(va) = CALI_INT \/ Trunc(ToDouble(va).r) \in IntMin..IntMax)
       => ToInt(va).r = Trunc(ToDouble(va).r)
  /\ ToBool(va).ok => (ToBool(va).r <=> ToUint(va).r # 0)

(* Values of all types can be mixed: they have one order that agrees with    *)
(* equality, conversions that agree with each other, and texts that are      *)
(* read back (cali_variant.c, Variant.cpp).                                  *)
VariantsSound ==
  /\ CompareIsOrder
  /\ CompareAgreesWithEq
  /\ TextRoundTrip
  /\ ConversionsAgree

-----------------------------------------------------------------------------
(***************************************************************************)
(* The binary encodings of snapshot records and context tree nodes         *)
(* (src/common/CompressedSnapshotRecord.cpp, SnapshotBuffer.cpp,           *)
(* NodeBuffer.cpp, c-util/vlenc.h), byte by byte.  A record has its nodes  *)
(* first and its immediate entries (attribute, value) behind them; both    *)
(* are encoded in blocks of four, a block of nodes is written to the front *)
(* of the record, and a block that does not fit is left out.               *)
(***************************************************************************)
CONSTANTS BufLens,      \* sizes of the buffer a record is encoded into
          NodeLists,    \* node ids that one append call may bring
          ImmLists,     \* lists of <<attribute, <<type_and_size, value>>>>
          NodeInfos,    \* nodes [id, attr, parent, type, data]; NoParent for a root
          MaxCount,     \* entries of a kind that a record counts, 128 in the code
          MaxAppends, MaxStored

VARIABLES rec,      \* the CompressedSnapshotRecord being filled
          kept,     \* history: the blocks of nodes and of immediates it took
          offered,  \* history: number of entries given to append
          snapbuf, nodebuf,      \* SnapshotBuffer, NodeBuffer: [count, bytes]
          storedRecs, storedNodes,   \* history: what was appended to them
          appends

rcVars == <<rec, kept, offered, snapbuf, nodebuf, storedRecs, storedNodes, appends>>

NoParent == -1      \* CALI_INV_ID

(* vlenc_u64: seven bits per byte, the eighth says that more follow.       *)
RECURSIVE Vlenc(_)
Vlenc(n) == IF n > 127 THEN <<(n % 128) + 128>> \o Vlenc(n \div 128) ELSE <<n>>
(* vldec_u64: value and next position. *)
RECURSIVE VldecFrom(_, _, _)
VldecFrom(b, p, k) == IF k < 9 /\ b[p] >= 128
                      THEN LET r == VldecFrom(b, p + 1, k + 1) IN <<(b[p] - 128) + 128 * r[1], r[2]>>
                      ELSE <<b[p] % 128, p + 1>>

Vldec(b, p) == VldecFrom(b, p, 0)

PackVariant(v) == Vlenc(v[1]) \o Vlenc(v[2])
UnpackVariant(b, p) ==
  LET ts == Vldec(b, p)
      x  == Vldec(b, ts[2])
  IN  IF ts[1] % 256 > 8 THEN <<<<0, 0>>, p>> ELSE <<<<ts[1], x[1]>>, x[2]>>

(* --- CompressedSnapshotRecord                                            *)
BlockSize == 4
NewRecord(len) == [buf |-> [i \in 1..len |-> 0], nodes |-> 0, imms |-> 0,
                   immPos |-> 1, immLen |-> 1, needed |-> 2, skipped |-> 0]

Blocks(s) == [i \in 1..((Len(s) + BlockSize - 1) \div BlockSize) |->
                SubSeq(s, (i - 1) * BlockSize + 1, IF i * BlockSize < Len(s) THEN i * BlockSize ELSE Len(s))]

Overwrite(b, pos, bytes) == [i \in DOMAIN b |-> IF i > pos /\ i <= pos + Len(bytes) THEN bytes[i - pos] ELSE b[i]]

NodeBytes(blk) == FlattenSeq([i \in DOMAIN blk |-> Vlenc(blk[i])])
ImmBytes(blk) == FlattenSeq([i \in DOMAIN blk |-> Vlenc(blk[i][1]) \o PackVariant(blk[i][2])])
HasRoom(r, count, blk, bytes) ==
  count + Len(blk) < MaxCount /\ r.immPos + r.immLen + Len(bytes) <= Len(r.buf)

(* One block of append(n, node_vec): the immediates move back by the length *)
(* of the block, and the block is copied to the front of the record, over   *)
(* any nodes that are there already.                                        *)
AppendNodeBlock(r, blk) ==
  LET bytes == NodeBytes(blk)
      imms  == SubSeq(r.buf, r.immPos + 1, r.immPos + r.immLen)
      moved == Overwrite(r.buf, r.immPos + Len(bytes), imms)
  IN  IF HasRoom(r, r.nodes, blk, bytes)
      THEN [r EXCEPT !.buf = [Overwrite(moved, 1, bytes) EXCEPT ![1] = @ + Len(blk)],
                     !.immPos = @ + Len(bytes), !.nodes = @ + Len(blk), !.needed = @ + Len(bytes)]
      ELSE [r EXCEPT !.skipped = @ + Len(blk), !.needed = @ + Len(bytes)]
(* A defect: the count of immediates is not updated where it was moved to.    *)
AppendImmBlockMiscounted(r, blk) ==
  LET bytes == ImmBytes(blk) IN
  IF HasRoom(r, r.imms, blk, bytes)
  THEN [r EXCEPT !.buf = [Overwrite(@, r.immPos + r.immLen, bytes) EXCEPT ![2] = @ + Len(blk)],
                 !.immLen = @ + Len(bytes), !.imms = @ + Len(blk), !.needed = @ + Len(bytes)]
  ELSE [r EXCEPT !.skipped = @ + Len(blk), !.needed = @ + Len(bytes)]
(* One block of append(n, attr_vec, data_vec). *)
AppendImmBlock(r, blk) ==
  LET bytes == ImmBytes(blk) IN
  IF HasRoom(r, r.imms, blk, bytes)
  THEN [r EXCEPT !.buf = [Overwrite(@, r.immPos + r.immLen, bytes) EXCEPT ![r.immPos + 1] = @ + Len(blk)],
                 !.immLen = @ + Len(bytes), !.imms = @ + Len(blk), !.needed = @ + Len(bytes)]
  ELSE [r EXCEPT !.skipped = @ + Len(blk), !.needed = @ + Len(bytes)]

RecordSize(r) == IF r.immPos + r.immLen < Len(r.buf) THEN r.immPos + r.immLen ELSE Len(r.buf)

(* --- CompressedSnapshotRecordView: parse a record at position p (0-based) *)
RECURSIVE NodesFrom(_, _, _)
NodesFrom(b, p, n) == IF n = 0 THEN <<<<>>, p>>
                      ELSE LET d == Vldec(b, p + 1)
                               r == NodesFrom(b, d[2] - 1, n - 1)
                           IN  <<<<d[1]>> \o r[1], r[2]>>
RECURSIVE ImmsFrom(_, _, _)
ImmsFrom(b, p, n) == IF n = 0 THEN <<<<>>, p>>
                     ELSE LET a == Vldec(b, p + 1)
                              v == UnpackVariant(b, a[2])
                              r == ImmsFrom(b, v[2] - 1, n - 1)
                          IN  <<<<<<a[1], v[1]>>>> \o r[1], r[2]>>

View(b, p) == LET ns == NodesFrom(b, p + 1, b[p + 1])
                  is == ImmsFrom(b, ns[2] + 1, b[ns[2] + 1])
              IN  [nodes |-> ns[1], imms |-> is[1], next |-> is[2]]

(* --- NodeBuffer: id and parent flag, attribute, parent, type, size, data. *)
PackNode(n) == Vlenc(2 * n.id + IF n.parent # NoParent THEN 1 ELSE 0) \o Vlenc(n.attr)
               \o (IF n.parent # NoParent THEN Vlenc(n.parent) ELSE <<>>)
               \o Vlenc(n.type) \o Vlenc(Len(n.data)) \o n.data

UnpackNode(b, p) ==
  LET u  == Vldec(b, p + 1)
      a  == Vldec(b, u[2])
      pa == IF u[1] % 2 = 1 THEN Vldec(b, a[2]) ELSE <<NoParent, a[2]>>
      t  == Vldec(b, pa[2])
      sz == Vldec(b, t[2])
  IN  [node |-> [id |-> u[1] \div 2, attr |-> a[1], parent |-> pa[1],
                 type |-> IF t[1] <= 8 THEN t[1] ELSE 0,
                 data |-> SubSeq(b, sz[2], sz[2] + sz[1] - 1)],
       next |-> sz[2] + sz[1] - 1]

(* for_each of the two buffers: count records, or up to the end. *)
RECURSIVE EachRecord(_, _, _)
EachRecord(b, p, n) == IF n = 0 \/ p >= Len(b) THEN <<>>
                       ELSE LET v == View(b, p) IN
                            <<[nodes |-> v.nodes, imms |-> v.imms]>> \o EachRecord(b, v.next, n - 1)
RECURSIVE EachNode(_, _, _)
EachNode(b, p, n) == IF n = 0 \/ p >= Len(b) THEN <<>>
                     ELSE LET u == UnpackNode(b, p) IN <<u.node>> \o EachNode(b, u.next, n - 1)

---------------------------------------------------------------------------
NoBlocks == [nodes |-> <<>>, imms |-> <<>>, blocks |-> 0]
RcInit ==
  /\ \E len \in BufLens : rec = NewRecord(len)
  /\ kept = NoBlocks /\ offered = 0 /\ appends = 0
  /\ snapbuf = [count |-> 0, bytes |-> <<>>] /\ nodebuf = [count |-> 0, bytes |-> <<>>]
  /\ storedRecs = <<>> /\ storedNodes = <<>>

MayAppend == appends < MaxAppends /\ appends' = appends + 1

(* append of one block; a longer list is one call per block of four.        *)
AppendNodes(blk) ==
  /\ MayAppend /\ rec' = AppendNodeBlock(rec, blk)
  /\ kept' = IF rec'.nodes = rec.nodes THEN kept
             ELSE [kept EXCEPT !.nodes = @ \o blk, !.blocks = @ + 1]
  /\ offered' = offered + Len(blk)
  /\ UNCHANGED <<snapbuf, nodebuf, storedRecs, storedNodes>>

AppendImms(blk) ==
  /\ MayAppend /\ rec' = AppendImmBlock(rec, blk)
  /\ kept' = IF rec'.imms = rec.imms THEN kept ELSE [kept EXCEPT !.imms = @ \o blk]
  /\ offered' = offered + Len(blk)
  /\ UNCHANGED <<snapbuf, nodebuf, storedRecs, storedNodes>>

(* SnapshotBuffer::append of the record, and a new record. *)
StoreRecord(len) ==
  /\ Len(storedRecs) < MaxStored
  /\ snapbuf' = [count |-> snapbuf.count + 1,
                 bytes |-> snapbuf.bytes \o SubSeq(rec.buf, 1, RecordSize(rec))]
  /\ storedRecs' = Append(storedRecs, kept)
  /\ rec' = NewRecord(len) /\ kept' = NoBlocks /\ offered' = 0
  /\ UNCHANGED <<nodebuf, storedNodes, appends>>

StoreNode(n) ==
  /\ Len(storedNodes) < MaxStored
  /\ nodebuf' = [count |-> nodebuf.count + 1, bytes |-> nodebuf.bytes \o PackNode(n)]
  /\ storedNodes' = Append(storedNodes, n)
  /\ UNCHANGED <<rec, kept, offered, snapbuf, storedRecs, appends>>

RcNext ==
  \/ \E s \in NodeLists : AppendNodes(s)
  \/ \E s \in ImmLists : AppendImms(s)
  \/ \E len \in BufLens : StoreRecord(len)
  \/ \E n \in NodeInfos : StoreNode(n)

RcSpec == RcInit /\ [][RcNext]_rcVars

---------------------------------------------------------------------------
(* A record that holds at most one block of nodes unpacks to exactly the    *)
(* entries it took, in order, and with those it reports as skipped they are *)
(* all that was appended, however the blocks of nodes and immediates        *)
(* alternate and whatever did not fit.                                      *)
RecordUnpacks ==
  /\ kept.blocks <= 1 =>
       LET v == View(rec.buf, 0) IN v.nodes = kept.nodes /\ v.imms = kept.imms
  /\ Len(kept.nodes) + Len(kept.imms) + rec.skipped = offered
  /\ ImmsFrom(rec.buf, rec.immPos + 1, rec.imms)[1] = kept.imms

(* The buffers that aggregation over MPI ships give back the records and    *)
(* the nodes that were put in, in order: each entry ends where the next one *)
(* starts (records with at most one block of nodes).                        *)
BuffersUnpack ==
  /\ (\A i \in DOMAIN storedRecs : storedRecs[i].blocks <= 1) =>
       EachRecord(snapbuf.bytes, 0, snapbuf.count) =
         [i \in DOMAIN storedRecs |-> [nodes |-> storedRecs[i].nodes, imms |-> storedRecs[i].imms]]
  /\ EachNode(nodebuf.bytes, 0, nodebuf.count) = storedNodes

(* What is packed is unpacked, for single records and for the buffers of     *)
(* many (CompressedSnapshotRecord.cpp, NodeBuffer.cpp, SnapshotBuffer.cpp).  *)
EncodingsUnpack == RecordUnpacks /\ BuffersUnpack
=============================================================================
