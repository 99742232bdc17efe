---------------------------- MODULE SymbolLookup ----------------------------
(***************************************************************************)
(* The services that resolve addresses when snapshots are flushed:         *)
(* symbollookup (function, source file and line, module) and instlookup    *)
(* (the instruction at the address), and callpath, which records the       *)
(* addresses of the call stack.  The symbol tables, the instruction        *)
(* decoder and the stack unwinder are external.                            *)
(***************************************************************************)
EXTENDS Integers, Sequences, FiniteSets, SequencesExt

CONSTANTS
    AddrAttrs,      \* address attributes, in the order of the map (their creation)
    Lookups,        \* configurations: [names, sets of LkOptions]
    Table,          \* address -> [func, file, line, mod]
    Code,           \* address -> [op, reads, writes]
    Stacks,         \* call stacks, innermost frame first
    InCaliper,      \* the frames inside Caliper itself
    SkipFrames,     \* callpath's skip_frames values to check
    MaxFrames,      \* MAX_PATH of callpath
    LkMaxFlushes

VARIABLES
    lk,             \* the configuration; known attributes; m_sym_attr_map
    snapshot,       \* the record in hand: attribute -> addresses, outermost first
    symbols,        \* what symbollookup appended to it
    insts           \* what instlookup appended to it

lkVars == <<lk, snapshot, symbols, insts>>

NoSnapshot == [addr |-> [a \in AddrAttrs |-> <<>>], stack |-> <<>>]

LkInit ==
    /\ \E c \in Lookups, s \in SkipFrames :
           lk = [names |-> c.names, want |-> c.want, skip |-> s, known |-> {}, map |-> {},
                 at |-> "run", flushes |-> 0]
    /\ snapshot = NoSnapshot /\ symbols = <<>> /\ insts = <<>>

(* A service creates an address attribute (class.symboladdress).           *)
CreateAddrAttr(a) ==
    /\ a \notin lk.known
    /\ lk' = [lk EXCEPT !.known = @ \cup {a}]
    /\ UNCHANGED <<snapshot, symbols, insts>>

(* check_attributes: the configured names, else every address attribute    *)
(* there is by now; map::insert keeps those of earlier flushes.            *)
CheckAttributes == IF lk.names = {} THEN lk.known ELSE lk.names \cap lk.known

(* pre_flush_cb of both services; init_lookup is done once.                *)
PreFlushLookup ==
    /\ lk.at = "run" /\ lk.flushes < LkMaxFlushes
    /\ lk' = [lk EXCEPT !.map = @ \cup CheckAttributes, !.at = "flush", !.flushes = @ + 1]
    /\ UNCHANGED <<snapshot, symbols, insts>>

(***************************************************************************)
(* callpath's snapshot_cb: frames are skipped first, then recorded up to   *)
(* MAX_PATH, leaving out those inside Caliper, from the end of the array   *)
(* backwards so that the outermost frame comes first.                      *)
(***************************************************************************)
NotCaliper(f) == f \notin InCaliper

Callpath(stack, skip) ==
    LET kept == SelectSeq(SubSeq(stack, skip + 1, Len(stack)), NotCaliper)
        n == IF Len(kept) < MaxFrames THEN Len(kept) ELSE MaxFrames IN
    [i \in 1..n |-> kept[n + 1 - i]]

(* A buffered snapshot comes up for processing: the call path, and any     *)
(* single address (e.g. the sampler's program counter).                    *)
NextSnapshot(stack, pc) ==
    /\ lk.at = "flush"
    /\ snapshot' = [addr |-> [a \in AddrAttrs |->
                                 IF a = Head(SetToSeq(AddrAttrs)) THEN Callpath(stack, lk.skip)
                                 ELSE pc],
                    stack |-> stack]
    /\ lk' = [lk EXCEPT !.at = "process"]
    /\ symbols' = <<>> /\ insts' = <<>>

Found(x) == x \in DOMAIN Table

(* getSourceLines is only called for lookup_sourceloc. *)
SourceLines(x) == Found(x) /\ "sourceloc" \in lk.want

(* add_symbol_attributes for one address of attribute a.                   *)
AddSymbols(a, x) ==
    LET file == IF SourceLines(x) THEN Table[x].file ELSE "UNKNOWN"
        line == IF SourceLines(x) THEN Table[x].line ELSE "0"
        E(k, v) == [attr |-> a, kind |-> k, value |-> v] IN
       (IF "sourceloc" \in lk.want THEN <<E("file:line", <<file, line>>), E("line", <<line>>)>> ELSE <<>>)
    \o (IF "file" \in lk.want THEN <<E("file", <<file>>)>> ELSE <<>>)
    \o (IF "line" \in lk.want THEN <<E("line", <<line>>)>> ELSE <<>>)
    \o (IF "functions" \in lk.want
        THEN <<E("function", <<IF Found(x) THEN Table[x].func ELSE "UNKNOWN">>)>> ELSE <<>>)
    \o (IF "module" \in lk.want
        THEN <<E("module", <<IF Found(x) THEN Table[x].mod ELSE "UNKNOWN">>)>> ELSE <<>>)

(* add_inst_attributes: the size of a write replaces that of the read      *)
(* (InstLookup.cpp:184); write_size stays 0.                               *)
AddInst(a, x) ==
    IF x \notin DOMAIN Code THEN <<>>
    ELSE LET c == Code[x]
             E(k, v) == [attr |-> a, kind |-> k, value |-> <<v>>] IN
         <<E("op", c.op), E("read_size", IF c.writes # "0" THEN c.writes ELSE c.reads),
           E("write_size", "0")>>

(* The addresses in the order of the loop: attribute by attribute, and     *)
(* for each its nodes from the innermost outwards.                         *)
Walk ==
    LET addrs(a) == IF a \in lk.map THEN Reverse(snapshot.addr[a]) ELSE <<>>
        pairs(a) == [k \in DOMAIN addrs(a) |-> <<a, addrs(a)[k]>>]
    IN  FlattenSeq([i \in 1..Cardinality(AddrAttrs) |-> pairs(SetToSeq(AddrAttrs)[i])])

(* A defect: the list is not reversed.                                     *)
NotReversed(s) == s

InOrder(s) == Reverse(s)

(* process_snapshot of symbollookup: collect attribute by attribute, then  *)
(* reverse "to restore correct hierarchical order".                        *)
ProcessSymbols ==
    /\ lk.at = "process"
    /\ symbols' = InOrder(FlattenSeq([k \in DOMAIN Walk |-> AddSymbols(Walk[k][1], Walk[k][2])]))
    /\ lk' = [lk EXCEPT !.at = "insts"]
    /\ UNCHANGED <<snapshot, insts>>

(* process_snapshot of instlookup, the same loop. *)
ProcessInsts ==
    /\ lk.at = "insts"
    /\ insts' = InOrder(FlattenSeq([k \in DOMAIN Walk |-> AddInst(Walk[k][1], Walk[k][2])]))
    /\ lk' = [lk EXCEPT !.at = "done"]
    /\ UNCHANGED <<snapshot, symbols>>

PostFlushLookup ==
    /\ lk.at = "done"
    /\ \E at \in {"flush", "run"} : lk' = [lk EXCEPT !.at = at]
    /\ snapshot' = NoSnapshot /\ symbols' = <<>> /\ insts' = <<>>

LkNext ==
    \/ \E a \in AddrAttrs : CreateAddrAttr(a)
    \/ PreFlushLookup \/ ProcessSymbols \/ ProcessInsts \/ PostFlushLookup
    \/ \E s \in Stacks : \E pc \in {<<>>} \cup {<<x>> : x \in DOMAIN Table} : NextSnapshot(s, pc)

LkSpec == LkInit /\ [][LkNext]_lkVars

Values(out, a, k) ==
    LET Is(e) == e.attr = a /\ e.kind = k IN SelectSeq(out, Is)

(***************************************************************************)
(* Every address of every address attribute known when the flush began     *)
(* gets its own function, in the order of the call path from the outermost *)
(* frame, "UNKNOWN" where nothing is found, and likewise its source        *)
(* location; the same holds for the instruction names.  A call path is the *)
(* innermost MAX_PATH frames outside Caliper after the skipped ones.       *)
(* (With lookup_line, each line appears twice: sourceloc adds one too.)    *)
(***************************************************************************)
SymbolsInOrder ==
    lk.at = "done" =>
        \A a \in AddrAttrs :
            LET x == snapshot.addr[a]
                f == Values(symbols, a, "function")
                s == Values(symbols, a, "file:line")
                o == Values(insts, a, "op")
                coded == SelectSeq(x, LAMBDA y : y \in DOMAIN Code) IN
            /\ Len(f) = IF a \in lk.map /\ "functions" \in lk.want THEN Len(x) ELSE 0
            /\ \A i \in DOMAIN f : f[i].value = <<IF Found(x[i]) THEN Table[x[i]].func ELSE "UNKNOWN">>
            /\ Len(s) = IF a \in lk.map /\ "sourceloc" \in lk.want THEN Len(x) ELSE 0
            /\ \A i \in DOMAIN s : Found(x[i]) => s[i].value = <<Table[x[i]].file, Table[x[i]].line>>
            /\ Len(o) = IF a \in lk.map THEN Len(coded) ELSE 0
            /\ \A i \in DOMAIN o : o[i].value = <<Code[coded[i]].op>>

(* The n-th frame from the inside, of those outside Caliper. *)
FrameOutside(stack, skip, n) ==
    CHOOSE i \in skip + 1..Len(stack) :
        /\ NotCaliper(stack[i])
        /\ Cardinality({j \in skip + 1..i : NotCaliper(stack[j])}) = n

(***************************************************************************)
(* The recorded call path lists the frames outside Caliper from the        *)
(* outermost recorded one inwards, ending at the innermost one that is not *)
(* skipped, without gaps (callpath's snapshot_cb).                         *)
(***************************************************************************)
CallpathOrdered ==
    lk.at = "process" =>
        LET p == snapshot.addr[Head(SetToSeq(AddrAttrs))] IN
        /\ Len(p) <= MaxFrames
        /\ \A i \in DOMAIN p :
              p[Len(p) + 1 - i] = snapshot.stack[FrameOutside(snapshot.stack, lk.skip, i)]

(* From the call stack to the flushed record the order is kept: the frames   *)
(* recorded, and their functions, source locations and instructions          *)
(* (Callpath.cpp, SymbolLookup.cpp, InstLookup.cpp).                         *)
LookupsOrdered == CallpathOrdered /\ SymbolsInOrder
=============================================================================
