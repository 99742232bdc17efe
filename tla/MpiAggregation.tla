--------------------------- MODULE MpiAggregation ---------------------------
(***************************************************************************)
(* Cross-process aggregation: every MPI rank aggregates its own records    *)
(* and the ranks combine their aggregators along a binomial tree           *)
(* (aggregate_over_mpi.cpp). The mpireport service does so on every        *)
(* flush-and-write and once more in MPI_Finalize; the mpi-caliquery tool   *)
(* does so once, for the records of one file per rank.                     *)
(*                                                                         *)
(* A node of a rank's metadata database is named by what it stands for, an *)
(* attribute or a path from the root; what merge_node and merge_snapshot   *)
(* do with ids is the subject of module MetadataDB. MPI is external: a     *)
(* channel keeps messages in order, and a send waits for room.             *)
(***************************************************************************)
EXTENDS Aggregator

CONSTANTS
    NRanks,       \* number of MPI ranks
    RankRecords,  \* RankRecords[r]: the records rank r produces, in order
    MaxFlushes    \* flush-and-write calls before MPI_Finalize

Ranks == 0 .. NRanks - 1
Room == 1

VARIABLES
    mode,     \* "report" or "query": which program runs aggregate_over_mpi
    mpc,      \* program counter of each rank
    mnext,    \* records produced so far by each rank
    mflushes, \* for each flush of a rank, how many records it covers
    mag,      \* aggregator of each rank, for the report in progress
    mknown,   \* attributes in each rank's metadata database
    mfed,     \* how many records a rank has put into its aggregator
    mpow,     \* steppow2
    mout,     \* the four messages a rank has still to send
    mmap,     \* nodes mapped from the source of the messages being received
    mpend,    \* snapshots received and not yet aggregated
    mchan,    \* mchan[s, d]: messages under way
    mreport   \* what rank 0 wrote: [out, fed] or nothing

mpVars == <<mode, mpc, mnext, mflushes, mag, mknown, mfed, mpow, mout, mmap, mpend, mchan, mreport>>

NoReport == [out |-> {}, fed |-> <<>>]

MpInit ==
    /\ mode \in {"report", "query"}
    /\ mpc = [r \in Ranks |-> "app"] /\ mnext = [r \in Ranks |-> 0]
    /\ mflushes = [r \in Ranks |-> <<>>]
    /\ mag = [r \in Ranks |-> NewAggregator] /\ mknown = [r \in Ranks |-> {<<"", "count">>}]
    /\ mfed = [r \in Ranks |-> 0] /\ mpow = [r \in Ranks |-> 1]
    /\ mout = [r \in Ranks |-> <<>>] /\ mmap = [r \in Ranks |-> {}]
    /\ mpend = [r \in Ranks |-> {}]
    /\ mchan = [l \in Ranks \X Ranks |-> <<>>] /\ mreport = NoReport

Goes(r, l) == mpc' = [mpc EXCEPT ![r] = l]

\* The application of a rank produces its next record.
Produce(r) ==
    /\ mode = "report" /\ mpc[r] = "app" /\ mnext[r] < Len(RankRecords[r])
    /\ mnext' = [mnext EXCEPT ![r] = @ + 1]
    /\ UNCHANGED <<mode, mpc, mflushes, mag, mknown, mfed, mpow, mout, mmap, mpend, mchan, mreport>>

\* pre_write_cb: a new reporter with an empty aggregator.
NewReporter(r) ==
    /\ mag' = [mag EXCEPT ![r] = NewAggregator]
    /\ mfed' = [mfed EXCEPT ![r] = 0]

\* flush_and_write, called by the application.
FlushAndWrite(r) ==
    /\ mode = "report" /\ mpc[r] = "app" /\ Len(mflushes[r]) < MaxFlushes
    /\ NewReporter(r) /\ Goes(r, "feed")
    /\ mflushes' = [mflushes EXCEPT ![r] = Append(@, mnext[r])]
    /\ UNCHANGED <<mode, mnext, mknown, mpow, mout, mmap, mpend, mchan, mreport>>

\* MPI_Finalize: mpi_finalize_cb flushes a last time before MPI goes away.
Finalize(r) ==
    /\ mode = "report" /\ mpc[r] = "app"
    /\ Len(mflushes[r]) = MaxFlushes /\ mnext[r] = Len(RankRecords[r])
    /\ NewReporter(r) /\ Goes(r, "feed")
    /\ mflushes' = [mflushes EXCEPT ![r] = Append(@, mnext[r])]
    /\ UNCHANGED <<mode, mnext, mknown, mpow, mout, mmap, mpend, mchan, mreport>>

\* mpi-caliquery begins to read the rank's file.
ProcessMyInput(r) ==
    /\ mode = "query" /\ mpc[r] = "app"
    /\ mnext' = [mnext EXCEPT ![r] = Len(RankRecords[r])]
    /\ mflushes' = [mflushes EXCEPT ![r] = <<mnext'[r]>>]
    /\ Goes(r, "feed")
    /\ UNCHANGED <<mode, mag, mknown, mfed, mpow, mout, mmap, mpend, mchan, mreport>>

\* Aggregator::add to the aggregator of rank r.
Add(r, attrs, list) ==
    \E a \in {UpdateKeyIds(mag[r], attrs)} : \E key \in {KeyOf(a, list)} :
        mag' = [mag EXCEPT ![r] = Process(a, key, list)]

\* write_snapshot_cb, MpiReport::add: the next record goes into the aggregator;
\* after the last one the rank enters MPI_Comm_dup, which is collective.
WriteSnapshot(r) ==
    /\ mpc[r] = "feed"
    /\ IF mfed[r] = mnext[r]
       THEN Goes(r, "dup") /\ UNCHANGED <<mag, mknown, mfed>>
       ELSE LET rec == RankRecords[r][mfed[r] + 1]
            IN  /\ mknown' = [mknown EXCEPT ![r] = @ \cup AttrsOf(rec)]
                /\ Add(r, mknown'[r], rec)
                /\ mfed' = [mfed EXCEPT ![r] = @ + 1]
                /\ UNCHANGED mpc
    /\ UNCHANGED <<mode, mnext, mflushes, mpow, mout, mmap, mpend, mchan, mreport>>

\* Every rank has entered the report of its n-th flush.
Dup(r) ==
    /\ mpc[r] = "dup"
    /\ \A s \in Ranks : Len(mflushes[s]) >= Len(mflushes[r])
    /\ Goes(r, "loop") /\ mpow' = [mpow EXCEPT ![r] = 1]
    /\ UNCHANGED <<mode, mnext, mflushes, mag, mknown, mfed, mout, mmap, mpend, mchan, mreport>>

-----------------------------------------------------------------------------
(* aggregate_over_mpi *)

Receives(r, p) == r % (2 * p) = 0 /\ r + p < NRanks

\* A defect: a rank without a partner behind it keeps its data.
SendsPaired(r, p) == r % p = 0 /\ r % (2 * p) # 0 /\ r + p < NRanks

Sends(r, p)    == r % p = 0 /\ r % (2 * p) # 0

AttrNode(a) == [attr |-> a]
PathNode(p) == [path |-> p]

\* recursive_append_path: the attribute and the parent of a node go first.
PathNodes(path) ==
    [i \in 1 .. 2 * Len(path) |->
       IF i % 2 = 1 THEN AttrNode(path[(i + 1) \div 2][1]) ELSE PathNode(SubSeq(path, 1, i \div 2))]

\* A defect: the attributes of immediate entries are not looked at.
ListNodesPathOnly(list) == PathNodes(list.path)

ListNodes(list) == PathNodes(list.path) \o [i \in DOMAIN list.imms |-> AttrNode(list.imms[i][1])]

\* A node is written once.
MpWritten(nodes, n) == CHOOSE s \in {IF Contains(ns, n) THEN ns ELSE Append(ns, n) : ns \in {nodes}} : TRUE

\* pack_and_send: flush the aggregator into a node and a snapshot buffer.
Pack(r) ==
    \E snaps \in {Flush(mag[r])} :
    \E refs \in {FoldSet(LAMBDA l, ns : ns \o ListNodes(l), <<>>, snaps)} :
    \E nodes \in {FoldLeft(MpWritten, <<>>, refs)} :
        mout' = [mout EXCEPT ![r] = <<Len(nodes), nodes, Cardinality(snaps), snaps>>]

\* One round of the loop: receive, or pack, or nothing to do.
Loop(r) ==
    /\ mpc[r] = "loop"
    /\ LET p == mpow[r]
       IN  \/ /\ p >= NRanks /\ Goes(r, "out") /\ UNCHANGED <<mpow, mout>>
           \/ /\ p < NRanks /\ Receives(r, p)
              /\ Goes(r, "recv1") /\ UNCHANGED <<mpow, mout>>
           \/ /\ p < NRanks /\ Sends(r, p)
              /\ Pack(r)
              /\ Goes(r, "send1") /\ UNCHANGED mpow
           \/ /\ p < NRanks /\ ~Receives(r, p) /\ ~Sends(r, p)
              /\ mpow' = [mpow EXCEPT ![r] = 2 * @] /\ UNCHANGED <<mpc, mout>>
    /\ UNCHANGED <<mode, mnext, mflushes, mag, mknown, mfed, mmap, mpend, mchan, mreport>>

SendPc == <<"send1", "send2", "send3", "send4">>
RecvPc == <<"recv1", "recv2", "recv3", "recv4">>

\* MPI_Send with tag k.
Send(r, k) ==
    LET link == <<r, r - mpow[r]>>
    IN  /\ mpc[r] = SendPc[k] /\ Len(mchan[link]) < Room
        /\ mchan' = [mchan EXCEPT ![link] = Append(@, <<k, mout[r][k]>>)]
        /\ IF k < 4 THEN Goes(r, SendPc[k + 1]) /\ UNCHANGED mpow
           ELSE Goes(r, "loop") /\ mpow' = [mpow EXCEPT ![r] = 2 * @]
        /\ UNCHANGED <<mode, mnext, mflushes, mag, mknown, mfed, mout, mmap, mpend, mreport>>

\* merge_node finds the attribute and the parent of a node by the id map.
Resolves(map, n) ==
    IF "attr" \in DOMAIN n THEN TRUE
    ELSE /\ AttrNode(Last(n.path)[1]) \in map
         /\ Len(n.path) = 1 \/ PathNode(Front(n.path)) \in map

MergeNodes(map, nodes) ==
    FoldLeft(LAMBDA m, n : UNION {IF Resolves(s, n) THEN s \cup {n} ELSE s : s \in {m}}, map, nodes)

\* merge_snapshot: entries whose node or attribute is not mapped are lost.
MergeSnapshot(map, list) ==
    [path |-> IF list.path # <<>> /\ PathNode(list.path) \in map THEN list.path ELSE <<>>,
     imms |-> SelectSeq(list.imms, LAMBDA e : AttrNode(e[1]) \in map)]

\* MPI_Recv with tag k; a node buffer is merged when it arrives.
Recv(r, k) ==
    LET link == <<r + mpow[r], r>>
        msg  == Head(mchan[link])
    IN  /\ mpc[r] = RecvPc[k] /\ mchan[link] # <<>> /\ msg[1] = k
        /\ mchan' = [mchan EXCEPT ![link] = Tail(@)]
        /\ Goes(r, IF k < 4 THEN RecvPc[k + 1] ELSE "merge")
        /\ mmap' = [mmap EXCEPT ![r] = IF k = 2 THEN MergeNodes({}, msg[2]) ELSE @]
        /\ mknown' = [mknown EXCEPT ![r] =
              IF k = 2 THEN @ \cup {n.attr : n \in {x \in mmap'[r] : "attr" \in DOMAIN x}} ELSE @]
        /\ mpend' = [mpend EXCEPT ![r] = IF k = 4 THEN msg[2] ELSE @]
        /\ UNCHANGED <<mode, mnext, mflushes, mag, mfed, mpow, mout, mreport>>

\* receive_and_merge_snapshots: the records of the buffer, one after another.
Merge(r) ==
    /\ mpc[r] = "merge"
    /\ IF mpend[r] = {}
       THEN /\ Goes(r, "loop") /\ mpow' = [mpow EXCEPT ![r] = 2 * @]
            /\ UNCHANGED <<mag, mpend>>
       ELSE LET l == CHOOSE x \in mpend[r] : TRUE
            IN  /\ Add(r, mknown[r], MergeSnapshot(mmap[r], l))
                /\ mpend' = [mpend EXCEPT ![r] = @ \ {l}]
                /\ UNCHANGED <<mpc, mpow>>
    /\ UNCHANGED <<mode, mnext, mflushes, mknown, mfed, mout, mmap, mchan, mreport>>

\* Rank 0 writes the report; the others just return.
FormatOutput(r) ==
    /\ mpc[r] = "out"
    /\ mreport' = IF r # 0 THEN mreport
                  ELSE [out |-> Flush(mag[0]),
                        fed |-> FoldSet(LAMBDA x, s : s \o SubSeq(RankRecords[x], 1, mflushes[x][Len(mflushes[0])]),
                                        <<>>, Ranks)]
    /\ Goes(r, IF mode = "query" \/ Len(mflushes[r]) > MaxFlushes THEN "finalized" ELSE "app")
    /\ UNCHANGED <<mode, mnext, mflushes, mag, mknown, mfed, mpow, mout, mmap, mpend, mchan>>

RankStep(r) ==
    \/ Produce(r) \/ FlushAndWrite(r) \/ Finalize(r) \/ ProcessMyInput(r) \/ WriteSnapshot(r) \/ Dup(r) \/ Loop(r)
    \/ \E k \in 1..4 : Send(r, k) \/ Recv(r, k)
    \/ Merge(r) \/ FormatOutput(r)

MpNext == \E r \in Ranks : RankStep(r)

\* MPI makes progress: while some rank can take a step, one does.
MpFair == WF_mpVars(MpNext)

MpSpec == MpInit /\ [][MpNext]_mpVars /\ MpFair

-----------------------------------------------------------------------------

\* Rank 0's report covers the records of every rank, each once, as if one
\* aggregator had seen them all: for any number of ranks (not only powers of
\* two), although ranks flush different amounts and a rank may already be
\* one report further when rank 0 writes.
ReportIsGlobal == mreport # NoReport => Exact(mreport.out, mreport.fed)

\* When all ranks flush equally often, no rank waits forever for a message or
\* for the collective that starts a report: once a rank has begun a report,
\* every rank gets through its last one to the end of MPI_Finalize.
AllRanksFinish == (\E r \in Ranks : mpc[r] # "app") ~> (\A r \in Ranks : mpc[r] = "finalized")
=============================================================================
