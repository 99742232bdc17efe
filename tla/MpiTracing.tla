----------------------------- MODULE MpiTracing -----------------------------
(***************************************************************************)
(* Message tracing in the MPI service.  A wrapper calls MPI and then tells *)
(* the tracer, which keeps what it needs of pending requests in a map from *)
(* request handles and numbers communicators as it meets them.  MPI itself *)
(* (external) hands out handles and reuses those of completed requests.    *)
(***************************************************************************)
EXTENDS Integers, Sequences, FiniteSets

CONSTANTS MpiThreads,   \* threads making MPI calls
          Handles,      \* request handles MPI hands out
          Comms,        \* communicators
          Peers,        \* ranks messages come from or go to
          MaxMpiCalls   \* bound on the number of MPI calls

VARIABLES mpi,          \* external: mpi[h], the request behind a handle, if any
          reqMap,       \* req_map: handle -> [op, persistent, comm]
          commMap,      \* comm_map: communicator -> id of its node
          commId,       \* comm_id: the next communicator id
          mpith,        \* mpith[t]: the call in progress [at, h, comm, peer]
          msgs,         \* events pushed: <<kind, communicator id, peer>>
          traffic       \* history: [done, calls, reused]

mtVars == <<mpi, reqMap, commMap, commId, mpith, msgs, traffic>>

MtQuiet == [at |-> "idle", h |-> 0, comm |-> 0, peer |-> 0]
NoReq == [op |-> "none", persistent |-> FALSE, active |-> FALSE, comm |-> 0, peer |-> 0, owner |-> 0]
Only(f, S) == [x \in S |-> f[x]]
Put(f, x, v) == [y \in DOMAIN f \cup {x} |-> IF y = x THEN v ELSE f[y]]

(* init_mpi numbers the two predefined communicators but does not enter    *)
(* them in the map: they get another number when first used.               *)
MtInit ==
    /\ mpi = [h \in Handles |-> NoReq]
    /\ reqMap = <<>> /\ commMap = <<>> /\ commId = 2
    /\ mpith = [t \in MpiThreads |-> MtQuiet]
    /\ msgs = <<>>
    /\ traffic = [done |-> <<>>, calls |-> 0, reused |-> FALSE]

(* lookup_comm, under the map's lock                                       *)
LookupComm(comm) == IF comm \in DOMAIN commMap THEN commMap[comm] ELSE commId

Knows(comm) ==
    /\ commMap' = Put(commMap, comm, LookupComm(comm))
    /\ commId' = IF comm \in DOMAIN commMap THEN commId ELSE commId + 1

Call(t, at, h, comm, peer) ==
    /\ mpith[t].at = "idle" /\ traffic.calls < MaxMpiCalls
    /\ mpith' = [mpith EXCEPT ![t] = [at |-> at, h |-> h, comm |-> comm, peer |-> peer]]

Return(t) == mpith' = [mpith EXCEPT ![t] = MtQuiet]
Push(kind, id, peer) == msgs' = Append(msgs, <<kind, id, peer>>)

(* Is some thread still to look up the request it completed behind h?      *)
Pending(h) == \E t \in MpiThreads : mpith[t].at \in {"complete", "free"} /\ mpith[t].h = h

Counted(reused) == [traffic EXCEPT !.calls = @ + 1, !.reused = @ \/ reused]
Happened(kind, comm, peer) == [traffic EXCEPT !.calls = @ + 1, !.done = Append(@, <<kind, comm, peer>>)]
-----------------------------------------------------------------------------
(* MPI_Send, MPI_Recv: a blocking message                                  *)
Blocking(t, kind, comm, peer) ==
    /\ Call(t, kind, 0, comm, peer)
    /\ traffic' = Happened(kind, comm, peer)
    /\ UNCHANGED <<mpi, reqMap, commMap, commId, msgs>>

(* MPI_Barrier, MPI_Bcast, MPI_Reduce...: one event per call               *)
Collective(t, comm, root) ==
    /\ Call(t, "coll", 0, comm, root)
    /\ traffic' = Happened("coll", comm, root)
    /\ UNCHANGED <<mpi, reqMap, commMap, commId, msgs>>

(* handle_send, handle_recv, handle_12n...                                 *)
HandleMessage(t) ==
    /\ mpith[t].at \in {"send", "recv", "coll"}
    /\ Push(mpith[t].at, LookupComm(mpith[t].comm), mpith[t].peer)
    /\ Knows(mpith[t].comm)
    /\ Return(t)
    /\ UNCHANGED <<mpi, reqMap, traffic>>

(* MPI_Isend: its request is never entered in the map                      *)
Isend(t, h, comm, peer) ==
    /\ mpi[h] = NoReq
    /\ Call(t, "send", h, comm, peer)
    /\ mpi' = [mpi EXCEPT ![h] = [op |-> "send", persistent |-> FALSE, active |-> TRUE,
                                  comm |-> comm, peer |-> peer, owner |-> t]]
    /\ traffic' = [Happened("send", comm, peer) EXCEPT !.reused = @ \/ Pending(h)]
    /\ UNCHANGED <<reqMap, commMap, commId, msgs>>

(* MPI_Irecv, MPI_Send_init, MPI_Recv_init: MPI makes the request ...      *)
NewRequest(t, h, op, persistent, comm, peer) ==
    /\ mpi[h] = NoReq
    /\ Call(t, "new", h, comm, peer)
    /\ mpi' = [mpi EXCEPT ![h] = [op |-> op, persistent |-> persistent, active |-> ~persistent,
                                  comm |-> comm, peer |-> peer, owner |-> t]]
    /\ traffic' = Counted(Pending(h))
    /\ UNCHANGED <<reqMap, commMap, commId, msgs>>

(* ... and the tracer enters it (handle_irecv, handle_send_init,           *)
(* handle_recv_init).                                                      *)
HandleNew(t) ==
    /\ mpith[t].at = "new"
    /\ \E h \in {mpith[t].h} :
       reqMap' = Put(reqMap, h, [op |-> mpi[h].op, persistent |-> mpi[h].persistent,
                                 comm |-> LookupComm(mpi[h].comm), peer |-> mpi[h].peer])
    /\ Knows(mpith[t].comm)
    /\ Return(t)
    /\ UNCHANGED <<mpi, msgs, traffic>>

(* MPI_Start of a persistent request; handle_start pushes the send event   *)
Start(t, h) ==
    /\ mpi[h].persistent /\ ~mpi[h].active /\ mpi[h].owner = t
    /\ Call(t, "start", h, mpi[h].comm, mpi[h].peer)
    /\ mpi' = [mpi EXCEPT ![h].active = TRUE]
    /\ traffic' = IF mpi[h].op = "send" THEN Happened("send", mpi[h].comm, mpi[h].peer)
                  ELSE Counted(FALSE)
    /\ UNCHANGED <<reqMap, commMap, commId, msgs>>

HandleStart(t) ==
    /\ mpith[t].at = "start"
    /\ \E h \in {mpith[t].h} :
       IF h \in DOMAIN reqMap /\ reqMap[h].op = "send"
       THEN Push("send", reqMap[h].comm, reqMap[h].peer)
       ELSE UNCHANGED msgs
    /\ Return(t)
    /\ UNCHANGED <<mpi, reqMap, commMap, commId, traffic>>

(* MPI_Wait, MPI_Test...: the request completes; the handle of one that    *)
(* is not persistent is free for MPI to reuse from here on.                *)
Complete(t, h, peer) ==
    /\ mpi[h].active /\ mpi[h].owner = t
    /\ Call(t, "complete", h, mpi[h].comm, peer)
    /\ mpi' = [mpi EXCEPT ![h] = IF mpi[h].persistent THEN [@ EXCEPT !.active = FALSE] ELSE NoReq]
    /\ traffic' = IF mpi[h].op = "recv" THEN Happened("recv", mpi[h].comm, peer)
                  ELSE Counted(FALSE)
    /\ UNCHANGED <<reqMap, commMap, commId, msgs>>

(* A defect: a finished request stays in the map.                          *)
ErasedNever(h) == reqMap

(* handle_completion                                                       *)
Erased(h) ==
    IF h \in DOMAIN reqMap /\ ~reqMap[h].persistent THEN Only(reqMap, DOMAIN reqMap \ {h})
    ELSE reqMap

HandleCompletion(t) ==
    /\ mpith[t].at = "complete"
    /\ \E h \in {mpith[t].h} :
       /\ IF h \in DOMAIN reqMap /\ reqMap[h].op = "recv"
          THEN Push("recv", reqMap[h].comm, mpith[t].peer)
          ELSE UNCHANGED msgs
       /\ reqMap' = Erased(h)
    /\ Return(t)
    /\ UNCHANGED <<mpi, commMap, commId, traffic>>

(* MPI_Request_free: the tracer forgets the request before MPI frees it    *)
RequestFree(t, h) ==
    /\ mpi[h] # NoReq /\ ~mpi[h].active /\ mpi[h].owner = t
    /\ Call(t, "free", h, 0, 0)
    /\ reqMap' = Only(reqMap, DOMAIN reqMap \ {h})
    /\ traffic' = Counted(FALSE)
    /\ UNCHANGED <<mpi, commMap, commId, msgs>>

FreeRequest(t) ==
    /\ mpith[t].at = "free"
    /\ mpi' = [mpi EXCEPT ![mpith[t].h] = NoReq]
    /\ Return(t)
    /\ UNCHANGED <<reqMap, commMap, commId, msgs, traffic>>

MtNext ==
    \/ \E t \in MpiThreads :
          \/ HandleMessage(t) \/ HandleNew(t) \/ HandleStart(t) \/ HandleCompletion(t) \/ FreeRequest(t)
          \/ \E comm \in Comms, peer \in Peers :
                \/ \E kind \in {"send", "recv"} : Blocking(t, kind, comm, peer)
                \/ Collective(t, comm, peer)
          \/ \E h \in Handles :
                \/ Start(t, h) \/ RequestFree(t, h)
                \/ \E peer \in Peers : Complete(t, h, peer)
                \/ \E comm \in Comms, peer \in Peers :
                      \/ Isend(t, h, comm, peer)
                      \/ NewRequest(t, h, "send", TRUE, comm, peer)
                      \/ \E p \in BOOLEAN : NewRequest(t, h, "recv", p, comm, peer)

MtSpec == MtInit /\ [][MtNext]_mtVars
-----------------------------------------------------------------------------
Times(seq, x) == Cardinality({i \in DOMAIN seq : seq[i] = x})

(* The trace is the traffic: when no wrapper is under way, there is one    *)
(* event for every message sent, started or received and every collective  *)
(* call, with the peer and the communicator it really had, and no other;   *)
(* unless MPI gave a completed request's handle to another thread before   *)
(* the tracer had looked the completed request up.                         *)
TraceExact ==
    (\A t \in MpiThreads : mpith[t].at = "idle") /\ ~traffic.reused =>
        /\ Len(msgs) = Len(traffic.done)
        /\ \A i \in DOMAIN traffic.done :
              LET m == traffic.done[i]
              IN  /\ m[2] \in DOMAIN commMap
                  /\ Times(msgs, <<m[1], commMap[m[2]], m[3]>>) = Times(traffic.done, m)
=============================================================================
