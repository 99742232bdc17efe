-------------------------------- MODULE Trace --------------------------------
(***************************************************************************)
(* The trace service (src/services/trace): every thread appends snapshots  *)
(* to a buffer of its own, a list of chunks; the buffers form a global     *)
(* list.  flush_cb walks the list and hands out the records, clear_cb      *)
(* empties the buffers and deletes those of threads that have ended.       *)
(*                                                                         *)
(* A buffer is named by its thread.  chunks[t] is oldest first: its last   *)
(* element is tbuf->chunks, and m_next of chunk i is chunk i-1.  Sizes are *)
(* abstract: a record is estimated at EstSize (fits) and takes RecSize.    *)
(*                                                                         *)
(* Writers synchronize with flush and clear by the stopped flag alone,     *)
(* which they read once.  Each access to shared data is a step.  A buffer  *)
(* that is deleted (freed) is read with its last content.                  *)
(***************************************************************************)
EXTENDS Integers, Sequences, FiniteSets, Functions

CONSTANTS Tracers,     \* threads
          Policies,    \* values of the configuration variable buffer_policy
          ChunkSize, EstSize, RecSize,
          MaxRecords,  \* bound: snapshots taken
          MaxCalls,    \* bound: flush and clear calls
          Ending,      \* threads that may end
          NoBuf

ASSUME TraceSizes ==
  /\ RecSize \in Nat /\ EstSize \in Nat /\ ChunkSize \in Nat
  /\ RecSize <= EstSize /\ EstSize < ChunkSize

ASSUME TraceNames == NoBuf \notin Tracers

VARIABLES policy,      \* "grow", "stop" or "flush"
          registered,  \* threads that have a buffer
          retired, stopped, freed,
          tNext, tPrev, listHead,
          chunks,      \* [pos, recs, nrec] each, oldest first
          flushLock,   \* holder of global_flush_lock
          where,       \* where a thread is
          loc,         \* its local variables
          taken,       \* number of snapshots so far; record r is the r-th
          calls,
          lostHead,    \* history: a deleted buffer was at the head of the list
          torn,        \* history: a buffer was emptied in the middle of a save
          saved,       \* history: records whose save is complete, not cleared
          due,         \* history: records that the running flush must deliver
          out          \* what the running flush delivered

trVars == <<policy, registered, retired, stopped, freed, tNext, tPrev, listHead, chunks,
            flushLock, where, loc, taken, calls, lostHead, torn, saved, due, out>>

shared == <<policy, registered, retired, freed, tNext, tPrev, listHead>>

NewChunk == [pos |-> 0, recs |-> <<>>, nrec |-> 0]

NoLoc == [rec |-> 0, buf |-> NoBuf, chunk |-> 0, r |-> 0, back |-> "idle"]

TrInit ==
  /\ policy \in Policies
  /\ registered = {} /\ retired = {} /\ stopped = {} /\ freed = {}
  /\ tNext = [t \in Tracers |-> NoBuf] /\ tPrev = [t \in Tracers |-> NoBuf]
  /\ listHead = NoBuf
  /\ chunks = [t \in Tracers |-> <<NewChunk>>]
  /\ flushLock = NoBuf
  /\ where = [t \in Tracers |-> "idle"]
  /\ loc = [t \in Tracers |-> NoLoc]
  /\ taken = 0 /\ calls = 0 /\ lostHead = FALSE /\ torn = FALSE
  /\ saved = {} /\ due = {} /\ out = <<>>

TrGoto(t, l) == where' = [where EXCEPT ![t] = l]

TrMove(t, from, to) == where[t] = from /\ TrGoto(t, to)

-----------------------------------------------------------------------------
(* acquire_tbuf() when the thread's scope is created: push to the front.   *)
Register(t) ==
  /\ where[t] = "idle" /\ t \notin registered
  /\ registered' = registered \cup {t}
  /\ tPrev' = IF listHead = NoBuf THEN tPrev ELSE [tPrev EXCEPT ![listHead] = t]
  /\ tNext' = [tNext EXCEPT ![t] = listHead]
  /\ listHead' = t
  /\ UNCHANGED <<policy, retired, stopped, freed, chunks, flushLock, where, loc, taken, calls, lostHead, torn, saved, due, out>>

(* destroy_tbuf() when the thread ends.                                    *)
Retire(t) ==
  /\ TrMove(t, "idle", "ended") /\ t \in registered \cap Ending
  /\ retired' = retired \cup {t}
  /\ UNCHANGED <<policy, registered, stopped, freed, tNext, tPrev, listHead, chunks, flushLock, loc,
                 taken, calls, lostHead, torn, saved, due, out>>

(* process_snapshot_cb: a stopped buffer drops the snapshot.               *)
TakeSnapshot(t) ==
  /\ where[t] = "idle" /\ t \in registered /\ taken < MaxRecords
  /\ taken' = taken + 1
  /\ IF t \in stopped THEN UNCHANGED <<where, loc>>
     ELSE /\ TrGoto(t, "fits")
          /\ loc' = [loc EXCEPT ![t] = [NoLoc EXCEPT !.rec = taken + 1]]
  /\ UNCHANGED <<shared, stopped, chunks, flushLock, calls, lostHead, torn, saved, due, out>>

HeadChunk(t) == Len(chunks[t])

Fits(t) == chunks[t][HeadChunk(t)].pos + EstSize < ChunkSize

(* handle_overflow: a new chunk in front of the others, no more recording, *)
(* or a flush by this thread, which comes back to save the record.         *)
CheckFit(t) ==
  /\ where[t] = "fits"
  /\ \/ Fits(t) /\ TrGoto(t, "save") /\ UNCHANGED <<chunks, stopped, loc>>
     \/ /\ ~Fits(t) /\ policy = "grow"
        /\ chunks' = [chunks EXCEPT ![t] = Append(@, NewChunk)]
        /\ TrGoto(t, "save") /\ UNCHANGED <<stopped, loc>>
     \/ /\ ~Fits(t) /\ policy = "stop"
        /\ stopped' = stopped \cup {t}
        /\ TrGoto(t, "idle") /\ loc' = [loc EXCEPT ![t] = NoLoc] /\ UNCHANGED chunks
     \/ /\ ~Fits(t) /\ policy = "flush"
        /\ TrGoto(t, "flush") /\ loc' = [loc EXCEPT ![t].back = "save"]
        /\ UNCHANGED <<chunks, stopped>>
  /\ UNCHANGED <<shared, flushLock, taken, calls, lostHead, torn, saved, due, out>>

(* A defect: the count goes up before the data is there.                   *)
SaveCountOnly(t) ==
  LET c == HeadChunk(t)
  IN  /\ TrMove(t, "save", "count")
      /\ chunks' = [chunks EXCEPT ![t][c].nrec = @ + 1]
      /\ UNCHANGED <<shared, stopped, flushLock, loc, taken, calls, lostHead, torn, saved, due, out>>

(* save_snapshot: the data and the position ...                            *)
SaveData(t) ==
  LET c == HeadChunk(t)  k == chunks[t][c]
  IN  /\ TrMove(t, "save", "count")
      /\ chunks' = [chunks EXCEPT ![t][c] =
                       [k EXCEPT !.recs = Append(k.recs, loc[t].rec), !.pos = k.pos + RecSize]]
      /\ UNCHANGED <<shared, stopped, flushLock, loc, taken, calls, lostHead, torn, saved, due, out>>

(* ... and then the number of records.                                     *)
SaveCount(t) ==
  LET c == HeadChunk(t)
  IN  /\ TrMove(t, "count", "idle")
      /\ chunks' = [chunks EXCEPT ![t][c].nrec = @ + 1]
      /\ saved' = saved \cup {loc[t].rec}
      /\ loc' = [loc EXCEPT ![t] = NoLoc]
      /\ UNCHANGED <<shared, stopped, flushLock, taken, calls, lostHead, torn, due, out>>

-----------------------------------------------------------------------------
CallFlush(t) ==
  /\ calls < MaxCalls /\ calls' = calls + 1
  /\ TrMove(t, "idle", "flush")
  /\ UNCHANGED <<shared, stopped, chunks, flushLock, loc, taken, lostHead, torn, saved, due, out>>

(* flush_cb: the lock, and the head of the list.                           *)
FlushStart(t) ==
  /\ where[t] = "flush" /\ flushLock = NoBuf
  /\ flushLock' = t
  /\ loc' = [loc EXCEPT ![t].buf = listHead]
  /\ due' = saved /\ UNCHANGED out
  /\ TrGoto(t, "fl_buffer")
  /\ UNCHANGED <<shared, stopped, chunks, taken, calls, lostHead, torn, saved>>

(* A defect: the lock is kept when the list is empty.                      *)
FlushBufferKeepsLock(t) ==
  LET b == loc[t].buf
  IN  /\ where[t] = "fl_buffer"
      /\ IF b = NoBuf
         THEN /\ TrGoto(t, loc[t].back)
              /\ loc' = [loc EXCEPT ![t] = IF @.back = "idle" THEN NoLoc ELSE @]
              /\ due' = {} /\ out' = <<>>
              /\ UNCHANGED stopped
         ELSE /\ stopped' = stopped \cup {b}
              /\ loc' = [loc EXCEPT ![t].chunk = HeadChunk(b), ![t].r = 1]
              /\ TrGoto(t, "fl_record")
              /\ UNCHANGED <<due, out>>
      /\ UNCHANGED <<shared, flushLock, chunks, taken, calls, lostHead, torn, saved>>

(* The next buffer is stopped and its chunk pointer read; at the end of    *)
(* the list the lock is released.                                          *)
FlushBuffer(t) ==
  LET b == loc[t].buf
  IN  /\ where[t] = "fl_buffer"
      /\ IF b = NoBuf
         THEN /\ flushLock' = NoBuf
              /\ TrGoto(t, loc[t].back)
              /\ loc' = [loc EXCEPT ![t] = IF @.back = "idle" THEN NoLoc ELSE @]
              /\ due' = {} /\ out' = <<>>
              /\ UNCHANGED stopped
         ELSE /\ stopped' = stopped \cup {b}
              /\ loc' = [loc EXCEPT ![t].chunk = HeadChunk(b), ![t].r = 1]
              /\ TrGoto(t, "fl_record")
              /\ UNCHANGED <<flushLock, due, out>>
      /\ UNCHANGED <<shared, chunks, taken, calls, lostHead, torn, saved>>

(* TraceBufferChunk::flush: record by record, then the next chunk, then    *)
(* the buffer may record again.                                            *)
FlushRecord(t) ==
  LET b == loc[t].buf  c == loc[t].chunk  r == loc[t].r
  IN  /\ where[t] = "fl_record"
      /\ \/ /\ r <= chunks[b][c].nrec
            /\ out' = Append(out, IF r <= Len(chunks[b][c].recs) THEN chunks[b][c].recs[r] ELSE 0)
            /\ loc' = [loc EXCEPT ![t].r = r + 1]
            /\ UNCHANGED <<where, stopped>>
         \/ /\ r > chunks[b][c].nrec /\ c > 1
            /\ loc' = [loc EXCEPT ![t].chunk = c - 1, ![t].r = 1]
            /\ UNCHANGED <<where, stopped, out>>
         \/ /\ r > chunks[b][c].nrec /\ c = 1
            /\ stopped' = stopped \ {b}
            /\ loc' = [loc EXCEPT ![t].buf = tNext[b]]
            /\ TrGoto(t, "fl_buffer")
            /\ UNCHANGED out
      /\ UNCHANGED <<shared, chunks, flushLock, taken, calls, lostHead, torn, saved, due>>

-----------------------------------------------------------------------------
CallClear(t) ==
  /\ calls < MaxCalls /\ calls' = calls + 1
  /\ TrMove(t, "idle", "clear")
  /\ UNCHANGED <<shared, stopped, chunks, flushLock, loc, taken, lostHead, torn, saved, due, out>>

ClearStart(t) ==
  /\ where[t] = "clear" /\ flushLock = NoBuf
  /\ flushLock' = t
  /\ loc' = [loc EXCEPT ![t].buf = listHead]
  /\ TrGoto(t, "cl_buffer")
  /\ UNCHANGED <<shared, stopped, chunks, taken, calls, lostHead, torn, saved, due, out>>

Contents(b) == UNION {Range(chunks[b][i].recs) : i \in DOMAIN chunks[b]}

(* reset() between setting and clearing the flag: the head chunk is kept,  *)
(* empty, and the older ones are deleted.                                  *)
ClearReset(t) ==
  LET b == loc[t].buf
  IN  /\ where[t] = "cl_buffer"
      /\ IF b = NoBuf
         THEN /\ flushLock' = NoBuf
              /\ TrGoto(t, "idle") /\ loc' = [loc EXCEPT ![t] = NoLoc]
              /\ UNCHANGED <<chunks, stopped, torn, saved>>
         ELSE /\ chunks' = [chunks EXCEPT ![b] = <<NewChunk>>]
              /\ torn' = (torn \/ where[b] = "count")
              /\ saved' = saved \ Contents(b)
              /\ stopped' = stopped \ {b}
              /\ TrGoto(t, "cl_unlink")
              /\ UNCHANGED <<flushLock, loc>>
      /\ UNCHANGED <<shared, taken, calls, lostHead, due, out>>

(* A retired buffer is unlinked from its neighbours and deleted.  The head *)
(* of the list is not changed.                                             *)
ClearUnlink(t) ==
  LET b == loc[t].buf  n == tNext[b]  p == tPrev[b]
  IN  /\ TrMove(t, "cl_unlink", "cl_buffer")
      /\ IF b \in retired
         THEN /\ tPrev' = IF n = NoBuf THEN tPrev ELSE [tPrev EXCEPT ![n] = p]
              /\ tNext' = IF p = NoBuf THEN tNext ELSE [tNext EXCEPT ![p] = n]
              /\ freed' = freed \cup {b}
              /\ lostHead' = (lostHead \/ b = listHead)
              /\ saved' = saved \ Contents(b)
         ELSE UNCHANGED <<tPrev, tNext, freed, lostHead, saved>>
      /\ loc' = [loc EXCEPT ![t].buf = n]
      /\ UNCHANGED <<policy, registered, retired, stopped, listHead, chunks, flushLock, taken, calls,
                     torn, due, out>>

-----------------------------------------------------------------------------
TrStep(t) ==
  \/ CheckFit(t) \/ SaveData(t) \/ SaveCount(t)
  \/ FlushStart(t) \/ FlushBuffer(t) \/ FlushRecord(t)
  \/ ClearStart(t) \/ ClearReset(t) \/ ClearUnlink(t)

TrProgram(t) ==
  Register(t) \/ Retire(t) \/ TakeSnapshot(t) \/ CallFlush(t) \/ CallClear(t)

TrNext == (\E t \in Tracers : TrStep(t) \/ TrProgram(t))

TrFair == \A t \in Tracers : WF_trVars(TrStep(t))

TrSpec == TrInit /\ [][TrNext]_trVars /\ TrFair
-----------------------------------------------------------------------------
InChunk == \A t \in Tracers : \A i \in DOMAIN chunks[t] : chunks[t][i].pos <= ChunkSize

(* No chunk is written past its end when a full buffer grows or stops: the *)
(* worst-case estimate of fits() is taken for the chunk that the record    *)
(* goes into (Trace.cpp:205).                                              *)
WithinChunk == policy # "flush" => InChunk

(* A flush hands out every record that was in the buffers when it started, *)
(* once, and nothing else than saved records, although threads go on       *)
(* recording, grow their buffers, join the list and end ("This will        *)
(* forward all buffered snapshot records to output services",              *)
(* Caliper.cpp:867), and clear buffers, unless a clear empties a buffer    *)
(* between the data and the count of a record (Trace.cpp:280-282).         *)
FlushDelivers ==
  ~torn => \A t \in Tracers : where[t] = "fl_buffer" /\ loc[t].buf = NoBuf =>
    /\ due \subseteq Range(out)
    /\ Range(out) \subseteq 1..taken
    /\ IsInjective(out)

(* The buffers that the list leads to: the least set with the head in it   *)
(* that m_next does not lead out of.                                       *)
BufClosed(S) ==
  /\ listHead # NoBuf => listHead \in S
  /\ \A b \in S : tNext[b] # NoBuf => tNext[b] \in S

Reachable == {b \in Tracers : \A S \in SUBSET Tracers : BufClosed(S) => b \in S}

(* The list holds the buffer of every thread that has not been deleted and *)
(* no deleted one, unless the deleted buffer was at its head               *)
(* (Trace.cpp:286-296): then the head is left dangling.                    *)
OnlyLiveBuffers ==
  ~lostHead => Reachable = registered \ freed

(* Every flush and clear comes to its end: nobody waits for ever for       *)
(* global_flush_lock.                                                      *)
TraceCallsReturn == \A t \in Tracers : where[t] \in {"flush", "clear"} ~> where[t] = "idle"

(* The trace keeps what it took: records stay within their chunks, the list  *)
(* leads to the live buffers, and a flush hands out each record once         *)
(* (Trace.cpp process_snapshot_cb, flush_cb, clear_cb).                      *)
TraceSound == WithinChunk /\ FlushDelivers /\ OnlyLiveBuffers
=============================================================================
