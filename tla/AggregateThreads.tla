------------------------- MODULE AggregateThreads -------------------------
(***************************************************************************)
(* The aggregation databases of several threads                            *)
(* (src/services/aggregate/Aggregate.cpp): each thread has its own, all    *)
(* are linked in s_list, and flush and clear, called from any thread, walk *)
(* the list.  Only the head of the list is read under s_list_lock; a       *)
(* database is stopped while it is flushed or cleared, and one whose       *)
(* thread has ended is unlinked and deleted by clear.                      *)
(***************************************************************************)
EXTENDS Integers, Sequences, FiniteSets

CONSTANTS DbThreads, NoDb, MaxEntries, MaxVisits

ASSUME DbAssumption == NoDb \notin DbThreads

VARIABLES alive,     \* threads with a database that their key refers to
          linked,    \* databases that were put into the list
          dbRetired, dbStopped, dbFreed,
          dbNext, dbPrev, dbList,    \* m_next, m_prev, s_list
          entries,   \* snapshots counted in each database
          inside,    \* threads that passed the stopped() test
          visit,     \* thread -> its flush or clear: [op, db]
          visits,    \* calls of flush and clear so far
          overlap    \* history: two threads were in flush or clear at the same time

atVars == <<alive, linked, dbRetired, dbStopped, dbFreed, dbNext, dbPrev, dbList, entries,
            inside, visit, visits, overlap>>

NoVisit == [op |-> "none", db |-> NoDb]

AtInit ==
  /\ alive = {} /\ linked = {} /\ dbRetired = {} /\ dbStopped = {} /\ dbFreed = {}
  /\ dbNext = [t \in DbThreads |-> NoDb] /\ dbPrev = [t \in DbThreads |-> NoDb] /\ dbList = NoDb
  /\ entries = [t \in DbThreads |-> 0] /\ inside = {}
  /\ visit = [t \in DbThreads |-> NoVisit] /\ visits = 0
  /\ overlap = FALSE

(* acquire: create the database and push it to the front, under the lock. *)
AcquireDb(t) ==
  /\ t \notin alive \cup dbRetired
  /\ alive' = alive \cup {t} /\ linked' = linked \cup {t}
  /\ dbPrev' = IF dbList = NoDb THEN dbPrev ELSE [dbPrev EXCEPT ![dbList] = t]
  /\ dbNext' = [dbNext EXCEPT ![t] = dbList] /\ dbList' = t
  /\ UNCHANGED <<dbRetired, dbStopped, dbFreed, entries, inside, visit, visits, overlap>>

(* process_snapshot_cb: test stopped() ... *)
TestStopped(t) ==
  /\ t \in alive \ inside /\ visit[t] = NoVisit /\ entries[t] < MaxEntries
  /\ t \notin dbStopped               \* otherwise the snapshot is dropped
  /\ inside' = inside \cup {t}
  /\ UNCHANGED <<alive, linked, dbRetired, dbStopped, dbFreed, dbNext, dbPrev, dbList,
                 entries, visit, visits, overlap>>
(* ... then process_snapshot on the thread's own database. *)
CountSnapshot(t) ==
  /\ t \in inside /\ inside' = inside \ {t}
  /\ entries' = [entries EXCEPT ![t] = @ + 1]
  /\ UNCHANGED <<alive, linked, dbRetired, dbStopped, dbFreed, dbNext, dbPrev, dbList,
                 visit, visits, overlap>>

(* retire: the destructor of the thread-specific key. *)
RetireDb(t) ==
  /\ t \in alive \ inside /\ visit[t] = NoVisit
  /\ alive' = alive \ {t} /\ dbRetired' = dbRetired \cup {t}
  /\ UNCHANGED <<linked, dbStopped, dbFreed, dbNext, dbPrev, dbList, entries, inside, visit,
                 visits, overlap>>

(* flush_cb and clear_cb read the head under the lock, and walk on without. *)
StartVisit(t, op) ==
  /\ t \in alive \ inside /\ visit[t] = NoVisit /\ visits < MaxVisits /\ dbList # NoDb
  /\ overlap' = (overlap \/ \E u \in DbThreads : visit[u] # NoVisit)
  /\ visits' = visits + 1
  /\ visit' = [visit EXCEPT ![t] = [op |-> op, db |-> dbList]]
  /\ UNCHANGED <<alive, linked, dbRetired, dbStopped, dbFreed, dbNext, dbPrev, dbList,
                 entries, inside>>

StopDb(t) ==
  /\ visit[t].op \in {"flush", "clear"}
  /\ dbStopped' = dbStopped \cup {visit[t].db}
  /\ visit' = [visit EXCEPT ![t].op = IF @ = "flush" THEN "flushing" ELSE "clearing"]
  /\ UNCHANGED <<alive, linked, dbRetired, dbFreed, dbNext, dbPrev, dbList, entries, inside,
                 visits, overlap>>

MoveOn(t, op) == visit' = [visit EXCEPT ![t] =
  IF dbNext[visit[t].db] = NoDb THEN NoVisit ELSE [op |-> op, db |-> dbNext[visit[t].db]]]

FlushDb(t) ==
  LET d == visit[t].db IN
  /\ visit[t].op = "flushing"
  /\ dbStopped' = dbStopped \ {d}
  /\ MoveOn(t, "flush")
  /\ UNCHANGED <<alive, linked, dbRetired, dbFreed, dbNext, dbPrev, dbList, entries, inside,
                 visits, overlap>>

ClearEntries(t) ==
  LET d == visit[t].db IN
  /\ visit[t].op = "clearing"
  /\ entries' = [entries EXCEPT ![d] = 0] /\ dbStopped' = dbStopped \ {d}
  /\ IF d \in dbRetired THEN visit' = [visit EXCEPT ![t].op = "delete"] ELSE MoveOn(t, "clear")
  /\ UNCHANGED <<alive, linked, dbRetired, dbFreed, dbNext, dbPrev, dbList, inside,
                 visits, overlap>>

(* A defect: the head of the list is not moved.                            *)
UnlinkNotHead(d) ==
  /\ dbPrev' = IF dbNext[d] = NoDb THEN dbPrev ELSE [dbPrev EXCEPT ![dbNext[d]] = dbPrev[d]]
  /\ dbNext' = IF dbPrev[d] = NoDb THEN dbNext ELSE [dbNext EXCEPT ![dbPrev[d]] = dbNext[d]]
  /\ UNCHANGED dbList

(* unlink, update the head, delete. *)
UnlinkDb(d) ==
  /\ dbPrev' = IF dbNext[d] = NoDb THEN dbPrev ELSE [dbPrev EXCEPT ![dbNext[d]] = dbPrev[d]]
  /\ dbNext' = IF dbPrev[d] = NoDb THEN dbNext ELSE [dbNext EXCEPT ![dbPrev[d]] = dbNext[d]]
  /\ dbList' = IF d = dbList THEN dbNext[d] ELSE dbList

DeleteDb(t) ==
  LET d == visit[t].db IN
  /\ visit[t].op = "delete"
  /\ UnlinkDb(d) /\ dbFreed' = dbFreed \cup {d} /\ MoveOn(t, "clear")
  /\ UNCHANGED <<alive, linked, dbRetired, dbStopped, entries, inside,
                 visits, overlap>>

AtNext ==
  \/ \E t \in DbThreads :
       \/ AcquireDb(t) \/ TestStopped(t) \/ CountSnapshot(t) \/ RetireDb(t)
       \/ StartVisit(t, "flush") \/ StartVisit(t, "clear")
       \/ StopDb(t) \/ FlushDb(t) \/ ClearEntries(t) \/ DeleteDb(t)

AtSpec == AtInit /\ [][AtNext]_atVars

---------------------------------------------------------------------------
(* The databases that the list leads to: the least set with the head in it  *)
(* that m_next does not lead out of.                                        *)
DbClosed(S) ==
  /\ dbList # NoDb => dbList \in S
  /\ \A d \in S : dbNext[d] # NoDb => dbNext[d] \in S

ListFrom == {d \in DbThreads : \A S \in SUBSET DbThreads : DbClosed(S) => d \in S}

(* As long as one thread at a time flushes or clears, the list always leads *)
(* to exactly the databases that are not deleted,                           *)
(* whether a retired one is first, last or in the middle, and while threads *)
(* add theirs: flush reaches the data of every thread, and no freed memory. *)
ListIsLive == ~overlap => ListFrom = linked \ dbFreed

(* Nobody counts into a database that is deleted, and a flush or clear      *)
(* never stands on one, as long as they do not overlap.                     *)
DeletedUnused == ~overlap =>
  /\ inside \cap dbFreed = {}
  /\ \A t \in DbThreads : visit[t].db \notin dbFreed

(* The list of the threads' databases and their users agree on which         *)
(* databases exist (Aggregate.cpp acquire, flush_cb, clear_cb, retire).      *)
DatabasesLive == ListIsLive /\ DeletedUnused
=============================================================================
