---- MODULE Stores ----
(* The SQLite connections of one process on one file: the index store (run state, trace,       *)
(* artifacts), the memory store, and the recorder in front of the index store. Pool threads    *)
(* execute nodes, among them memory.ingest_files and memory.query. storage/sqlite_store.py,    *)
(* memory/sqlite_memory_store.py, trace/recorder.py, tools/memory_tools.py.                    *)
EXTENDS Integers, Sequences, SequencesExt

CONSTANTS
    Thread,         \* threads of the pool, each executing nodes one after the other
    Script,         \* possible assignments of a sequence of calls to each thread
    Length,         \* path -> characters of the file, 0 when missing, too large or empty
    ChunkMax,       \* chunk_max_chars
    ChunkOverlap,   \* chunk_overlap_chars
    NoOne           \* model value: no thread, no connection

\* With an overlap as large as the chunk _chunk_text would never end.
ASSUME ChunksAdvance == ChunkMax \in Nat /\ ChunkOverlap \in Nat /\ ChunkOverlap < ChunkMax

VARIABLES todo, at, held, recording, events, rows, owner, txn, snapshot, ignored, lost

storeVars == <<todo, at, held, recording, events, rows, owner, txn, snapshot, ignored, lost>>

Connection == {"index", "memory"}

ASSUME NoOneAssumption == NoOne \notin Thread \union Connection

-----------------------------------------------------------------------------
(* What a node calls. A row is [table, key]; "trace_events" has no key that could collide.     *)

Row(table, key) == [table |-> table, key |-> key]
Event(key) == [conn |-> "index", writes |-> {Row("trace_events", key)}]
RunFailed == [conn |-> "index", writes |-> {Row("runs", "FAILED")}]
Search == [conn |-> "memory", writes |-> {}]

SourceDocument(id, file) == [conn |-> "index", writes |-> {Row("artifacts", <<id, file>>)}]

\* _chunk_text as the starts of the spans, from start on.
SpanStarts(length) ==
    LET from[start \in 0..length] ==
            IF start >= length THEN <<>>
            ELSE IF start + ChunkMax >= length THEN <<start>>
                 ELSE <<start>> \o from[start + ChunkMax - ChunkOverlap]
    IN  from[0]

Chunk(id, file, start) ==
    [conn |-> "memory", writes |-> {Row("memory_chunks", <<id, file, start>>)}]

\* memory.ingest_files, its paths sorted: ids come from path, content and the time of the call, so
\* a path given twice to one call repeats them, and another call has its own. The node that calls
\* stands for that time.
Ingest(id, paths) ==
    FlattenSeq([i \in DOMAIN paths |->
        LET starts == SpanStarts(Length[paths[i]])
        IN  IF Length[paths[i]] = 0 THEN <<>>
            ELSE <<SourceDocument(id, paths[i])>>
                 \o [j \in DOMAIN starts |-> Chunk(id, paths[i], starts[j])]])

\* memory.query: the search and the count of all chunks.
Query == <<Search, Search>>

Node(id, calls) == <<Event(<<id, "start">>)>> \o calls \o <<Event(<<id, "end">>)>>

IsWrite(call) == call.writes # {}
Writes(call, table) == \E r \in call.writes : r.table = table
CallsOf(script) == UNION {ToSet(script[t]) : t \in Thread}

\* A call writes one row at most; an event is recorded once; a node has an end event, so that one
\* comes after each chunk.
ASSUME ScriptAssumption ==
    \A script \in Script :
        /\ script \in [Thread -> Seq(CallsOf(script))]
        /\ \A call \in CallsOf(script) :
              call.conn \in Connection /\ \A r \in call.writes : call.writes = {r}
        /\ \A t, u \in Thread : \A i \in DOMAIN script[t], j \in DOMAIN script[u] :
              Writes(script[t][i], "trace_events") /\ script[t][i].writes = script[u][j].writes =>
                  t = u /\ i = j
        /\ \A t \in Thread : \A i \in DOMAIN script[t] :
              Writes(script[t][i], "memory_chunks") =>
                  \E j \in DOMAIN script[t] : i < j /\ Writes(script[t][j], "trace_events")

-----------------------------------------------------------------------------
StoreInit ==
    /\ todo \in Script
    /\ at = [t \in Thread |-> "call"]
    /\ held = [c \in Connection |-> NoOne]          \* _lock of the store
    /\ recording = NoOne                            \* _lock of the recorder
    /\ events = <<>>                                \* _events of the recorder
    /\ rows = <<>>                                  \* committed, in order
    /\ owner = NoOne                                \* connection that holds the write lock
    /\ txn = [c \in Connection |-> "none"]          \* none, begun, reading, writing
    /\ snapshot = [c \in Connection |-> 0]          \* Len(rows) a reading transaction sees
    /\ ignored = FALSE                              \* a duplicate row was ignored
    /\ lost = {}                                    \* rows whose write failed

Call(t) == Head(todo[t])

RecordUnlocked(t) ==
    /\ at[t] = "call" /\ todo[t] # <<>> /\ Writes(Call(t), "trace_events")
    /\ recording' = t
    /\ events' = events \o SetToSeq(Call(t).writes)
    /\ at' = [at EXCEPT ![t] = "record"]
    /\ UNCHANGED <<todo, held, rows, owner, txn, snapshot, ignored, lost>>

\* TraceRecorder.record: the event joins the log in memory first.
Record(t) ==
    /\ at[t] = "call" /\ todo[t] # <<>> /\ Writes(Call(t), "trace_events")
    /\ recording = NoOne
    /\ recording' = t
    /\ events' = events \o SetToSeq(Call(t).writes)
    /\ at' = [at EXCEPT ![t] = "record"]
    /\ UNCHANGED <<todo, held, rows, owner, txn, snapshot, ignored, lost>>

\* with self._lock
Lock(t) ==
    /\ todo[t] # <<>>
    /\ at[t] = IF Writes(Call(t), "trace_events") THEN "record" ELSE "call"
    /\ held[Call(t).conn] = NoOne
    /\ held' = [held EXCEPT ![Call(t).conn] = t]
    /\ at' = [at EXCEPT ![t] = "locked"]
    /\ UNCHANGED <<todo, recording, events, rows, owner, txn, snapshot, ignored, lost>>

ReleaseConnection(t) ==
    /\ held' = [held EXCEPT ![Call(t).conn] = NoOne]
    /\ UNCHANGED recording
    /\ at' = [at EXCEPT ![t] = "call"]

\* Leaving the two with blocks.
Release(t) ==
    /\ held' = [held EXCEPT ![Call(t).conn] = NoOne]
    /\ recording' = IF recording = t THEN NoOne ELSE recording
    /\ at' = [at EXCEPT ![t] = "call"]

Done(t) == Release(t) /\ todo' = [todo EXCEPT ![t] = Tail(@)]

\* A read of a connection with a transaction begun fixes what that connection sees from then on.
Fetch(t) ==
    /\ at[t] = "locked" /\ ~IsWrite(Call(t))
    /\ LET c == Call(t).conn
           fixes == txn[c] = "begun"
       IN  /\ txn' = IF fixes THEN [txn EXCEPT ![c] = "reading"] ELSE txn
           /\ snapshot' = IF fixes THEN [snapshot EXCEPT ![c] = Len(rows)] ELSE snapshot
    /\ Done(t)
    /\ UNCHANGED <<events, rows, owner, ignored, lost>>

\* An identifier is there already: artifacts and memory_chunks have primary keys.
Duplicate(call) ==
    \E r \in call.writes : r.table \in {"artifacts", "memory_chunks"} /\ r \in ToSet(rows)

\* The snapshot of a reading transaction is behind: SQLite never lets it write.
Outdated(c) == txn[c] = "reading" /\ snapshot[c] # Len(rows)
Free(c) == owner \in {NoOne, c}

\* The statement takes the write lock and either inserts or finds the row there. The exception
\* of the second case is swallowed, and nothing ends the transaction Python began.
Execute(t) ==
    /\ at[t] = "locked" /\ IsWrite(Call(t))
    /\ LET c == Call(t).conn
       IN  /\ Free(c) /\ ~Outdated(c)
           /\ owner' = c
           /\ txn' = [txn EXCEPT ![c] = "writing"]
    /\ IF Duplicate(Call(t))
       THEN ignored' = TRUE /\ Done(t)
       ELSE at' = [at EXCEPT ![t] = "inserted"] /\ UNCHANGED <<ignored, todo, held, recording>>
    /\ UNCHANGED <<events, rows, snapshot, lost>>

Commit(t) ==
    /\ at[t] = "inserted"
    /\ rows' = rows \o SetToSeq(Call(t).writes)
    /\ owner' = NoOne
    /\ txn' = [txn EXCEPT ![Call(t).conn] = "none"]
    /\ Done(t)
    /\ UNCHANGED <<events, snapshot, ignored, lost>>

\* What the callers make of "database is locked": ingest goes on without the artifact, a failed
\* chunk fails the node, a failed event the run, whose failure is stored last.
AfterFailure(t) ==
    IF Writes(Call(t), "artifacts") THEN Tail(todo[t])
    ELSE IF Writes(Call(t), "memory_chunks")
         THEN SubSeq(todo[t], SelectInSeq(todo[t], LAMBDA c : Writes(c, "trace_events")), Len(todo[t]))
    ELSE IF Writes(Call(t), "trace_events") THEN <<RunFailed>>
    ELSE <<>>

Fail(t) ==
    /\ Release(t)
    /\ todo' = [todo EXCEPT ![t] = AfterFailure(t)]
    /\ lost' = lost \union Call(t).writes
    /\ UNCHANGED <<events, rows, owner, snapshot, ignored>>

\* Nobody is between statement and commit: what takes five seconds is a lock left behind.
LeftBehind == \A s \in Thread : at[s] # "inserted"

\* SQLITE_BUSY after the five seconds sqlite3.connect allows; the transaction stays begun.
TimeOut(t) ==
    /\ at[t] = "locked" /\ IsWrite(Call(t))
    /\ txn[Call(t).conn] \in {"none", "begun"} /\ ~Free(Call(t).conn) /\ LeftBehind
    /\ txn' = [txn EXCEPT ![Call(t).conn] = "begun"]
    /\ Fail(t)

\* A reading transaction is refused at once.
Refuse(t) ==
    /\ at[t] = "locked" /\ IsWrite(Call(t))
    /\ txn[Call(t).conn] = "reading" /\ (~Free(Call(t).conn) \/ Outdated(Call(t).conn))
    /\ UNCHANGED txn
    /\ Fail(t)

ThreadStep(t) ==
    \/ Record(t) \/ Lock(t) \/ Fetch(t) \/ Execute(t) \/ Commit(t) \/ TimeOut(t) \/ Refuse(t)

StoreNext == \E t \in Thread : ThreadStep(t)
StoreSpec == StoreInit /\ [][StoreNext]_storeVars /\ \A t \in Thread : WF_storeVars(ThreadStep(t))

-----------------------------------------------------------------------------
StoreTypeOK ==
    /\ at \in [Thread -> {"call", "record", "locked", "inserted"}]
    /\ held \in [Connection -> Thread \union {NoOne}]
    /\ recording \in Thread \union {NoOne}
    /\ owner \in Connection \union {NoOne}
    /\ txn \in [Connection -> {"none", "begun", "reading", "writing"}]
    /\ snapshot \in [Connection -> 0..Len(rows)]
    /\ ignored \in BOOLEAN

StoredEvents == {i \in DOMAIN rows : rows[i].table = "trace_events"}
BeingRecorded == IF recording = NoOne THEN {} ELSE Call(recording).writes

\* The trace in the store is the recorder's log, in its order and without duplicates, less the
\* event being written and those whose write failed. No write fails, no event is missing and no
\* lock outlives its call before a duplicate row has been ignored (record, _execute_commit,
\* upsert_chunk).
TraceKept ==
    /\ \A i \in StoredEvents : \E k \in DOMAIN events : events[k] = rows[i]
    /\ \A i, j \in StoredEvents : \A k, l \in DOMAIN events :
          events[k] = rows[i] /\ events[l] = rows[j] /\ i < j => k < l
    /\ ToSet(events) \subseteq ToSet(rows) \union lost \union BeingRecorded
    /\ ~ignored =>
          /\ lost = {}
          /\ owner # NoOne => \E t \in Thread : at[t] = "inserted" /\ Call(t).conn = owner
          /\ \A c \in Connection : txn[c] = "none" \/ c = owner

\* Every call returns, with both locks released: the recorder's lock, the connection's and
\* SQLite's are never waited for in a circle, and the last wait is bounded.
CallsReturn ==
    <>(/\ \A t \in Thread : todo[t] = <<>> /\ at[t] = "call"
       /\ recording = NoOne
       /\ \A c \in Connection : held[c] = NoOne)
====
