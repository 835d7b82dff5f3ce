---- MODULE IngestPipeline ----
(***************************************************************************)
(* The ingest process (ingest.py): what one websocket message goes through *)
(* on the callback's thread, and the shutdown the signal handler runs on   *)
(* the main thread meanwhile.  The two meet at the lock of the batch       *)
(* buffer.  A second signal interrupts the handler of the first, on the    *)
(* same thread, so that the main thread is a stack of shutdowns of which   *)
(* only the last one runs.  Messages are numbered as they arrive, and the  *)
(* write-ahead log is what AppendLog promises of it.                       *)
(***************************************************************************)
EXTENDS Integers, Sequences, FiniteSets, SequencesExt

CONSTANTS
    Keys,        \* what dedup looks at: a symbol and an exchange time
    CacheSize,   \* dedup_cache_size
    BatchSize,   \* BatchBuffer.max_items
    MaxMessages, MaxSignals, MaxKills, MaxLives, MaxFaults   \* bounds on the counters

ASSUME PipelineAssumption ==
    /\ CacheSize \in Nat \ {0} /\ BatchSize \in Nat \ {0}
    /\ MaxMessages \in Nat /\ MaxSignals \in Nat /\ MaxKills \in Nat
    /\ MaxLives \in Nat /\ MaxFaults \in Nat

VARIABLES
    up, kills, lives, \* the process runs; how often it was killed; how often it was started
    faults,           \* writes to the log, Redis or Postgres, and closes, that failed
    keyOf,            \* history: the key of every message so far
    wal, walOpen,     \* the records in the log; whether the writer has its file
    cache,            \* Dedup._cache, the least recently used key first
    ws,               \* the callback: where it is, and its message
    closed,           \* the websocket was closed
    frames,           \* the shutdowns on the main thread's stack, the running one last
    buf, bufLock,     \* BatchBuffer._buf and the thread that holds its lock
    items,            \* the rows its holder inserts
    writerLock,       \* the shutdown that holds wal._writer_lock
    redis, published, \* the last tick in Redis; the ticks on the bus
    pg,               \* the rows in Postgres
    dropped,          \* history: the rows of inserts that failed
    looks             \* history: what dedup was asked in this life and said

process == <<up, kills, lives>>
log == <<wal, walOpen>>
callback == <<cache, ws, looks>>
main == <<closed, frames, writerLock>>
batch == <<buf, bufLock, items>>
out == <<redis, published>>
rows == <<pg, dropped>>
vars == <<process, faults, keyOf, log, callback, main, batch, out, rows>>

Messages == 1..MaxMessages

Log == INSTANCE AppendLog WITH Records <- Messages, records <- wal, losses <- 0

NoFrame == 0

Callback == -1   \* the callback's thread, as the holder of a lock

Init ==
    /\ up = TRUE /\ kills = 0 /\ lives = 1 /\ faults = 0
    /\ keyOf = <<>> /\ wal = <<>> /\ walOpen = TRUE
    /\ cache = <<>> /\ ws = [pc |-> "idle", n |-> 0] /\ looks = <<>>
    /\ closed = FALSE /\ frames = <<>> /\ writerLock = NoFrame
    /\ buf = <<>> /\ bufLock = NoFrame /\ items = <<>>
    /\ redis = 0 /\ published = <<>> /\ pg = <<>> /\ dropped = {}

Fault ==
    /\ faults < MaxFaults
    /\ faults' = faults + 1

GotoWs(label) == ws' = [ws EXCEPT !.pc = label]

WsDone == ws' = [pc |-> "idle", n |-> 0]
----
(***************************************************************************)
(* _on_message.  Any exception ends the message: the handler swallows it.  *)
(***************************************************************************)
Receive(k) ==
    /\ up /\ ws.pc = "idle" /\ ~closed /\ Len(keyOf) < MaxMessages
    /\ keyOf' = Append(keyOf, k)
    /\ ws' = [pc |-> "append", n |-> Len(keyOf) + 1]
    /\ UNCHANGED <<process, faults, log, cache, looks, main, batch, out, rows>>

\* Mutant of AppendRaw: a message the log refuses is processed all the same.
AppendRawOrNot ==
    /\ up /\ ws.pc = "append"
    /\ IF walOpen THEN Log!Give(ws.n) ELSE UNCHANGED wal
    /\ GotoWs("look")
    /\ UNCHANGED <<process, faults, keyOf, walOpen, cache, looks, main, batch, out, rows>>

\* The log first: a closed or failing one raises.
AppendRaw ==
    /\ up /\ ws.pc = "append"
    /\ \/ walOpen /\ Log!Give(ws.n) /\ GotoWs("look") /\ UNCHANGED faults
       \/ walOpen /\ Fault /\ WsDone /\ UNCHANGED wal
       \/ ~walOpen /\ WsDone /\ UNCHANGED <<wal, faults>>
    /\ UNCHANGED <<process, keyOf, walOpen, cache, looks, main, batch, out, rows>>

\* A frame that only carries open interest, or one that does not normalize to a tick.
DiscardMessage ==
    /\ up /\ ws.pc = "look"
    /\ WsDone
    /\ UNCHANGED <<process, faults, keyOf, log, cache, looks, main, batch, out, rows>>

\* OrderedDict.move_to_end.
MoveToEnd(k) ==
    LET place == CHOOSE n \in DOMAIN cache : cache[n] = k
    IN  Append(RemoveAt(cache, place), k)

\* Mutant of Remember: a full cache gives up the newest key, not the oldest.
RememberOldest(k) ==
    IF k \in ToSet(cache) THEN MoveToEnd(k)
    ELSE IF Len(cache) < CacheSize THEN Append(cache, k)
    ELSE cache

\* Dedup.seen: the key becomes the most recently used, the oldest one goes if there is no room.
Remember(k) ==
    IF k \in ToSet(cache) THEN MoveToEnd(k)
    ELSE IF Len(cache) < CacheSize THEN Append(cache, k)
    ELSE Tail(Append(cache, k))

LookUp ==
    LET k == keyOf[ws.n]
        repeat == k \in ToSet(cache)
    IN  /\ up /\ ws.pc = "look"
        /\ cache' = Remember(k)
        /\ looks' = Append(looks, [key |-> k, repeat |-> repeat])
        /\ IF repeat THEN WsDone ELSE GotoWs("store")
        /\ UNCHANGED <<process, faults, keyOf, log, main, batch, out, rows>>

\* LiveStore.set_index_tick or set_option_tick: a failure ends the message.
StoreTick ==
    /\ up /\ ws.pc = "store"
    /\ \/ redis' = ws.n /\ GotoWs("publish") /\ UNCHANGED faults
       \/ Fault /\ WsDone /\ UNCHANGED redis
    /\ UNCHANGED <<process, keyOf, log, cache, looks, main, batch, published, rows>>

\* EventBus.publish swallows its failure.
PublishTick ==
    /\ up /\ ws.pc = "publish"
    /\ \/ published' = Append(published, ws.n) /\ UNCHANGED faults
       \/ Fault /\ UNCHANGED published
    /\ GotoWs("add")
    /\ UNCHANGED <<process, keyOf, log, cache, looks, main, batch, redis, rows>>

\* _flush_locked up to the insert: the buffer is swapped for an empty one.
TakeRows(holder, taken) ==
    /\ items' = taken /\ buf' = <<>>
    /\ bufLock' = holder

\* BatchBuffer.add: a full buffer is flushed under the lock, and so is one that waited long.
AddTick ==
    /\ up /\ ws.pc = "add" /\ bufLock = NoFrame
    /\ LET grown == Append(buf, ws.n)
       IN  \/ TakeRows(Callback, grown) /\ GotoWs("insert")
           \/ /\ Len(grown) < BatchSize
              /\ buf' = grown /\ UNCHANGED <<bufLock, items>>
              /\ WsDone
    /\ UNCHANGED <<process, faults, keyOf, log, cache, looks, main, out, rows>>

\* Mutant of InsertRows: an insert that fails leaves the lock taken.
InsertRowsLocked ==
    /\ \/ pg' = pg \o items /\ bufLock' = NoFrame /\ UNCHANGED <<dropped, faults>>
       \/ Fault /\ dropped' = dropped \cup ToSet(items) /\ UNCHANGED <<pg, bufLock>>
    /\ items' = <<>>
    /\ UNCHANGED buf

\* The insert into Postgres and the end of the flush: rows that fail are logged and gone.
InsertRows ==
    /\ \/ pg' = pg \o items /\ UNCHANGED <<dropped, faults>>
       \/ Fault /\ dropped' = dropped \cup ToSet(items) /\ UNCHANGED pg
    /\ items' = <<>> /\ bufLock' = NoFrame
    /\ UNCHANGED buf

WsInsert ==
    /\ up /\ ws.pc = "insert"
    /\ InsertRows
    /\ WsDone
    /\ UNCHANGED <<process, keyOf, log, cache, looks, main, out>>
----
(***************************************************************************)
(* shutdown(), as the handler of SIGINT and SIGTERM calls it.  The handler *)
(* runs on the main thread between any two of its steps, those of another  *)
(* shutdown included, and also while that thread waits for a lock.         *)
(***************************************************************************)
Signal ==
    /\ up /\ Len(frames) < MaxSignals
    /\ frames' = Append(frames, "begin")
    /\ UNCHANGED <<process, faults, keyOf, log, callback, closed, writerLock, batch, out, rows>>

Running(label) == up /\ frames # <<>> /\ Last(frames) = label

GotoMain(label) == frames' = [frames EXCEPT ![Len(frames)] = label]

(***************************************************************************)
(* No message begins any more; one that has begun goes on.  A failure of   *)
(* close_connection is swallowed: the socket goes on calling back.         *)
(***************************************************************************)
CloseSocket ==
    /\ Running("begin")
    /\ \/ closed' = TRUE /\ UNCHANGED faults
       \/ Fault /\ UNCHANGED closed
    /\ GotoMain("flush")
    /\ UNCHANGED <<process, keyOf, log, callback, writerLock, batch, out, rows>>

\* Mutant of FlushBuffer: like add, the final flush leaves a buffer that is not full.
FlushBufferIfFull ==
    /\ Running("flush") /\ bufLock = NoFrame
    /\ IF Len(buf) < BatchSize THEN GotoMain("close") /\ UNCHANGED batch
                               ELSE GotoMain("insert") /\ TakeRows(Len(frames), buf)
    /\ UNCHANGED <<process, faults, keyOf, log, callback, closed, writerLock, out, rows>>

FlushBuffer ==
    /\ Running("flush") /\ bufLock = NoFrame
    /\ IF buf = <<>> THEN GotoMain("close") /\ UNCHANGED batch
                     ELSE GotoMain("insert") /\ TakeRows(Len(frames), buf)
    /\ UNCHANGED <<process, faults, keyOf, log, callback, closed, writerLock, out, rows>>

MainInsert ==
    /\ Running("insert")
    /\ InsertRows
    /\ GotoMain("close")
    /\ UNCHANGED <<process, keyOf, log, callback, closed, writerLock, out>>

\* shutdown_writer, under its lock.
LockWriter ==
    /\ Running("close") /\ writerLock = NoFrame
    /\ writerLock' = Len(frames)
    /\ GotoMain("closing")
    /\ UNCHANGED <<process, faults, keyOf, log, callback, closed, batch, out, rows>>

(***************************************************************************)
(* The saving of the counter may raise, and the log stays open, or the     *)
(* fsync, and it is closed; the exception ends the handler.                *)
(***************************************************************************)
CloseWriter ==
    /\ Running("closing")
    /\ \/ walOpen' = FALSE /\ UNCHANGED faults
       \/ Fault /\ walOpen' \in {walOpen, FALSE}
    /\ writerLock' = NoFrame
    /\ GotoMain("done")
    /\ UNCHANGED <<process, keyOf, wal, callback, closed, batch, out, rows>>

\* The handler returns to the shutdown it interrupted, or to the run loop, which ends.
Return ==
    /\ Running("done")
    /\ frames' = Front(frames)
    /\ up' = (Len(frames) > 1)
    /\ UNCHANGED <<kills, lives, faults, keyOf, log, callback, closed, writerLock, batch, out, rows>>
----
Kill ==
    /\ up /\ kills < MaxKills
    /\ kills' = kills + 1
    /\ up' = FALSE
    /\ UNCHANGED <<lives, faults, keyOf, log, callback, main, batch, out, rows>>

\* The next process: all that memory held is gone.
Start ==
    /\ ~up /\ lives < MaxLives
    /\ up' = TRUE /\ lives' = lives + 1
    /\ walOpen' = TRUE
    /\ cache' = <<>> /\ ws' = [pc |-> "idle", n |-> 0] /\ looks' = <<>>
    /\ closed' = FALSE /\ frames' = <<>> /\ writerLock' = NoFrame
    /\ buf' = <<>> /\ bufLock' = NoFrame /\ items' = <<>>
    /\ UNCHANGED <<kills, faults, keyOf, wal, out, rows>>

OnMessage ==
    \/ AppendRaw \/ DiscardMessage \/ LookUp \/ StoreTick \/ PublishTick \/ AddTick \/ WsInsert

Shutdown ==
    \/ CloseSocket \/ FlushBuffer \/ MainInsert \/ LockWriter \/ CloseWriter \/ Return

Next ==
    \/ \E k \in Keys : Receive(k)
    \/ OnMessage \/ Signal \/ Shutdown \/ Kill \/ Start

(***************************************************************************)
(* A message that has begun is processed to its end, and so is a shutdown. *)
(* Neither a message, a signal nor a start is promised.                    *)
(***************************************************************************)
FairSpec == Init /\ [][Next]_vars /\ WF_vars(OnMessage) /\ WF_vars(Shutdown)
----
(***************************************************************************)
(* Properties.                                                             *)
(***************************************************************************)

TypeOK ==
    /\ up \in BOOLEAN /\ kills \in 0..MaxKills /\ lives \in 1..MaxLives /\ faults \in 0..MaxFaults
    /\ keyOf \in Seq(Keys) /\ wal \in Seq(Messages) /\ walOpen \in BOOLEAN
    /\ cache \in Seq(Keys) /\ Len(cache) <= CacheSize /\ IsInjective(cache)
    /\ ws \in [pc : {"idle", "append", "look", "store", "publish", "add", "insert"},
               n : 0..MaxMessages]
    /\ closed \in BOOLEAN /\ frames \in Seq({"begin", "flush", "insert", "close", "closing", "done"})
    /\ writerLock \in 0..MaxSignals /\ bufLock \in Callback..MaxSignals
    /\ buf \in Seq(Messages) /\ Len(buf) < BatchSize /\ items \in Seq(Messages)
    /\ redis \in 0..MaxMessages /\ published \in Seq(Messages)
    /\ pg \in Seq(Messages) /\ dropped \subseteq Messages

Processed == ToSet(published) \cup ToSet(buf) \cup ToSet(items) \cup ToSet(pg)
                 \cup (IF redis = 0 THEN {} ELSE {redis})

(***************************************************************************)
(* "WAL first, always" (README.md:11): whatever left the process or waits  *)
(* in its buffer is in the log, also when the log is closed under a        *)
(* message that has begun.                                                 *)
(***************************************************************************)
WalFirst == Processed \subseteq ToSet(wal)

(***************************************************************************)
(* Dedup drops a tick only if it has let the same tick through before, and *)
(* lets one through again only if at least CacheSize other ticks were seen *)
(* since it last saw it.                                                   *)
(***************************************************************************)
DedupIsExact ==
    \A n \in DOMAIN looks :
        LET earlier == {m \in 1..(n - 1) : looks[m].key = looks[n].key}
            between == {looks[m].key : m \in {m \in 1..(n - 1) : \A e \in earlier : m > e}}
        IN  IF looks[n].repeat THEN \E e \in earlier : ~looks[e].repeat
            ELSE earlier = {} \/ Cardinality(between) >= CacheSize

\* The ticks dedup let through that are not in Postgres and not given up.
Unsaved ==
    Len(buf \o items) + (IF ws.pc \in {"store", "publish", "add"} THEN 1 ELSE 0)

(***************************************************************************)
(* However the process ends, no more than a batch is unsaved; and at the   *)
(* end of a shutdown that closed the socket no more than one tick: the one *)
(* whose callback was under way when the buffer was flushed.               *)
(***************************************************************************)
StopLossIsBounded ==
    ~up => Unsaved <= IF closed /\ frames = <<>> THEN 1 ELSE BatchSize

(***************************************************************************)
(* "SIGINT/SIGTERM flush batch buffers, fsync WAL, close pool + bus"       *)
(* (README.md:287): a shutdown that a signal began comes to its end.       *)
(***************************************************************************)
ShutdownEnds == frames # <<>> ~> ~up
====
