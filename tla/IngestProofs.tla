---- MODULE IngestProofs ----
(***************************************************************************)
(* Theorems about the ingest process and what it feeds: the pipeline of a  *)
(* message (IngestPipeline), for every set of keys and every size of the   *)
(* cache and the buffer, and the live store with the greeks engine behind  *)
(* it (LiveStore, GreeksEngine), for every set of spots and every trigger. *)
(***************************************************************************)
EXTENDS IngestPipeline, GreeksEngine, SequenceTheorems, FiniteSetTheorems, TLAPS

Stages == {"begin", "flush", "insert", "close", "closing", "done"}

Labels == {"idle", "append", "look", "store", "publish", "add", "insert"}

Logged == ToSet(wal)

(***************************************************************************)
(* A message past the log is in the log, and so is everything that left    *)
(* the process or waits in its buffer.                                     *)
(***************************************************************************)
LoggedOK ==
    /\ wal \in Seq(Nat) /\ keyOf \in Seq(Keys)
    /\ ws \in [pc : Labels, n : Nat]
    /\ ws.pc \in {"look", "store", "publish", "add"} => ws.n \in Logged
    /\ published \in Seq(Logged) /\ pg \in Seq(Logged)
    /\ buf \in Seq(Logged) /\ items \in Seq(Logged)
    /\ redis \in Logged \cup {0}
----
\* Records go by their numbers, so that an insert keeps what is logged logged.
LEMMA SeqGrows ==
    ASSUME NEW A, NEW B, A \subseteq B, NEW s \in Seq(A)
    PROVE  s \in Seq(B)
OBVIOUS

\* The log after an append has one record more.
LEMMA GiveGrows ==
    ASSUME NEW log_ \in Seq(Nat), NEW n \in Nat
    PROVE  /\ Append(log_, n) \in Seq(Nat)
           /\ ToSet(Append(log_, n)) = ToSet(log_) \cup {n}
<1>1. /\ Append(log_, n) \in Seq(Nat)
      /\ Len(Append(log_, n)) = Len(log_) + 1
      /\ \A i \in 1..Len(log_) : Append(log_, n)[i] = log_[i]
      /\ Append(log_, n)[Len(log_) + 1] = n
    BY AppendProperties
<1>2. Len(log_) \in Nat /\ DOMAIN log_ = 1..Len(log_)
    BY LenProperties
<1>3. DOMAIN Append(log_, n) = 1..(Len(log_) + 1)
    BY <1>1, LenProperties
<1>4. QED
    BY <1>1, <1>2, <1>3 DEF ToSet

\* What is in a sequence over a set is in the set.
LEMMA SeqOverSet ==
    ASSUME NEW S, NEW s \in Seq(S)
    PROVE  ToSet(s) \subseteq S
BY LenProperties DEF ToSet

\* A new process has logged nothing and processed nothing.
LEMMA InitLogged == Init => LoggedOK
BY DEF Init, LoggedOK, Labels, Logged, ToSet

\* The callback's steps before the buffer.
LEMMA MessageLogged ==
    LoggedOK /\ (\/ \E k \in Keys : Receive(k)
                 \/ AppendRaw \/ DiscardMessage \/ LookUp \/ StoreTick \/ PublishTick) => LoggedOK'
<1> SUFFICES ASSUME LoggedOK,
                    \/ \E k \in Keys : Receive(k)
                    \/ AppendRaw \/ DiscardMessage \/ LookUp \/ StoreTick \/ PublishTick
             PROVE  LoggedOK'
    OBVIOUS
<1> USE DEF Labels, GotoWs, WsDone
<1>1. CASE \E k \in Keys : Receive(k)
    <2>1. PICK k \in Keys : Receive(k)
        BY <1>1
    <2>2. keyOf' \in Seq(Keys) /\ Len(keyOf) + 1 \in Nat
        BY <2>1, LenProperties, AppendProperties DEF Receive, LoggedOK
    <2>3. QED
        BY <2>1, <2>2 DEF Receive, LoggedOK, Logged, log, batch, out, rows
<1>2. CASE AppendRaw
    <2>1. ws.n \in Nat /\ wal \in Seq(Nat)
        BY DEF LoggedOK
    <2>2. CASE wal' = wal
        BY <1>2, <2>2 DEF AppendRaw, LoggedOK, Logged, Log!Give, batch, out, rows
    <2>3. CASE wal' = Append(wal, ws.n) /\ GotoWs("look")
        <3>1. wal' \in Seq(Nat) /\ Logged' = Logged \cup {ws.n}
            BY <2>1, <2>3, GiveGrows DEF Logged
        <3>2. UNCHANGED <<keyOf, published, pg, buf, items, redis>>
            BY <1>2 DEF AppendRaw, batch, out, rows
        <3>3. /\ published \in Seq(Logged') /\ pg \in Seq(Logged')
              /\ buf \in Seq(Logged') /\ items \in Seq(Logged')
            <4>1. PICK old, new : old = Logged /\ new = Logged'
                OBVIOUS
            <4>2. QED
                BY <3>1, <4>1, SeqGrows DEF LoggedOK
        <3>4. QED
            BY <2>1, <2>3, <3>1, <3>2, <3>3 DEF LoggedOK
    <2>4. QED
        BY <1>2, <2>2, <2>3 DEF AppendRaw, Log!Give
<1>3. CASE DiscardMessage
    BY <1>3 DEF DiscardMessage, LoggedOK, Logged, log, batch, out, rows
<1>4. CASE LookUp
    <2>1. ws' = [pc |-> "idle", n |-> 0] \/ ws' = [ws EXCEPT !.pc = "store"]
        BY <1>4 DEF LookUp
    <2>2. ws.pc = "look" /\ UNCHANGED <<keyOf, log, batch, out, rows>>
        BY <1>4 DEF LookUp
    <2>3. ws' \in [pc : Labels, n : Nat] /\ (ws'.pc # "idle" => ws'.n = ws.n)
        BY <2>1 DEF LoggedOK
    <2>4. QED
        BY <2>2, <2>3 DEF LoggedOK, Logged, log, batch, out, rows
<1>5. CASE StoreTick
    BY <1>5 DEF StoreTick, LoggedOK, Logged, log, batch, rows
<1>6. CASE PublishTick
    <2>1. published' \in Seq(Logged)
        <3>1. ws.n \in Logged /\ published \in Seq(Logged)
            BY <1>6 DEF PublishTick, LoggedOK
        <3>2. QED
            BY <1>6, <3>1, AppendProperties DEF PublishTick
    <2>2. QED
        BY <1>6, <2>1 DEF PublishTick, LoggedOK, Logged, log, batch, rows
<1>7. QED
    BY <1>1, <1>2, <1>3, <1>4, <1>5, <1>6

\* The rows of an insert are logged, whether it fails or not.
LEMMA InsertLogged ==
    ASSUME LoggedOK, InsertRows
    PROVE  pg' \in Seq(Logged) /\ items' \in Seq(Logged) /\ buf' \in Seq(Logged)
<1>1. pg \o items \in Seq(Logged) /\ <<>> \in Seq(Logged)
    BY ConcatProperties DEF LoggedOK
<1>2. QED
    BY <1>1 DEF InsertRows, LoggedOK

\* The buffer and its flushes, on either thread.
LEMMA BatchLogged ==
    LoggedOK /\ (AddTick \/ WsInsert \/ FlushBuffer \/ MainInsert) => LoggedOK'
<1> SUFFICES ASSUME LoggedOK, AddTick \/ WsInsert \/ FlushBuffer \/ MainInsert
             PROVE  LoggedOK'
    OBVIOUS
<1> USE DEF Labels, GotoWs, WsDone
<1>1. CASE AddTick
    <2>1. ws.n \in Logged /\ buf \in Seq(Logged)
        BY <1>1 DEF AddTick, LoggedOK
    <2>2. Append(buf, ws.n) \in Seq(Logged) /\ <<>> \in Seq(Logged)
        BY <2>1, AppendProperties
    <2>3. buf' \in Seq(Logged) /\ items' \in Seq(Logged)
        BY <1>1, <2>2 DEF AddTick, TakeRows, LoggedOK
    <2>4. ws' = [pc |-> "idle", n |-> 0] \/ ws' = [ws EXCEPT !.pc = "insert"]
        BY <1>1 DEF AddTick
    <2>5. UNCHANGED <<keyOf, log, out, rows>>
        BY <1>1 DEF AddTick
    <2>6. ws' \in [pc : Labels, n : Nat] /\ ws'.pc \in {"idle", "insert"}
        BY <2>4 DEF LoggedOK
    <2>7. QED
        BY <2>3, <2>5, <2>6 DEF LoggedOK, Logged, log, out, rows
<1>2. CASE WsInsert
    BY <1>2, InsertLogged DEF WsInsert, LoggedOK, Logged, log, out
<1>3. CASE FlushBuffer
    <2>1. <<>> \in Seq(Logged)
        OBVIOUS
    <2>2. QED
        BY <1>3, <2>1 DEF FlushBuffer, TakeRows, LoggedOK, Logged, log, callback, batch, out, rows
<1>4. CASE MainInsert
    BY <1>4, InsertLogged DEF MainInsert, LoggedOK, Logged, log, callback, out
<1>5. QED
    BY <1>1, <1>2, <1>3, <1>4

\* The other steps move no tick; a new process starts with an empty buffer.
LEMMA OthersLogged ==
    LoggedOK /\ (\/ Signal \/ CloseSocket \/ LockWriter \/ CloseWriter \/ Return \/ Kill \/ Start)
        => LoggedOK'
<1> SUFFICES ASSUME LoggedOK,
                    \/ Signal \/ CloseSocket \/ LockWriter \/ CloseWriter \/ Return \/ Kill \/ Start
             PROVE  LoggedOK'
    OBVIOUS
<1>1. CASE Start
    <2>1. <<>> \in Seq(Logged) /\ ws' \in [pc : Labels, n : Nat] /\ ws'.pc = "idle"
        BY <1>1 DEF Start, Labels
    <2>2. QED
        BY <1>1, <2>1 DEF Start, LoggedOK, Logged, out, rows
<1>2. CASE Signal \/ CloseSocket \/ LockWriter \/ CloseWriter \/ Return \/ Kill
    BY <1>2 DEF Signal, CloseSocket, LockWriter, CloseWriter, Return, Kill, LoggedOK, Logged,
                log, callback, batch, out, rows
<1>3. QED
    BY <1>1, <1>2

LEMMA StepLogged == LoggedOK /\ [Next]_vars => LoggedOK'
<1> SUFFICES ASSUME LoggedOK, [Next]_vars PROVE LoggedOK'
    OBVIOUS
<1>1. CASE UNCHANGED vars
    BY <1>1 DEF vars, log, callback, batch, out, rows, LoggedOK, Logged
<1>2. QED
    BY <1>1, MessageLogged, BatchLogged, OthersLogged DEF Next, OnMessage, Shutdown

(***************************************************************************)
(* "WAL first, always" (README.md:11): whatever left the process, is on    *)
(* its way to Postgres or waits in the buffer is in the log, however the   *)
(* callback and the shutdowns interleave, fail and are killed              *)
(* (ingest.py _on_message appends the raw message before anything else).   *)
(***************************************************************************)
THEOREM LogComesFirst == FairSpec => []WalFirst
<1>1. LoggedOK => WalFirst
    <2> SUFFICES ASSUME LoggedOK PROVE WalFirst
        OBVIOUS
    <2>1. /\ ToSet(published) \subseteq Logged /\ ToSet(pg) \subseteq Logged
          /\ ToSet(buf) \subseteq Logged /\ ToSet(items) \subseteq Logged
        BY SeqOverSet DEF LoggedOK
    <2>2. QED
        BY <2>1 DEF WalFirst, Processed, LoggedOK, Logged
<1>2. QED
    BY <1>1, InitLogged, StepLogged, PTL DEF FairSpec
----
(***************************************************************************)
(* Who holds the lock of the buffer is about to insert, and items are the  *)
(* holder's; the buffer is never full, nor does it grow during an insert.  *)
(***************************************************************************)
LocksOK ==
    /\ frames \in Seq(Stages) /\ bufLock \in Int
    /\ bufLock = NoFrame => items = <<>>
    /\ bufLock = Callback <=> ws.pc = "insert"
    /\ bufLock \notin {NoFrame, Callback} => /\ bufLock \in 1..Len(frames)
                                            /\ frames[bufLock] = "insert"
    /\ \A i \in 1..Len(frames) : frames[i] = "insert" => bufLock = i

SizesOK ==
    /\ Len(buf) < BatchSize /\ Len(buf) + Len(items) <= BatchSize
    /\ ws.pc # "insert" => Len(buf) + Len(items) < BatchSize

Begun == ws.pc \in {"append", "look", "store", "publish", "add"}

\* At most one tick is in the buffer, on its way to it, or in the callback's insert.
Quiet ==
    /\ buf = <<>> \/ (Len(buf) = 1 /\ ~Begun)
    /\ ws.pc = "insert" => Len(items) <= 1 /\ buf = <<>>

\* No message begins once the socket is closed, and a shutdown that is past it flushes.
StopOK == closed => Quiet \/ \E i \in 1..Len(frames) : frames[i] = "flush"

IInv == LoggedOK /\ LocksOK /\ StopOK /\ SizesOK

USE DEF NoFrame, Callback
----
LEMMA InitStops == Init => LocksOK /\ StopOK
BY DEF Init, LocksOK, StopOK

\* The running shutdown goes on to the next stage.
LEMMA StageReplaced ==
    ASSUME frames \in Seq(Stages), NEW from, NEW label \in Stages, Running(from), GotoMain(label)
    PROVE  /\ Len(frames) \in Nat \ {0} /\ frames[Len(frames)] = from
           /\ frames' \in Seq(Stages) /\ Len(frames') = Len(frames)
           /\ \A i \in 1..Len(frames) : frames'[i] = IF i = Len(frames) THEN label ELSE frames[i]
<1>1. Len(frames) \in Nat \ {0} /\ frames[Len(frames)] = from
    BY EmptySeq DEF Running, Last
<1>2. QED
    BY <1>1, ExceptSeq DEF GotoMain

\* What an insert leaves behind.
LEMMA InsertEmpties ==
    ASSUME InsertRows
    PROVE  items' = <<>> /\ bufLock' = NoFrame /\ buf' = buf
BY DEF InsertRows

\* The callback's steps.
LEMMA CallbackStops ==
    IInv /\ ((\E k \in Keys : Receive(k)) \/ OnMessage) => LocksOK' /\ StopOK'
<1> SUFFICES ASSUME IInv, (\E k \in Keys : Receive(k)) \/ OnMessage PROVE LocksOK' /\ StopOK'
    OBVIOUS
<1>0. ws \in [pc : Labels, n : Nat] /\ LocksOK /\ StopOK
    BY DEF IInv, LoggedOK
<1>1. CASE \E k \in Keys : Receive(k)
    <2>1. PICK k \in Keys : Receive(k)
        BY <1>1
    <2>2. /\ ws'.pc = "append" /\ ws.pc = "idle" /\ ~closed
          /\ UNCHANGED <<frames, closed, walOpen, bufLock, items, buf>>
        BY <2>1 DEF Receive, log, main, batch
    <2>3. QED
        BY <1>0, <2>2 DEF LocksOK, StopOK
<1>2. CASE AppendRaw \/ DiscardMessage \/ LookUp \/ StoreTick \/ PublishTick
    <2>1. ws.pc \in {"append", "look", "store", "publish"}
          /\ UNCHANGED <<frames, closed, walOpen, bufLock, items, buf>>
        BY <1>2 DEF AppendRaw, DiscardMessage, LookUp, StoreTick, PublishTick, log, main, batch
    <2>2. ws'.pc \in {"idle", "look", "store", "publish", "add"}
        BY <1>0, <1>2 DEF AppendRaw, DiscardMessage, LookUp, StoreTick, PublishTick, GotoWs, WsDone
    <2>3. LocksOK'
        BY <1>0, <2>1, <2>2 DEF LocksOK
    <2>4. StopOK'
        BY <1>0, <2>1, <2>2 DEF StopOK, Quiet, Begun
    <2>5. QED
        BY <2>3, <2>4
<1>3. CASE AddTick
    <2>1. ws.pc = "add" /\ bufLock = NoFrame /\ UNCHANGED <<frames, closed, walOpen>>
        BY <1>3 DEF AddTick, log, main
    <2>2. buf \in Seq(Logged) /\ ws.n \in Logged
        BY <2>1 DEF IInv, LoggedOK
    <2>3. Len(Append(buf, ws.n)) = Len(buf) + 1 /\ (buf = <<>> => Len(buf) = 0)
        BY <2>2, AppendProperties
    <2>4. CASE TakeRows(Callback, Append(buf, ws.n)) /\ GotoWs("insert")
        <3>1. ws'.pc = "insert"
            BY <1>0, <2>4 DEF GotoWs
        <3>2. LocksOK'
            BY <1>0, <2>1, <2>4, <3>1 DEF LocksOK, TakeRows
        <3>3. StopOK'
            BY <1>0, <2>1, <2>3, <2>4, <3>1 DEF StopOK, Quiet, Begun, TakeRows
        <3>4. QED
            BY <3>2, <3>3
    <2>5. CASE buf' = Append(buf, ws.n) /\ UNCHANGED <<bufLock, items>> /\ WsDone
        <3>1. ws'.pc = "idle"
            BY <2>5 DEF WsDone
        <3>2. LocksOK'
            BY <1>0, <2>1, <2>5, <3>1 DEF LocksOK
        <3>3. StopOK'
            BY <1>0, <2>1, <2>3, <2>5, <3>1 DEF StopOK, Quiet, Begun
        <3>4. QED
            BY <3>2, <3>3
    <2>6. QED
        BY <1>3, <2>4, <2>5 DEF AddTick
<1>4. CASE WsInsert
    <2>1. ws.pc = "insert" /\ ws'.pc = "idle" /\ UNCHANGED <<frames, closed, walOpen>>
        BY <1>4 DEF WsInsert, WsDone, log, main
    <2>2. items' = <<>> /\ bufLock' = NoFrame /\ buf' = buf
        BY <1>4, InsertEmpties DEF WsInsert
    <2>3. LocksOK'
        BY <1>0, <2>1, <2>2 DEF LocksOK
    <2>4. StopOK'
        BY <1>0, <2>1, <2>2 DEF StopOK, Quiet, Begun
    <2>5. QED
        BY <2>3, <2>4
<1>5. QED
    BY <1>1, <1>2, <1>3, <1>4 DEF OnMessage

\* The steps of the running shutdown.
LEMMA ShutdownStops == IInv /\ Shutdown => LocksOK' /\ StopOK'
<1> SUFFICES ASSUME IInv, Shutdown PROVE LocksOK' /\ StopOK'
    OBVIOUS
<1>0. frames \in Seq(Stages) /\ LocksOK /\ StopOK /\ Len(frames) \in Nat
    BY LenProperties DEF IInv, LocksOK
<1>1. CASE CloseSocket
    <2>1. Running("begin") /\ GotoMain("flush") /\ UNCHANGED <<ws, bufLock, items, buf>>
        BY <1>1 DEF CloseSocket, callback, batch
    <2>2. /\ Len(frames) \in Nat \ {0} /\ frames[Len(frames)] = "begin"
          /\ frames' \in Seq(Stages) /\ Len(frames') = Len(frames)
          /\ \A i \in 1..Len(frames) : frames'[i] = IF i = Len(frames) THEN "flush" ELSE frames[i]
        BY <1>0, <2>1, StageReplaced DEF Stages
    <2>3. LocksOK'
        BY <1>0, <2>1, <2>2 DEF LocksOK
    <2>4. Len(frames) \in 1..Len(frames') /\ frames'[Len(frames)] = "flush"
        BY <2>2
    <2>5. QED
        BY <2>3, <2>4 DEF StopOK
<1>2. CASE FlushBuffer
    <2>1. PICK label \in {"close", "insert"} :
            /\ Running("flush") /\ GotoMain(label)
            /\ label = "close" => UNCHANGED <<bufLock, items, buf>> /\ buf = <<>>
            /\ label = "insert" => TakeRows(Len(frames), buf)
        BY <1>2 DEF FlushBuffer, batch
    <2>2. /\ Len(frames) \in Nat \ {0} /\ frames[Len(frames)] = "flush"
          /\ frames' \in Seq(Stages) /\ Len(frames') = Len(frames)
          /\ \A i \in 1..Len(frames) : frames'[i] = IF i = Len(frames) THEN label ELSE frames[i]
        BY <1>0, <2>1, StageReplaced DEF Stages
    <2>3. bufLock = NoFrame /\ buf' = <<>> /\ UNCHANGED <<ws, closed>>
        BY <1>2, <2>1 DEF FlushBuffer, TakeRows, callback
    <2>4. LocksOK'
        BY <1>0, <2>1, <2>2, <2>3 DEF LocksOK, TakeRows
    <2>5. ws.pc # "insert"
        BY <1>0, <2>3 DEF LocksOK
    <2>6. QED
        BY <2>3, <2>4, <2>5 DEF StopOK, Quiet, Begun
<1>3. CASE MainInsert
    <2>1. /\ Running("insert") /\ GotoMain("close") /\ UNCHANGED <<ws, closed>>
          /\ items' = <<>> /\ bufLock' = NoFrame /\ buf' = buf
        BY <1>3, InsertEmpties DEF MainInsert, callback
    <2>2. /\ Len(frames) \in Nat \ {0} /\ frames[Len(frames)] = "insert"
          /\ frames' \in Seq(Stages) /\ Len(frames') = Len(frames)
          /\ \A i \in 1..Len(frames) : frames'[i] = IF i = Len(frames) THEN "close" ELSE frames[i]
        BY <1>0, <2>1, StageReplaced DEF Stages
    <2>3. bufLock = Len(frames) /\ ws.pc # "insert"
        BY <1>0, <2>2 DEF LocksOK
    <2>4. LocksOK'
        BY <1>0, <2>1, <2>2, <2>3 DEF LocksOK
    <2>5. \A i \in 1..Len(frames) : frames[i] = "flush" => frames'[i] = "flush"
        BY <2>2
    <2>6. QED
        BY <1>0, <2>1, <2>2, <2>3, <2>4, <2>5 DEF StopOK, Quiet, Begun
<1>4. CASE LockWriter \/ CloseWriter
    <2>1. PICK from \in {"close", "closing"}, label \in {"closing", "done"} :
            Running(from) /\ GotoMain(label)
        BY <1>4 DEF LockWriter, CloseWriter
    <2>2. UNCHANGED <<ws, closed, bufLock, items, buf>>
        BY <1>4 DEF LockWriter, CloseWriter, callback, batch
    <2>3. /\ Len(frames) \in Nat \ {0} /\ frames[Len(frames)] = from
          /\ frames' \in Seq(Stages) /\ Len(frames') = Len(frames)
          /\ \A i \in 1..Len(frames) : frames'[i] = IF i = Len(frames) THEN label ELSE frames[i]
        BY <1>0, <2>1, StageReplaced DEF Stages
    <2>4. LocksOK'
        BY <1>0, <2>1, <2>2, <2>3 DEF LocksOK
    <2>5. \A i \in 1..Len(frames) : frames[i] = "flush" => frames'[i] = "flush"
        BY <2>1, <2>3
    <2>6. QED
        BY <1>0, <2>2, <2>3, <2>4, <2>5 DEF StopOK, Quiet, Begun
<1>5. CASE Return
    <2>1. frames # <<>> /\ frames[Len(frames)] = "done"
          /\ UNCHANGED <<ws, walOpen, closed, bufLock, items, buf>>
        BY <1>5 DEF Return, Running, Last, log, callback, batch
    <2>2. Len(frames) \in Nat \ {0}
        BY <1>0, <2>1, EmptySeq
    <2>3. frames' = SubSeq(frames, 1, Len(frames) - 1)
        BY <1>5 DEF Return, Front
    <2>4. /\ frames' \in Seq(Stages) /\ Len(frames') = Len(frames) - 1
          /\ \A i \in 1..(Len(frames) - 1) : frames'[i] = frames[i]
        <3>1. \A i \in 1..(Len(frames) - 1) : frames[i] \in Stages
            BY <1>0, <2>2, ElementOfSeq
        <3>2. PICK n : n = Len(frames) - 1
            OBVIOUS
        <3>3. n \in Nat /\ 1 \in Int /\ \A i \in 1..n : frames[i] \in Stages
            BY <2>2, <3>1, <3>2
        <3>4. /\ SubSeq(frames, 1, n) \in Seq(Stages)
              /\ Len(SubSeq(frames, 1, n)) = IF 1 <= n THEN n - 1 + 1 ELSE 0
              /\ \A i \in 1..(n - 1 + 1) : SubSeq(frames, 1, n)[i] = frames[1 + i - 1]
            BY <3>3, SubSeqProperties
        <3>5. \A i \in 1..n : SubSeq(frames, 1, n)[i] = frames[i]
            BY <3>3, <3>4
        <3>6. QED
            BY <2>3, <3>2, <3>3, <3>4, <3>5
    <2>5. \A i \in 1..Len(frames) : frames[i] = "flush" => i \in 1..Len(frames') /\ frames'[i] = "flush"
        <3>1. \A i \in 1..Len(frames) : frames[i] = "flush" => i # Len(frames)
            BY <2>1
        <3>2. QED
            BY <2>2, <2>4, <3>1
    <2>6. LocksOK'
        BY <1>0, <2>1, <2>2, <2>4 DEF LocksOK
    <2>7. QED
        BY <1>0, <2>1, <2>5, <2>6 DEF StopOK, Quiet, Begun
<1>6. QED
    BY <1>1, <1>2, <1>3, <1>4, <1>5 DEF Shutdown

\* A signal, a kill and the next start.
LEMMA ProcessStops == IInv /\ (Signal \/ Kill \/ Start) => LocksOK' /\ StopOK'
<1> SUFFICES ASSUME IInv, Signal \/ Kill \/ Start PROVE LocksOK' /\ StopOK'
    OBVIOUS
<1>1. CASE Signal
    <2>0. frames \in Seq(Stages) /\ LocksOK /\ StopOK /\ Len(frames) \in Nat
        BY LenProperties DEF IInv, LocksOK
    <2>1. frames' = Append(frames, "begin") /\ UNCHANGED <<ws, walOpen, closed, bufLock, items, buf>>
        BY <1>1 DEF Signal, log, callback, batch
    <2>2. /\ frames' \in Seq(Stages) /\ Len(frames') = Len(frames) + 1
          /\ \A i \in 1..Len(frames) : frames'[i] = frames[i]
          /\ frames'[Len(frames) + 1] = "begin"
        BY <2>0, <2>1, AppendProperties DEF Stages
    <2>3. \A i \in 1..Len(frames') : i \in 1..Len(frames) \/ i = Len(frames) + 1
        BY <2>0, <2>2
    <2>4. LocksOK'
        BY <2>0, <2>1, <2>2, <2>3 DEF LocksOK
    <2>5. StopOK'
        <3>1. \A i \in 1..Len(frames) : i \in 1..Len(frames') /\ frames'[i] = frames[i]
            BY <2>0, <2>2
        <3>2. QED
            BY <2>0, <2>1, <3>1 DEF StopOK, Quiet, Begun
    <2>6. QED
        BY <2>4, <2>5
<1>2. CASE Kill
    BY <1>2 DEF Kill, IInv, LocksOK, StopOK, Quiet, Begun, log, callback, main, batch
<1>3. CASE Start
    BY <1>3 DEF Start, LocksOK, StopOK
<1>4. QED
    BY <1>1, <1>2, <1>3

\* The sizes of the buffer and of what its lock's holder inserts.
LEMMA StepSizes ==
    ASSUME LoggedOK, LocksOK, SizesOK, [Next]_vars
    PROVE  SizesOK'
<1>1. /\ ws \in [pc : Labels, n : Nat] /\ ws.n \in Nat
      /\ buf \in Seq(Logged) /\ items \in Seq(Logged)
      /\ Len(buf) \in Nat /\ Len(items) \in Nat /\ BatchSize \in Nat \ {0}
    BY LenProperties, PipelineAssumption DEF LoggedOK
<1>2. Len(<<>>) = 0
    BY EmptySeq
<1>3. CASE /\ UNCHANGED <<buf, items>>
           /\ ws' = ws \/ (ws.pc # "insert" /\ ws'.pc # "insert")
    BY <1>3 DEF SizesOK
<1>4. CASE AddTick
    <2>1. ws.pc = "add" /\ bufLock = NoFrame /\ ws.n \in Logged
        BY <1>4 DEF AddTick, LoggedOK
    <2>2. items = <<>> /\ Len(Append(buf, ws.n)) = Len(buf) + 1
        BY <1>1, <2>1, AppendProperties DEF LocksOK
    <2>3. CASE TakeRows(Callback, Append(buf, ws.n)) /\ GotoWs("insert")
        <3>1. ws'.pc = "insert" /\ buf' = <<>> /\ items' = Append(buf, ws.n)
            BY <1>1, <2>3 DEF TakeRows, GotoWs
        <3>2. QED
            BY <1>1, <1>2, <2>2, <3>1 DEF SizesOK
    <2>4. CASE Len(Append(buf, ws.n)) < BatchSize /\ buf' = Append(buf, ws.n) /\ items' = items
        BY <1>1, <1>2, <2>2, <2>4 DEF SizesOK
    <2>5. QED
        BY <1>4, <2>3, <2>4 DEF AddTick
<1>5. CASE WsInsert \/ MainInsert
    <2>1. items' = <<>> /\ buf' = buf
        BY <1>5, InsertEmpties DEF WsInsert, MainInsert
    <2>2. QED
        BY <1>1, <1>2, <2>1 DEF SizesOK
<1>6. CASE FlushBuffer
    <2>1. bufLock = NoFrame /\ ws' = ws
        BY <1>6 DEF FlushBuffer, callback
    <2>2. ws.pc # "insert" /\ items = <<>>
        BY <2>1 DEF LocksOK
    <2>3. UNCHANGED <<buf, items>> \/ (buf' = <<>> /\ items' = buf)
        BY <1>6 DEF FlushBuffer, TakeRows, batch
    <2>4. QED
        BY <1>1, <1>2, <2>1, <2>2, <2>3 DEF SizesOK
<1>7. CASE Start
    <2>1. buf' = <<>> /\ items' = <<>>
        BY <1>7 DEF Start
    <2>2. QED
        BY <1>1, <1>2, <2>1 DEF SizesOK
<1>8. CASE (\E k \in Keys : Receive(k)) \/ AppendRaw \/ DiscardMessage \/ LookUp \/ StoreTick \/ PublishTick
    <2>1. ws.pc \in {"idle", "append", "look", "store", "publish"} /\ UNCHANGED <<buf, items>>
        BY <1>8 DEF Receive, AppendRaw, DiscardMessage, LookUp, StoreTick, PublishTick, batch
    <2>2. ws'.pc \in {"append", "idle", "look", "store", "publish", "add"}
        BY <1>1, <1>8 DEF Receive, AppendRaw, DiscardMessage, LookUp, StoreTick, PublishTick, GotoWs, WsDone
    <2>3. QED
        BY <1>3, <2>1, <2>2
<1>9. CASE Signal \/ CloseSocket \/ LockWriter \/ CloseWriter \/ Return \/ Kill \/ UNCHANGED vars
    BY <1>3, <1>9
    DEF Signal, CloseSocket, LockWriter, CloseWriter, Return, Kill, vars, callback, batch
<1>10. QED
    BY <1>4, <1>5, <1>6, <1>7, <1>8, <1>9 DEF Next, OnMessage, Shutdown

LEMMA StepStops == IInv /\ [Next]_vars => IInv'
<1> SUFFICES ASSUME IInv, [Next]_vars PROVE IInv'
    OBVIOUS
<1>1. LoggedOK' /\ SizesOK'
    BY StepLogged, StepSizes DEF IInv
<1>2. CASE UNCHANGED vars
    BY <1>2, <1>1 DEF vars, log, callback, main, batch, IInv, LocksOK, StopOK, Quiet, Begun
<1>3. QED
    BY <1>1, <1>2, CallbackStops, ShutdownStops, ProcessStops DEF Next, IInv

(***************************************************************************)
(* What the end of the process leaves unsaved (ingest.py:49-105, 431-450): *)
(* never more than a batch, for the add that fills the buffer empties it;  *)
(* and at most one tick after a shutdown that closed its socket, however   *)
(* many signals came and wherever they interrupted the callback and one    *)
(* another: no message begins between that close and the flush.            *)
(***************************************************************************)
THEOREM StopLossesAreBounded == FairSpec => []StopLossIsBounded
<1>1. IInv => StopLossIsBounded
    <2> SUFFICES ASSUME IInv
                 PROVE  Unsaved <= IF closed /\ frames = <<>> THEN 1 ELSE BatchSize
        BY DEF StopLossIsBounded
    <2> DEFINE bearing == IF ws.pc \in {"store", "publish", "add"} THEN 1 ELSE 0
    <2>1. buf \in Seq(Logged) /\ items \in Seq(Logged) /\ BatchSize \in Nat
        BY PipelineAssumption DEF IInv, LoggedOK
    <2>2. /\ Len(buf \o items) = Len(buf) + Len(items)
          /\ Len(buf) \in Nat /\ Len(items) \in Nat
        BY <2>1, ConcatProperties, LenProperties
    <2>3. Len(<<>>) = 0
        BY EmptySeq
    <2>4. Unsaved = Len(buf) + Len(items) + bearing
        BY <2>2 DEF Unsaved
    <2>5. Len(buf) + Len(items) + bearing <= BatchSize
        BY <2>1, <2>2 DEF IInv, SizesOK
    <2>6. ASSUME closed, frames = <<>>
          PROVE  Len(buf) + Len(items) + bearing <= 1
        <3>1. Quiet
            BY <2>3, <2>6 DEF IInv, StopOK
        <3>2. ws.pc = "insert" \/ items = <<>>
            BY <2>3, <2>6 DEF IInv, LocksOK
        <3>3. CASE ws.pc = "insert"
            BY <2>2, <2>3, <3>1, <3>3 DEF Quiet
        <3>4. CASE ws.pc # "insert"
            <4>1. Len(items) = 0
                BY <2>3, <3>2, <3>4
            <4>2. Len(buf) = 0 \/ (Len(buf) = 1 /\ bearing = 0)
                BY <2>3, <3>1 DEF Quiet, Begun
            <4>3. bearing \in {0, 1}
                OBVIOUS
            <4> HIDE DEF bearing
            <4>4. QED
                BY <2>2, <4>1, <4>2, <4>3
        <3>5. QED
            BY <3>3, <3>4
    <2>7. QED
        BY <2>4, <2>5, <2>6
<1>2. Init => IInv
    <2>1. Init => SizesOK
        <3>1. Len(<<>>) = 0
            BY EmptySeq
        <3>2. QED
            BY <3>1, PipelineAssumption DEF Init, SizesOK
    <2>2. QED
        BY <2>1, InitLogged, InitStops DEF IInv
<1>3. QED
    BY <1>1, <1>2, StepStops, PTL DEF FairSpec
----
(***************************************************************************)
(* What dedup remembers of what it was asked.  c is the cache and l the    *)
(* looks of this life.                                                     *)
(***************************************************************************)
Look == [key : Keys, repeat : BOOLEAN]

\* The cache holds its keys in the order of their last looks.
LastLooks(c, l, last) ==
    /\ last \in [1..Len(c) -> 1..Len(l)]
    /\ \A i, j \in 1..Len(c) : i < j => last[i] < last[j]
    /\ \A i \in 1..Len(c) : l[last[i]].key = c[i]
    /\ \A i \in 1..Len(c) : \A m \in 1..Len(l) : l[m].key = c[i] => m <= last[i]

Seen(l) == {l[m].key : m \in 1..Len(l)}

\* The looks after the last look at k, and what they looked at.
LooksAfter(l, k) == {m \in 1..Len(l) : \A e \in 1..Len(l) : l[e].key = k => m > e}

After(l, k) == {l[m].key : m \in LooksAfter(l, k)}

\* The keys that were pushed out of the cache were followed by a cacheful of others.
Evicted(c, l) == \A k \in Seen(l) \ ToSet(c) : Cardinality(After(l, k)) >= CacheSize

Earlier(l, n) == {m \in 1..(n - 1) : l[m].key = l[n].key}

Between(l, n) == {l[m].key : m \in {m \in 1..(n - 1) : \A e \in Earlier(l, n) : m > e}}

LookIsExact(l, n) ==
    IF l[n].repeat THEN \E e \in Earlier(l, n) : ~l[e].repeat
    ELSE Earlier(l, n) = {} \/ Cardinality(Between(l, n)) >= CacheSize

SeenOK(c, l) ==
    /\ c \in Seq(Keys) /\ Len(c) <= CacheSize /\ l \in Seq(Look)
    /\ \E last : LastLooks(c, l, last)
    /\ Evicted(c, l)
    /\ \A n \in 1..Len(l) : LookIsExact(l, n)

(***************************************************************************)
(* What Remember makes of the cache c: k goes to its end, the others stay  *)
(* in their order, and only the oldest of a full cache may go.  from gives *)
(* the place each of the others had.                                       *)
(***************************************************************************)
Reordered(c, k, c2, from) ==
    /\ c2 \in Seq(Keys) /\ Len(c2) \in 1..CacheSize /\ c2[Len(c2)] = k
    /\ from \in [1..(Len(c2) - 1) -> 1..Len(c)]
    /\ \A i, j \in 1..(Len(c2) - 1) : i < j => from[i] < from[j]
    /\ \A j \in 1..(Len(c2) - 1) : c2[j] = c[from[j]] /\ c2[j] # k
    /\ \A i \in 1..Len(c) :
        \/ c[i] = k
        \/ \E j \in 1..(Len(c2) - 1) : from[j] = i
        \/ i = 1 /\ Len(c2) = CacheSize /\ \A j \in 1..(Len(c2) - 1) : from[j] > 1
----
\* A sequence without the element at one place.
LEMMA WithoutAPlace ==
    ASSUME NEW S, NEW s \in Seq(S), NEW p \in 1..Len(s)
    PROVE  /\ RemoveAt(s, p) \in Seq(S) /\ Len(RemoveAt(s, p)) = Len(s) - 1
           /\ \A j \in 1..(Len(s) - 1) : RemoveAt(s, p)[j] = IF j < p THEN s[j] ELSE s[j + 1]
<1> DEFINE front == SubSeq(s, 1, p - 1)
           back == SubSeq(s, p + 1, Len(s))
<1>1. Len(s) \in Nat /\ \A i \in 1..Len(s) : s[i] \in S
    BY LenProperties, ElementOfSeq
<1>2. /\ p - 1 \in Int /\ \A i \in 1..(p - 1) : s[i] \in S
      /\ p + 1 \in Int /\ \A i \in (p + 1)..Len(s) : s[i] \in S
    BY <1>1
<1>3. /\ front \in Seq(S)
      /\ Len(front) = IF 1 <= p - 1 THEN p - 1 - 1 + 1 ELSE 0
      /\ \A i \in 1..(p - 1 - 1 + 1) : front[i] = s[1 + i - 1]
    BY <1>2, SubSeqProperties
<1>4. /\ back \in Seq(S)
      /\ Len(back) = IF p + 1 <= Len(s) THEN Len(s) - (p + 1) + 1 ELSE 0
      /\ \A i \in 1..(Len(s) - (p + 1) + 1) : back[i] = s[p + 1 + i - 1]
    BY <1>1, <1>2, SubSeqProperties
<1> HIDE DEF front, back
<1>5. Len(front) = p - 1 /\ \A i \in 1..(p - 1) : front[i] = s[i]
    BY <1>1, <1>3
<1>6. Len(back) = Len(s) - p /\ \A i \in 1..(Len(s) - p) : back[i] = s[p + i]
    BY <1>1, <1>4
<1>7. /\ front \o back \in Seq(S) /\ Len(front \o back) = Len(front) + Len(back)
      /\ \A i \in 1..(Len(front) + Len(back)) :
            (front \o back)[i] = IF i <= Len(front) THEN front[i] ELSE back[i - Len(front)]
    BY <1>3, <1>4, ConcatProperties
<1>8. RemoveAt(s, p) = front \o back
    BY DEF RemoveAt, front, back
<1>9. ASSUME NEW j \in 1..(Len(s) - 1)
      PROVE  (front \o back)[j] = IF j < p THEN s[j] ELSE s[j + 1]
    <2>1. (front \o back)[j] = IF j <= p - 1 THEN front[j] ELSE back[j - (p - 1)]
        BY <1>1, <1>5, <1>6, <1>7
    <2>2. CASE j < p
        BY <1>1, <1>5, <2>1, <2>2
    <2>3. CASE ~(j < p)
        <3>1. j - (p - 1) \in 1..(Len(s) - p) /\ p + (j - (p - 1)) = j + 1
            BY <1>1, <2>3
        <3>2. back[j - (p - 1)] = s[j + 1]
            BY <1>6, <3>1
        <3>3. QED
            BY <1>1, <2>1, <2>3, <3>2
    <2>4. QED
        BY <2>2, <2>3
<1>10. (front \o back) \in Seq(S) /\ Len(front \o back) = Len(s) - 1
    BY <1>1, <1>5, <1>6, <1>7
<1>11. QED
    BY <1>8, <1>9, <1>10

\* A key of the cache that is seen again moves to the end.
LEMMA MoveMoves ==
    ASSUME cache \in Seq(Keys), Len(cache) <= CacheSize, NEW k \in Keys, k \in ToSet(cache),
           \A i, j \in 1..Len(cache) : cache[i] = cache[j] => i = j
    PROVE  \E from : Reordered(cache, k, MoveToEnd(k), from)
<1> DEFINE place == CHOOSE n \in DOMAIN cache : cache[n] = k
           rest == RemoveAt(cache, place)
           size == Len(cache) - 1
           from == [j \in 1..size |-> IF j < place THEN j ELSE j + 1]
<1>0. CacheSize \in Nat
    BY PipelineAssumption
<1>1. Len(cache) \in Nat /\ DOMAIN cache = 1..Len(cache)
    BY LenProperties
<1>2. \E n \in DOMAIN cache : cache[n] = k
    BY DEF ToSet
<1>3. place \in 1..Len(cache) /\ cache[place] = k
    BY <1>1, <1>2
<1> HIDE DEF place
<1>4. size \in Nat
    BY <1>1, <1>3
<1>5. /\ rest \in Seq(Keys) /\ Len(rest) = size
      /\ \A j \in 1..size : rest[j] = IF j < place THEN cache[j] ELSE cache[j + 1]
    BY <1>3, WithoutAPlace
<1> HIDE DEF rest
<1>7. \A j \in 1..size : from[j] \in 1..Len(cache) /\ from[j] # place
    BY <1>1, <1>3
<1>8. \A j \in 1..size : rest[j] = cache[from[j]]
    BY <1>5
<1> DEFINE c2 == Append(rest, k)
<1>9. c2 = MoveToEnd(k)
    BY DEF MoveToEnd, place, rest
<1>10. c2 \in Seq(Keys) /\ Len(c2) = Len(cache) /\ c2[Len(c2)] = k
    <2>1. c2 \in Seq(Keys) /\ Len(c2) = Len(rest) + 1 /\ c2[Len(rest) + 1] = k
        BY <1>5, AppendProperties
    <2>2. Len(rest) + 1 = Len(cache)
        BY <1>1, <1>5
    <2>3. QED
        BY <2>1, <2>2
<1>11. \A j \in 1..size : c2[j] = rest[j]
    BY <1>4, <1>5, AppendProperties
<1> HIDE DEF c2
<1>12. \A j \in 1..size : c2[j] = cache[from[j]] /\ c2[j] # k
    BY <1>1, <1>3, <1>7, <1>8, <1>11
<1>13. \A i, j \in 1..size : i < j => from[i] < from[j]
    BY <1>1, <1>3
<1>14. \A i \in 1..Len(cache) : cache[i] = k \/ \E j \in 1..size : from[j] = i
    <2>1. SUFFICES ASSUME NEW i \in 1..Len(cache), i # place
                   PROVE  \E j \in 1..size : from[j] = i
        BY <1>3
    <2>2. CASE i < place
        <3>1. i \in 1..size /\ from[i] = i
            BY <1>1, <1>3, <2>2
        <3>2. QED
            BY <3>1
    <2>3. CASE i > place
        <3>1. i - 1 \in 1..size /\ from[i - 1] = i
            BY <1>1, <1>3, <2>3
        <3>2. QED
            BY <3>1
    <2>4. QED
        BY <1>1, <1>3, <2>1, <2>2, <2>3
<1>15. from \in [1..size -> 1..Len(cache)]
    BY <1>7
<1> HIDE DEF from
<1>16. Len(c2) \in 1..CacheSize /\ Len(c2) - 1 = size
    BY <1>0, <1>1, <1>3, <1>10
<1>17. Reordered(cache, k, c2, from)
    BY <1>10, <1>12, <1>13, <1>14, <1>15, <1>16 DEF Reordered
<1>18. QED
    BY <1>9, <1>17

\* A new key goes to the end, and the oldest one goes if there is no room.
LEMMA RememberMoves ==
    ASSUME cache \in Seq(Keys), Len(cache) <= CacheSize, NEW k \in Keys,
           \A i, j \in 1..Len(cache) : cache[i] = cache[j] => i = j
    PROVE  \E from : Reordered(cache, k, Remember(k), from)
<1>0. CacheSize \in Nat \ {0}
    BY PipelineAssumption
<1>1. Len(cache) \in Nat /\ DOMAIN cache = 1..Len(cache)
    BY LenProperties
<1>2. CASE k \in ToSet(cache)
    BY <1>2, MoveMoves DEF Remember
<1>3. ASSUME k \notin ToSet(cache) PROVE \A i \in 1..Len(cache) : cache[i] # k
    BY <1>1, <1>3 DEF ToSet
<1> DEFINE longer == Append(cache, k)
<1>4. /\ longer \in Seq(Keys) /\ Len(longer) = Len(cache) + 1 /\ longer[Len(cache) + 1] = k
      /\ \A i \in 1..Len(cache) : longer[i] = cache[i]
    BY <1>1, AppendProperties
<1> HIDE DEF longer
<1>5. CASE k \notin ToSet(cache) /\ Len(cache) < CacheSize
    <2> DEFINE from == [j \in 1..Len(cache) |-> j]
    <2>1. Remember(k) = longer
        BY <1>5 DEF Remember, longer
    <2>2. Len(longer) \in 1..CacheSize /\ Len(longer) - 1 = Len(cache)
        BY <1>0, <1>1, <1>4, <1>5
    <2>3. \A j \in 1..Len(cache) : longer[j] = cache[from[j]] /\ longer[j] # k
        BY <1>3, <1>4, <1>5
    <2>4. from \in [1..Len(cache) -> 1..Len(cache)]
        OBVIOUS
    <2>5. \A i, j \in 1..Len(cache) : i < j => from[i] < from[j]
        OBVIOUS
    <2>6. \A i \in 1..Len(cache) : \E j \in 1..Len(cache) : from[j] = i
        OBVIOUS
    <2> HIDE DEF from
    <2>7. Reordered(cache, k, longer, from)
        BY <1>4, <2>2, <2>3, <2>4, <2>5, <2>6 DEF Reordered
    <2>8. QED
        BY <2>1, <2>7
<1>6. CASE k \notin ToSet(cache) /\ ~(Len(cache) < CacheSize)
    <2> DEFINE c2 == Tail(longer)
               size == Len(cache) - 1
               from == [j \in 1..size |-> j + 1]
    <2>1. Remember(k) = c2
        BY <1>6 DEF Remember, longer
    <2>2. Len(cache) = CacheSize /\ size \in Nat
        <3>1. ~(Len(cache) < CacheSize) /\ Len(cache) <= CacheSize
            BY <1>6
        <3>2. Len(cache) \in Nat /\ CacheSize \in Nat /\ CacheSize > 0
            BY <1>0, <1>1
        <3>3. QED
            BY <3>1, <3>2
    <2>3. longer # <<>>
        BY <1>1, <1>4, EmptySeq
    <2>4. c2 \in Seq(Keys) /\ Len(c2) = Len(cache) /\ \A i \in 1..Len(c2) : c2[i] = longer[i + 1]
        BY <1>1, <1>4, <2>3, HeadTailProperties
    <2>5. c2[Len(c2)] = k
        BY <1>0, <1>4, <2>2, <2>4
    <2>6. \A j \in 1..size : c2[j] = cache[from[j]] /\ c2[j] # k
        <3>1. \A j \in 1..size : j \in 1..Len(c2) /\ j + 1 \in 1..Len(cache) /\ from[j] = j + 1
            BY <1>1, <2>2, <2>4
        <3>2. QED
            BY <1>3, <1>4, <1>6, <2>4, <3>1
    <2>7. from \in [1..size -> 1..Len(cache)]
        BY <1>1
    <2>8. \A i, j \in 1..size : i < j => from[i] < from[j]
        BY <2>2
    <2>9. \A i \in 1..Len(cache) : i = 1 \/ \E j \in 1..size : from[j] = i
        <3>1. SUFFICES ASSUME NEW i \in 1..Len(cache), i # 1
                       PROVE  \E j \in 1..size : from[j] = i
            OBVIOUS
        <3>2. i - 1 \in 1..size /\ from[i - 1] = i
            BY <1>1, <3>1
        <3>3. QED
            BY <3>2
    <2>10. \A j \in 1..size : from[j] > 1
        BY <2>2
    <2>11. Len(c2) \in 1..CacheSize /\ Len(c2) - 1 = size /\ Len(c2) = CacheSize
        BY <1>0, <2>2, <2>4
    <2> HIDE DEF c2, from, size
    <2>12. Reordered(cache, k, c2, from)
        BY <2>4, <2>5, <2>6, <2>7, <2>8, <2>9, <2>10, <2>11 DEF Reordered
    <2>13. QED
        BY <2>1, <2>12
<1>7. QED
    BY <1>2, <1>5, <1>6

\* One look more: it comes after all the others.
LEMMA LookAppended ==
    ASSUME NEW l \in Seq(Look), NEW x \in Look
    PROVE  /\ Append(l, x) \in Seq(Look) /\ Len(Append(l, x)) = Len(l) + 1 /\ Len(l) \in Nat
           /\ Append(l, x)[Len(l) + 1] = x
           /\ \A m \in 1..Len(l) : Append(l, x)[m] = l[m]
BY AppendProperties, LenProperties

\* The looks after a look are finitely many.
LEMMA AfterIsFinite ==
    ASSUME NEW l, Len(l) \in Nat, NEW k
    PROVE  IsFiniteSet(After(l, k))
<1> DEFINE T == LooksAfter(l, k)
           f == [m \in T |-> l[m].key]
<1>1. IsFiniteSet(1..Len(l)) /\ T \subseteq 1..Len(l)
    BY FS_Interval DEF LooksAfter
<1>2. IsFiniteSet(T)
    BY <1>1, FS_Subset
<1>3. f \in Surjection(T, After(l, k))
    <2>1. f \in [T -> After(l, k)]
        BY DEF After
    <2>2. \A v \in After(l, k) : \E m \in T : f[m] = v
        BY DEF After
    <2>3. QED
        BY <2>1, <2>2 DEF Surjection
<1>4. QED
    BY <1>2, <1>3, FS_Surjection

\* The last looks of the keys the cache has now.
LEMMA LastLooksMove ==
    ASSUME NEW c \in Seq(Keys), NEW l \in Seq(Look), NEW last, LastLooks(c, l, last),
           NEW x \in Look, NEW c2, NEW from, Reordered(c, x.key, c2, from),
           NEW last2, last2 = [j \in 1..Len(c2) |-> IF j = Len(c2) THEN Len(l) + 1 ELSE last[from[j]]]
    PROVE  LastLooks(c2, Append(l, x), last2)
<1> DEFINE l2 == Append(l, x)
<1>1. /\ l2 \in Seq(Look) /\ Len(l2) = Len(l) + 1 /\ Len(l) \in Nat
      /\ l2[Len(l) + 1] = x
      /\ \A m \in 1..Len(l) : l2[m] = l[m]
    BY LookAppended
<1> HIDE DEF l2
<1>2. Len(c) \in Nat /\ Len(c2) \in Nat \ {0} /\ Len(c2) \in 1..Len(c2)
    BY PipelineAssumption, LenProperties DEF Reordered
<1>3. \A j \in 1..Len(c2) : j = Len(c2) \/ j \in 1..(Len(c2) - 1)
    BY <1>2
<1>4. ASSUME NEW j \in 1..(Len(c2) - 1)
      PROVE  /\ j \in 1..Len(c2) /\ j # Len(c2)
             /\ from[j] \in 1..Len(c) /\ last[from[j]] \in 1..Len(l)
             /\ last2[j] = last[from[j]]
    <2>1. j \in 1..Len(c2) /\ j # Len(c2)
        BY <1>2
    <2>2. from[j] \in 1..Len(c)
        BY DEF Reordered
    <2>3. last[from[j]] \in 1..Len(l)
        BY <2>2 DEF LastLooks
    <2>4. QED
        BY <2>1, <2>2, <2>3
<1>5. last2[Len(c2)] = Len(l) + 1
    BY <1>2
<1>6. last2 \in [1..Len(c2) -> 1..Len(l2)]
    <2>1. \A j \in 1..(Len(c2) - 1) : last2[j] \in 1..Len(l)
        BY <1>4
    <2>2. \A m \in 1..Len(l) : m \in 1..Len(l2)
        BY <1>1
    <2>3. Len(l) + 1 \in 1..Len(l2)
        BY <1>1
    <2>4. \A j \in 1..Len(c2) : last2[j] \in 1..Len(l2)
        BY <1>3, <1>5, <2>1, <2>2, <2>3
    <2>5. QED
        BY <2>4
<1>7. ASSUME NEW i \in 1..Len(c2), NEW j \in 1..Len(c2), i < j
      PROVE  last2[i] < last2[j]
    <2>1. i \in 1..(Len(c2) - 1)
        BY <1>2, <1>7
    <2>2. CASE j = Len(c2)
        <3>1. last2[i] \in 1..Len(l)
            BY <1>4, <2>1
        <3>2. last2[j] = Len(l) + 1
            BY <1>5, <2>2
        <3>3. QED
            BY <1>1, <3>1, <3>2
    <2>3. CASE j \in 1..(Len(c2) - 1)
        <3>1. from[i] < from[j]
            BY <1>7, <2>1, <2>3 DEF Reordered
        <3>2. from[i] \in 1..Len(c) /\ from[j] \in 1..Len(c)
            BY <1>4, <2>1, <2>3
        <3>3. last[from[i]] < last[from[j]]
            BY <3>1, <3>2 DEF LastLooks
        <3>4. QED
            BY <1>4, <2>1, <2>3, <3>3
    <2>4. QED
        BY <1>3, <2>2, <2>3
<1>8. ASSUME NEW i \in 1..Len(c2)
      PROVE  /\ l2[last2[i]].key = c2[i]
             /\ \A m \in 1..Len(l2) : l2[m].key = c2[i] => m <= last2[i]
    <2>1. CASE i = Len(c2)
        <3>1. c2[i] = x.key /\ last2[i] = Len(l) + 1
            BY <1>5, <2>1 DEF Reordered
        <3>2. QED
            BY <1>1, <3>1
    <2>2. CASE i \in 1..(Len(c2) - 1)
        <3>1. c2[i] = c[from[i]] /\ c2[i] # x.key
            BY <2>2 DEF Reordered
        <3>2. from[i] \in 1..Len(c) /\ last[from[i]] \in 1..Len(l) /\ last2[i] = last[from[i]]
            BY <1>4, <2>2
        <3>3. /\ l[last[from[i]]].key = c[from[i]]
              /\ \A m \in 1..Len(l) : l[m].key = c[from[i]] => m <= last[from[i]]
            BY <3>2 DEF LastLooks
        <3>4. l2[last2[i]].key = c2[i]
            BY <1>1, <3>1, <3>2, <3>3
        <3>5. \A m \in 1..Len(l2) : m \in 1..Len(l) \/ m = Len(l) + 1
            BY <1>1
        <3>6. \A m \in 1..Len(l2) : l2[m].key = c2[i] => m <= last2[i]
            BY <1>1, <3>1, <3>2, <3>3, <3>5
        <3>7. QED
            BY <3>4, <3>6
    <2>3. QED
        BY <1>3, <2>1, <2>2
<1>9. LastLooks(c2, l2, last2)
    BY <1>6, <1>7, <1>8 DEF LastLooks
<1>10. QED
    BY <1>9 DEF l2

\* A look at another key comes after the last look at k.
LEMMA AfterGrows ==
    ASSUME NEW l \in Seq(Look), NEW x \in Look, NEW k, k # x.key
    PROVE  After(l, k) \subseteq After(Append(l, x), k)
<1> DEFINE l2 == Append(l, x)
<1>1. /\ Len(l2) = Len(l) + 1 /\ Len(l) \in Nat /\ l2[Len(l) + 1] = x
      /\ \A m \in 1..Len(l) : l2[m] = l[m]
    BY LookAppended
<1> HIDE DEF l2
<1>2. \A m \in 1..Len(l2) : m \in 1..Len(l) \/ m = Len(l) + 1
    BY <1>1
<1>3. \A m \in 1..Len(l) : m \in 1..Len(l2)
    BY <1>1
<1>4. LooksAfter(l, k) \subseteq LooksAfter(l2, k)
    BY <1>1, <1>2, <1>3 DEF LooksAfter
<1>5. \A m \in LooksAfter(l, k) : l2[m] = l[m]
    BY <1>1 DEF LooksAfter
<1>6. After(l, k) \subseteq After(l2, k)
    BY <1>4, <1>5 DEF After
<1>7. QED
    BY <1>6 DEF l2

(***************************************************************************)
(* A full cache that drops its oldest key holds only keys that were looked *)
(* at after it.                                                            *)
(***************************************************************************)
LEMMA OldestIsFollowed ==
    ASSUME NEW c \in Seq(Keys), NEW l \in Seq(Look), NEW last, LastLooks(c, l, last),
           NEW x \in Look, NEW c2, NEW from, Reordered(c, x.key, c2, from),
           NEW last2, LastLooks(c2, Append(l, x), last2),
           last2 = [j \in 1..Len(c2) |-> IF j = Len(c2) THEN Len(l) + 1 ELSE last[from[j]]],
           Len(c) # 0, c[1] # x.key, Len(c2) = CacheSize,
           \A j \in 1..(Len(c2) - 1) : from[j] > 1
    PROVE  Cardinality(After(Append(l, x), c[1])) >= CacheSize
<1> DEFINE l2 == Append(l, x)
           T == After(l2, c[1])
           place == [j \in 1..CacheSize |-> c2[j]]
<1>1. /\ Len(l2) = Len(l) + 1 /\ Len(l) \in Nat /\ l2[Len(l) + 1] = x
      /\ \A m \in 1..Len(l) : l2[m] = l[m]
    BY LookAppended
<1>2. LastLooks(c2, l2, last2)
    OBVIOUS
<1> HIDE DEF l2
<1>3. Len(c) \in Nat /\ CacheSize \in Nat \ {0} /\ 1 \in 1..Len(c)
    BY PipelineAssumption, LenProperties
<1>4. \A m \in 1..Len(l2) : m \in 1..Len(l) \/ m = Len(l) + 1
    BY <1>1
<1>5. /\ last[1] \in 1..Len(l)
      /\ \A m \in 1..Len(l) : l[m].key = c[1] => m <= last[1]
    BY <1>3 DEF LastLooks
<1>6. \A m \in 1..Len(l2) : l2[m].key = c[1] => m <= last[1]
    BY <1>1, <1>4, <1>5
<1>7. ASSUME NEW j \in 1..CacheSize
      PROVE  last2[j] \in 1..Len(l2) /\ last2[j] > last[1] /\ l2[last2[j]].key = c2[j]
    <2>1. last2[j] \in 1..Len(l2) /\ l2[last2[j]].key = c2[j]
        BY <1>2 DEF LastLooks
    <2>2. CASE j = CacheSize
        <3>1. last2[j] = Len(l) + 1
            BY <2>2
        <3>2. QED
            BY <1>1, <1>5, <2>1, <3>1
    <2>3. CASE j # CacheSize
        <3>1. j \in 1..(CacheSize - 1) /\ last2[j] = last[from[j]]
            BY <1>3, <2>3
        <3>2. from[j] \in 1..Len(c) /\ 1 < from[j]
            BY <3>1 DEF Reordered
        <3>3. last[1] < last[from[j]]
            BY <1>3, <3>2 DEF LastLooks
        <3>4. QED
            BY <1>5, <2>1, <3>1, <3>3
    <2>4. QED
        BY <2>2, <2>3
<1>8. ASSUME NEW j \in 1..CacheSize PROVE c2[j] \in T
    <2>1. \A e \in 1..Len(l2) : l2[e].key = c[1] => last2[j] > e
        BY <1>1, <1>5, <1>6, <1>7
    <2>2. last2[j] \in LooksAfter(l2, c[1])
        BY <1>7, <2>1 DEF LooksAfter
    <2>3. QED
        BY <1>7, <2>2 DEF After
<1>9. ASSUME NEW i \in 1..CacheSize, NEW j \in 1..CacheSize, c2[i] = c2[j]
      PROVE  i = j
    <2>1. last2[i] <= last2[j] /\ last2[j] <= last2[i]
        <3>1. l2[last2[i]].key = c2[j] /\ l2[last2[j]].key = c2[i]
            BY <1>7, <1>9
        <3>2. \A n \in 1..CacheSize : \A m \in 1..Len(l2) : l2[m].key = c2[n] => m <= last2[n]
            BY <1>2 DEF LastLooks
        <3>3. QED
            BY <1>7, <3>1, <3>2
    <2>2. ~(last2[i] < last2[j]) /\ ~(last2[j] < last2[i])
        BY <1>1, <1>7, <2>1
    <2>3. ~(i < j) /\ ~(j < i)
        BY <1>2, <2>2 DEF LastLooks
    <2>4. QED
        BY <1>3, <2>3
<1>10. place \in Injection(1..CacheSize, T)
    <2>1. place \in [1..CacheSize -> T]
        BY <1>8
    <2>2. \A i, j \in 1..CacheSize : place[i] = place[j] => i = j
        BY <1>9
    <2>3. QED
        BY <2>1, <2>2 DEF Injection, IsInjective
<1>11. IsFiniteSet(T)
    BY <1>1, AfterIsFinite
<1> HIDE DEF place, T
<1>12. Cardinality(1..CacheSize) <= Cardinality(T)
    BY <1>10, <1>11, FS_Injection
<1>13. Cardinality(1..CacheSize) = CacheSize
    BY <1>3, FS_Interval
<1>14. Cardinality(T) >= CacheSize
    BY <1>3, <1>11, <1>12, <1>13, FS_CardinalityType
<1>15. QED
    BY <1>14 DEF T, l2

\* The looks so far stay what they were, whatever is looked at next.
LEMMA EarlierLooksStay ==
    ASSUME NEW l \in Seq(Look), NEW x \in Look, NEW n \in 1..Len(l), LookIsExact(l, n)
    PROVE  LookIsExact(Append(l, x), n)
<1> DEFINE l2 == Append(l, x)
<1>1. Len(l) \in Nat /\ \A m \in 1..Len(l) : l2[m] = l[m]
    BY LookAppended
<1> HIDE DEF l2
<1>2. \A m \in 1..(n - 1) : m \in 1..Len(l)
    BY <1>1
<1>3. l2[n] = l[n] /\ \A m \in 1..(n - 1) : l2[m] = l[m]
    BY <1>1, <1>2
<1>4. Earlier(l2, n) = Earlier(l, n)
    BY <1>3 DEF Earlier
<1>5. Between(l2, n) = Between(l, n)
    BY <1>3, <1>4 DEF Between
<1>6. \A e \in Earlier(l, n) : l2[e] = l[e]
    BY <1>3 DEF Earlier
<1>7. LookIsExact(l2, n)
    BY <1>3, <1>4, <1>5, <1>6 DEF LookIsExact
<1>8. QED
    BY <1>7 DEF l2

\* What dedup says of the next look is exact.
LEMMA NextLookIsExact ==
    ASSUME NEW c, NEW l, SeenOK(c, l), NEW x \in Look, x.repeat = (x.key \in ToSet(c))
    PROVE  LookIsExact(Append(l, x), Len(l) + 1)
<1> DEFINE l2 == Append(l, x)
           n == Len(l) + 1
<1>0. c \in Seq(Keys) /\ l \in Seq(Look) /\ Evicted(c, l)
    BY DEF SeenOK
<1>1. /\ Len(l) \in Nat /\ l2[n] = x
      /\ \A m \in 1..Len(l) : l2[m] = l[m]
    BY <1>0, LookAppended
<1> SUFFICES LookIsExact(l2, n)
    OBVIOUS
<1> HIDE DEF l2
<1>2. n - 1 = Len(l)
    BY <1>1
<1>3. Earlier(l2, n) = {m \in 1..Len(l) : l[m].key = x.key}
    BY <1>1, <1>2 DEF Earlier
<1>4. CASE x.key \in ToSet(c)
    <2>1. PICK last : LastLooks(c, l, last)
        BY DEF SeenOK
    <2>2. PICK i \in 1..Len(c) : c[i] = x.key
        BY <1>0, <1>4, LenProperties DEF ToSet
    <2>3. last[i] \in 1..Len(l) /\ l[last[i]].key = x.key
        BY <2>1, <2>2 DEF LastLooks
    <2>4. last[i] \in Earlier(l2, n)
        BY <1>3, <2>3
    <2>5. CASE ~l[last[i]].repeat
        <3>1. ~l2[last[i]].repeat
            BY <1>1, <2>3, <2>5
        <3>2. QED
            BY <1>1, <1>4, <2>4, <3>1 DEF LookIsExact
    <2>6. CASE l[last[i]].repeat
        <3>1. LookIsExact(l, last[i])
            BY <2>3 DEF SeenOK
        <3>2. PICK e \in Earlier(l, last[i]) : ~l[e].repeat
            BY <2>6, <3>1 DEF LookIsExact
        <3>3. e \in 1..(last[i] - 1) /\ l[e].key = x.key
            BY <2>3 DEF Earlier
        <3>4. e \in 1..Len(l)
            BY <1>1, <2>3, <3>3
        <3>5. e \in Earlier(l2, n) /\ ~l2[e].repeat
            BY <1>1, <1>3, <3>2, <3>3, <3>4
        <3>6. QED
            BY <1>1, <1>4, <3>5 DEF LookIsExact
    <2>7. QED
        BY <2>5, <2>6
<1>5. CASE x.key \notin ToSet(c)
    <2>1. Between(l2, n) = After(l, x.key)
        <3>1. {m \in 1..(n - 1) : \A e \in Earlier(l2, n) : m > e} = LooksAfter(l, x.key)
            BY <1>2, <1>3 DEF LooksAfter
        <3>2. \A m \in LooksAfter(l, x.key) : l2[m] = l[m]
            BY <1>1 DEF LooksAfter
        <3>3. QED
            BY <3>1, <3>2 DEF Between, After
    <2>2. CASE x.key \in Seen(l)
        <3>1. Cardinality(After(l, x.key)) >= CacheSize
            BY <1>0, <1>5, <2>2 DEF Evicted
        <3>2. QED
            BY <1>1, <1>5, <2>1, <3>1 DEF LookIsExact
    <2>3. CASE x.key \notin Seen(l)
        <3>1. Earlier(l2, n) = {}
            BY <1>3, <2>3 DEF Seen
        <3>2. QED
            BY <1>1, <1>5, <3>1 DEF LookIsExact
    <2>4. QED
        BY <2>2, <2>3
<1>6. QED
    BY <1>4, <1>5

\* The keys that are not in the cache any more, after one look more.
LEMMA EvictedStays ==
    ASSUME NEW c, NEW l, SeenOK(c, l), NEW last, LastLooks(c, l, last),
           NEW x \in Look, NEW c2, NEW from, Reordered(c, x.key, c2, from),
           NEW last2, LastLooks(c2, Append(l, x), last2),
           last2 = [j \in 1..Len(c2) |-> IF j = Len(c2) THEN Len(l) + 1 ELSE last[from[j]]]
    PROVE  Evicted(c2, Append(l, x))
<1> DEFINE l2 == Append(l, x)
<1>0. c \in Seq(Keys) /\ l \in Seq(Look) /\ Evicted(c, l)
    BY DEF SeenOK
<1>1. /\ Len(l2) = Len(l) + 1 /\ Len(l) \in Nat /\ l2[Len(l) + 1] = x
      /\ \A m \in 1..Len(l) : l2[m] = l[m]
    BY <1>0, LookAppended
<1>2. DOMAIN c = 1..Len(c) /\ DOMAIN c2 = 1..Len(c2)
    BY <1>0, LenProperties DEF Reordered
<1>5. Len(c2) \in Nat \ {0} /\ CacheSize \in Nat
    BY PipelineAssumption DEF Reordered
<1> HIDE DEF l2
<1>3. ASSUME NEW k \in Seen(l2) \ ToSet(c2)
      PROVE  Cardinality(After(l2, k)) >= CacheSize
    <2>1. k # x.key
        <3>1. Len(c2) \in 1..Len(c2) /\ c2[Len(c2)] = x.key
            BY <1>5 DEF Reordered
        <3>2. x.key \in ToSet(c2)
            BY <1>2, <3>1 DEF ToSet
        <3>3. QED
            BY <1>3, <3>2
    <2>2. k \in Seen(l)
        <3>1. \A m \in 1..Len(l2) : m \in 1..Len(l) \/ m = Len(l) + 1
            BY <1>1
        <3>2. QED
            BY <1>1, <1>3, <2>1, <3>1 DEF Seen
    <2>3. CASE k \notin ToSet(c)
        <3>1. Cardinality(After(l, k)) >= CacheSize
            BY <1>0, <2>2, <2>3 DEF Evicted
        <3>2. After(l, k) \subseteq After(l2, k)
            BY <1>0, <2>1, AfterGrows DEF l2
        <3>3. IsFiniteSet(After(l2, k)) /\ IsFiniteSet(After(l, k))
            BY <1>1, AfterIsFinite
        <3>4. /\ Cardinality(After(l, k)) \in Nat /\ Cardinality(After(l2, k)) \in Nat
              /\ Cardinality(After(l, k)) <= Cardinality(After(l2, k))
            BY <3>2, <3>3, FS_Subset, FS_CardinalityType
        <3>5. QED
            BY <1>5, <3>1, <3>4
    <2>4. CASE k \in ToSet(c)
        <3>1. PICK i \in 1..Len(c) : c[i] = k
            BY <1>2, <2>4 DEF ToSet
        <3>2. ~\E j \in 1..(Len(c2) - 1) : from[j] = i
            <4>1. SUFFICES ASSUME NEW j \in 1..(Len(c2) - 1), from[j] = i PROVE FALSE
                OBVIOUS
            <4>2. c2[j] = k /\ j \in 1..Len(c2)
                BY <1>5, <3>1, <4>1 DEF Reordered
            <4>3. k \in ToSet(c2)
                BY <1>2, <4>2 DEF ToSet
            <4>4. QED
                BY <1>3, <4>3
        <3>3. i = 1 /\ Len(c2) = CacheSize /\ \A j \in 1..(Len(c2) - 1) : from[j] > 1
            BY <2>1, <3>1, <3>2 DEF Reordered
        <3>4. Len(c) # 0 /\ c[1] = k
            BY <3>1, <3>3
        <3>5. Cardinality(After(Append(l, x), c[1])) >= CacheSize
            BY <1>0, <2>1, <3>3, <3>4, OldestIsFollowed
        <3>6. QED
            BY <3>4, <3>5 DEF l2
    <2>5. QED
        BY <2>3, <2>4
<1>4. QED
    BY <1>3 DEF Evicted, l2

\* The keys of the cache are different from one another.
LEMMA CacheIsASet ==
    ASSUME NEW c \in Seq(Keys), NEW l \in Seq(Look), NEW last, LastLooks(c, l, last)
    PROVE  \A i, j \in 1..Len(c) : c[i] = c[j] => i = j
<1> SUFFICES ASSUME NEW i \in 1..Len(c), NEW j \in 1..Len(c), c[i] = c[j]
             PROVE  i = j
    OBVIOUS
<1>1. Len(l) \in Nat /\ Len(c) \in Nat
    BY LenProperties
<1>2. last[i] \in 1..Len(l) /\ last[j] \in 1..Len(l)
    BY DEF LastLooks
<1>3. l[last[i]].key = c[j] /\ l[last[j]].key = c[i]
    BY DEF LastLooks
<1>4. \A n \in 1..Len(c) : \A m \in 1..Len(l) : l[m].key = c[n] => m <= last[n]
    BY DEF LastLooks
<1>5. last[i] <= last[j] /\ last[j] <= last[i]
    BY <1>2, <1>3, <1>4
<1>6. ~(last[i] < last[j]) /\ ~(last[j] < last[i])
    BY <1>1, <1>2, <1>5
<1>7. ~(i < j) /\ ~(j < i)
    BY <1>6 DEF LastLooks
<1>8. QED
    BY <1>1, <1>7

\* A look at a key keeps what is known of the cache.
LEMMA LookKeepsSeen ==
    ASSUME SeenOK(cache, looks), NEW k \in Keys, NEW x, x = [key |-> k, repeat |-> k \in ToSet(cache)]
    PROVE  SeenOK(Remember(k), Append(looks, x))
<1>1. cache \in Seq(Keys) /\ Len(cache) <= CacheSize /\ looks \in Seq(Look)
    BY DEF SeenOK
<1>2. x \in Look /\ x.key = k /\ x.repeat = (k \in ToSet(cache))
    BY DEF Look
<1>3. PICK last : LastLooks(cache, looks, last)
    BY DEF SeenOK
<1>4. \A i, j \in 1..Len(cache) : cache[i] = cache[j] => i = j
    BY <1>1, <1>3, CacheIsASet
<1>5. PICK from : Reordered(cache, k, Remember(k), from)
    BY <1>1, <1>4, RememberMoves
<1>6. PICK c2 : c2 = Remember(k)
    OBVIOUS
<1>7. Reordered(cache, x.key, c2, from)
    BY <1>2, <1>5, <1>6
<1>8. PICK last2 :
        last2 = [j \in 1..Len(c2) |-> IF j = Len(c2) THEN Len(looks) + 1 ELSE last[from[j]]]
    OBVIOUS
<1>9. LastLooks(c2, Append(looks, x), last2)
    BY <1>1, <1>2, <1>3, <1>7, <1>8, LastLooksMove
<1>10. Evicted(c2, Append(looks, x))
    BY <1>2, <1>3, <1>7, <1>8, <1>9, EvictedStays
<1>11. /\ Append(looks, x) \in Seq(Look) /\ Len(Append(looks, x)) = Len(looks) + 1
       /\ Len(looks) \in Nat
    BY <1>1, <1>2, LookAppended
<1>12. ASSUME NEW n \in 1..Len(Append(looks, x)) PROVE LookIsExact(Append(looks, x), n)
    <2>1. CASE n \in 1..Len(looks)
        <3>1. LookIsExact(looks, n)
            BY <2>1 DEF SeenOK
        <3>2. QED
            BY <1>1, <1>2, <2>1, <3>1, EarlierLooksStay
    <2>2. CASE n = Len(looks) + 1
        BY <1>2, <2>2, NextLookIsExact
    <2>3. QED
        BY <1>11, <1>12, <2>1, <2>2
<1>13. c2 \in Seq(Keys) /\ Len(c2) <= CacheSize
    BY <1>7, PipelineAssumption DEF Reordered
<1>14. SeenOK(c2, Append(looks, x))
    BY <1>9, <1>10, <1>11, <1>12, <1>13 DEF SeenOK
<1>15. QED
    BY <1>6, <1>14
----
(***************************************************************************)
(* A message past Receive is one of the keys, and dedup knows what it was  *)
(* asked in this life.                                                     *)
(***************************************************************************)
AskedOK ==
    /\ keyOf \in Seq(Keys)
    /\ ws.pc # "idle" => ws.n \in 1..Len(keyOf)
    /\ ws.n \in Nat
    /\ ws = [pc |-> ws.pc, n |-> ws.n]
    /\ SeenOK(cache, looks)

\* Dedup that was not asked yet.
LEMMA NothingSeen == SeenOK(<<>>, <<>>)
<1> DEFINE last == [i \in 1..0 |-> 0]
<1>1. <<>> \in Seq(Keys) /\ <<>> \in Seq(Look) /\ Len(<<>>) = 0 /\ CacheSize \in Nat
    BY PipelineAssumption, EmptySeq
<1>2. LastLooks(<<>>, <<>>, last)
    BY <1>1 DEF LastLooks
<1>3. Evicted(<<>>, <<>>)
    BY <1>1 DEF Evicted, Seen
<1>4. QED
    BY <1>1, <1>2, <1>3 DEF SeenOK

LEMMA StepAsked == AskedOK /\ [Next]_vars => AskedOK'
<1> SUFFICES ASSUME AskedOK, [Next]_vars PROVE AskedOK'
    OBVIOUS
<1> USE DEF GotoWs, WsDone
<1>1. ASSUME NEW k \in Keys, Receive(k) PROVE AskedOK'
    <2>1. keyOf' \in Seq(Keys) /\ Len(keyOf') = Len(keyOf) + 1 /\ Len(keyOf) \in Nat
        BY <1>1, LenProperties, AppendProperties DEF Receive, AskedOK
    <2>2. ws' = [pc |-> "append", n |-> Len(keyOf) + 1]
        BY <1>1 DEF Receive
    <2>3. QED
        BY <1>1, <2>1, <2>2 DEF Receive, AskedOK
<1>2. CASE LookUp
    <2>1. ws.n \in 1..Len(keyOf) /\ keyOf \in Seq(Keys) /\ UNCHANGED keyOf
        BY <1>2 DEF LookUp, AskedOK
    <2>2. keyOf[ws.n] \in Keys
        BY <2>1, ElementOfSeq
    <2>3. PICK k \in Keys : k = keyOf[ws.n]
        BY <2>2
    <2>4. PICK x : x = [key |-> k, repeat |-> k \in ToSet(cache)]
        OBVIOUS
    <2>5. cache' = Remember(k) /\ looks' = Append(looks, x)
        BY <1>2, <2>3, <2>4 DEF LookUp
    <2>6. SeenOK(cache, looks)
        BY DEF AskedOK
    <2>7. SeenOK(Remember(k), Append(looks, x))
        BY <2>4, <2>6, LookKeepsSeen
    <2>8. SeenOK(cache', looks')
        BY <2>5, <2>7
    <2>9. /\ ws'.pc # "idle" => ws'.n = ws.n
          /\ ws'.n \in Nat /\ ws' = [pc |-> ws'.pc, n |-> ws'.n]
        BY <1>2, <2>1 DEF LookUp, AskedOK
    <2>10. QED
        BY <2>1, <2>8, <2>9 DEF AskedOK
<1>3. CASE Start
    <2>1. SeenOK(cache', looks') /\ ws' = [pc |-> "idle", n |-> 0] /\ UNCHANGED keyOf
        BY <1>3, NothingSeen DEF Start
    <2>2. QED
        BY <2>1 DEF AskedOK
<1>4. CASE \/ AppendRaw \/ DiscardMessage \/ StoreTick \/ PublishTick \/ AddTick \/ WsInsert
    <2>1. UNCHANGED <<keyOf, cache, looks>>
        BY <1>4 DEF AppendRaw, DiscardMessage, StoreTick, PublishTick, AddTick, WsInsert
    <2>2. /\ ws'.pc # "idle" => ws.pc # "idle" /\ ws'.n = ws.n
          /\ ws'.n \in Nat /\ ws' = [pc |-> ws'.pc, n |-> ws'.n]
        BY <1>4 DEF AppendRaw, DiscardMessage, StoreTick, PublishTick, AddTick, WsInsert, AskedOK
    <2>3. QED
        BY <2>1, <2>2 DEF AskedOK
<1>5. CASE Signal \/ Shutdown \/ Kill \/ UNCHANGED vars
    <2>1. UNCHANGED <<keyOf, cache, looks, ws>>
        BY <1>5 DEF Signal, Shutdown, CloseSocket, FlushBuffer, MainInsert, LockWriter, CloseWriter,
                    Return, Kill, vars, callback
    <2>2. QED
        BY <2>1 DEF AskedOK
<1>6. QED
    BY <1>1, <1>2, <1>3, <1>4, <1>5 DEF Next, OnMessage

(***************************************************************************)
(* Dedup.seen is exact for every set of keys and every size of the cache:  *)
(* a tick is dropped only if it was let through, and let through again     *)
(* only after a cacheful of other ticks (ingest.py Dedup.seen).            *)
(***************************************************************************)
THEOREM DedupsAreExact == FairSpec => []DedupIsExact
<1>1. AskedOK => DedupIsExact
    <2> SUFFICES ASSUME AskedOK PROVE DedupIsExact
        OBVIOUS
    <2>1. looks \in Seq(Look) /\ \A n \in 1..Len(looks) : LookIsExact(looks, n)
        BY DEF AskedOK, SeenOK
    <2>2. DOMAIN looks = 1..Len(looks)
        BY <2>1, LenProperties
    <2>3. QED
        BY <2>1, <2>2 DEF DedupIsExact, LookIsExact, Between, Earlier
<1>2. Init => AskedOK
    <2> SUFFICES ASSUME Init PROVE AskedOK
        OBVIOUS
    <2>1. SeenOK(cache, looks)
        BY NothingSeen DEF Init
    <2>2. QED
        BY <2>1 DEF Init, AskedOK
<1>3. QED
    BY <1>1, <1>2, StepAsked, PTL DEF FairSpec
----
(***************************************************************************)
(* The live store and the greeks engine behind it: types first.            *)
(***************************************************************************)
Job == [kind : {"none", "tick", "depth", "poll"}, ltp : 0..MaxTicks, oi : 0..MaxOI]

Message == [kind : {"option", "index"}, spot : Spot]

\* The bounds are numbers, and a key that is not there is no record.
LEMMA StoreBounds ==
    /\ MaxTicks \in Nat /\ MaxIndexTicks \in Nat /\ MaxDepths \in Nat /\ MaxOI \in Nat
    /\ MaxBus \in Nat /\ MaxRedisFaults \in Nat
    /\ NONE \notin Record /\ Spots \subseteq Nat \ {0}
BY StoreAssumption DEF Record

\* The two threads.
LEMMA Threads == "ws" \in Thread /\ "oi" \in Thread
                 /\ \A t \in Thread : Other(t) \in Thread /\ Other(t) # t
                                      /\ \A u \in Thread : u = t \/ u = Other(t)
<1>1. Thread = {"ws", "oi"}
    BY DEF Thread
<1>2. ASSUME NEW t \in Thread
      PROVE  Other(t) \in Thread /\ Other(t) # t /\ \A u \in Thread : u = t \/ u = Other(t)
    <2>1. \E u \in Thread : u # t
        BY <1>1
    <2>2. Other(t) \in Thread /\ Other(t) # t
        BY <2>1 DEF Other
    <2>3. QED
        BY <1>1, <2>2
<1>3. QED
    BY <1>1, <1>2

\* What a quote keeps and what a merge keeps are records again.
LEMMA OverlaysAreJobs ==
    ASSUME NEW j \in Job, NEW prev \in Record \cup {NONE}
    PROVE  Preserved(j, prev) \in Job /\ (prev # NONE => Overlaid(j, prev) \in Job)
BY DEF Preserved, Overlaid, Job, Record

LEMMA InitStoreTypes == GreeksInit => GreeksTypeOK
<1> SUFFICES ASSUME GreeksInit PROVE GreeksTypeOK
    OBVIOUS
<1>1. NoSpot \in Spot /\ NoJob \in Job
    BY StoreBounds DEF NoSpot, Spot, NoJob, Job
<1>2. bus \in Seq(Message) /\ Len(bus) = 0
    BY DEF GreeksInit, StoreInit
<1>3. StoreTypeOK
    BY <1>1, <1>2, StoreBounds DEF GreeksInit, StoreInit, StoreTypeOK, Job, Message
<1>4. QED
    BY <1>3, StoreBounds DEF GreeksInit, GreeksTypeOK

\* What starts a writer.
LEMMA BeginTypes ==
    ASSUME GreeksTypeOK, Trade \/ OptionTick \/ Depth \/ PollOk
    PROVE  StoreTypeOK' /\ UNCHANGED spot
<1>0. StoreTypeOK
    BY DEF GreeksTypeOK
<1>1. CASE Trade
    BY <1>0, <1>1, StoreBounds DEF Trade, StoreTypeOK, store, counts, threads, history
<1>2. CASE OptionTick
    BY <1>0, <1>2, StoreBounds, Threads DEF OptionTick, Begin, StoreTypeOK, store, history
<1>3. CASE Depth
    BY <1>0, <1>3, StoreBounds, Threads DEF Depth, Begin, StoreTypeOK, store, history
<1>4. CASE PollOk
    BY <1>0, <1>4, StoreBounds, Threads DEF PollOk, Begin, StoreTypeOK, store, counts, history
<1>5. QED
    BY <1>1, <1>2, <1>3, <1>4 DEF Trade, OptionTick, Depth, PollOk, store

\* The two writes of a thread, and a call of it that raises.
LEMMA WriteTypes ==
    ASSUME GreeksTypeOK, NEW t \in Thread, Read(t) \/ SetLatest(t) \/ SetChain(t) \/ CallFails(t)
    PROVE  StoreTypeOK' /\ UNCHANGED spot
<1>0. StoreTypeOK /\ Other(t) \in Thread
    BY Threads DEF GreeksTypeOK
<1>1. CASE Read(t)
    <2>1. job[t] \in Job /\ NoJob \in Job
        BY <1>0, StoreBounds DEF StoreTypeOK, Job, NoJob
    <2>2. Preserved(job[t], latest) \in Job /\ (latest # NONE => Overlaid(job[t], latest) \in Job)
        BY <1>0, <2>1, OverlaysAreJobs DEF StoreTypeOK
    <2>3. \E j \in Job : job' = [job EXCEPT ![t] = j]
        BY <1>1, <2>1, <2>2 DEF Read, End
    <2>4. job' \in [Thread -> Job]
        BY <1>0, <2>3 DEF StoreTypeOK, Job
    <2>5. pc' = [pc EXCEPT ![t] = "set"] \/ pc' = [pc EXCEPT ![t] = "idle"]
        BY <1>1 DEF Read, End
    <2>6. UNCHANGED <<store, marketOI, counts, bus, history>>
        BY <1>1 DEF Read
    <2>7. QED
        BY <1>0, <2>4, <2>5, <2>6 DEF StoreTypeOK, Job, store, counts, history
<1>2. Body(t) \in Record
    BY <1>0 DEF StoreTypeOK, Body, Record
<1>3. CASE SetLatest(t) \/ SetChain(t)
    <2>1. overlap' \in [Thread -> BOOLEAN]
        BY <1>0, <1>3 DEF SetLatest, SetChain, Overlaps, StoreTypeOK, Writing
    <2>2. latest' \in Record \cup {NONE} /\ chain' \in Record \cup {NONE}
        BY <1>0, <1>2, <1>3 DEF SetLatest, SetChain, StoreTypeOK
    <2>3. job' \in [Thread -> Job]
        <3>1. NoJob \in Job /\ job \in [Thread -> Job]
            BY <1>0, StoreBounds DEF StoreTypeOK, NoJob, Job
        <3>2. job' = job \/ job' = [job EXCEPT ![t] = NoJob]
            BY <1>3 DEF SetLatest, SetChain
        <3>3. QED
            BY <3>1, <3>2
    <2>4. pc' \in [Thread -> {"idle", "read", "set", "hset", "publish", "index"}]
        BY <1>0, <1>3 DEF SetLatest, SetChain, StoreTypeOK
    <2>5. newest' \in 0..MaxTicks /\ merged' \in 0..MaxOI
        BY <1>0, <1>3 DEF SetLatest, SetChain, StoreTypeOK
    <2>6. clean' \subseteq {"ltp", "oi", "copies"}
        BY <1>0, <1>3 DEF SetLatest, SetChain, StoreTypeOK
    <2>7. UNCHANGED <<spot, marketOI, counts, bus>>
        BY <1>3 DEF SetLatest, SetChain
    <2>8. QED
        BY <1>0, <2>1, <2>2, <2>3, <2>4, <2>5, <2>6, <2>7 DEF StoreTypeOK, Job, counts
<1>4. CASE CallFails(t)
    <2>1. job' \in [Thread -> Job] /\ overlap' \in [Thread -> BOOLEAN]
        BY <1>0, <1>4, StoreBounds DEF CallFails, End, StoreTypeOK, NoJob, Job
    <2>2. pc' \in [Thread -> {"idle", "read", "set", "hset", "publish", "index"}]
        BY <1>0, <1>4 DEF CallFails, End, StoreTypeOK
    <2>3. redisFaults' \in 0..MaxRedisFaults
        BY <1>0, <1>4, StoreBounds DEF CallFails, StoreTypeOK
    <2>4. clean' \subseteq {"ltp", "oi", "copies"}
        BY <1>0, <1>4 DEF CallFails, StoreTypeOK
    <2>5. UNCHANGED <<store, marketOI, ticks, indexTicks, depths, bus, newest, merged>>
        BY <1>4 DEF CallFails
    <2>6. QED
        BY <1>0, <2>1, <2>2, <2>3, <2>4, <2>5 DEF StoreTypeOK, Job, store
<1>5. QED
    BY <1>1, <1>3, <1>4 DEF Read, SetLatest, SetChain, CallFails, store

\* What goes onto the bus, and what comes from it.
LEMMA BusTypes ==
    ASSUME GreeksTypeOK,
           \/ \E p \in Spots : IndexTick(p)
           \/ \E t \in Thread : Publish(t)
           \/ OnOptionTick \/ OnIndexTick
    PROVE  StoreTypeOK'
<1>0. StoreTypeOK /\ bus \in Seq(Message) /\ Len(bus) \in Nat
    BY LenProperties DEF GreeksTypeOK, StoreTypeOK, Message
<1>1. CASE \E p \in Spots : IndexTick(p)
    BY <1>0, <1>1, StoreBounds, Threads DEF IndexTick, StoreTypeOK, Spot, history
<1>2. CASE \E t \in Thread : Publish(t)
    <2>1. PICK t \in Thread : Publish(t)
        BY <1>2
    <2>2. \E m \in Message : bus' = Append(bus, m)
        <3>1. spot \in Spot /\ NoSpot \in Spot
            BY <1>0, StoreBounds DEF StoreTypeOK, Spot, NoSpot
        <3>2. /\ [kind |-> "option", spot |-> NoSpot] \in Message
              /\ [kind |-> "index", spot |-> spot] \in Message
            BY <3>1 DEF Message
        <3>3. QED
            BY <2>1, <3>2 DEF Publish
    <2>3. bus' \in Seq(Message) /\ Len(bus') <= MaxBus
        BY <1>0, <2>1, <2>2, StoreBounds, AppendProperties DEF Publish
    <2>4. QED
        BY <1>0, <2>1, <2>3, StoreBounds DEF Publish, End, NoJob, StoreTypeOK, Message,
                                            store, counts, history
<1>3. CASE OnOptionTick \/ OnIndexTick
    <2>1. bus # <<>> /\ bus' = Tail(bus) /\ UNCHANGED <<store, writers>>
        BY <1>3 DEF OnOptionTick, OnIndexTick, Take
    <2>2. bus' \in Seq(Message) /\ Len(bus') <= MaxBus
        BY <1>0, <2>1, StoreBounds, HeadTailProperties, EmptySeq DEF StoreTypeOK
    <2>3. QED
        BY <1>0, <2>1, <2>2 DEF StoreTypeOK, Message, store, writers, counts, threads, history
<1>4. QED
    BY <1>1, <1>2, <1>3

LEMMA StepStoreTypes == GreeksTypeOK /\ [GreeksNext]_greeksVars => GreeksTypeOK'
<1> SUFFICES ASSUME GreeksTypeOK, [GreeksNext]_greeksVars PROVE GreeksTypeOK'
    OBVIOUS
<1>0. StoreTypeOK
    BY DEF GreeksTypeOK
<1>1. CASE WriterNext
    <2>1. StoreTypeOK'
        BY <1>1, BeginTypes, WriteTypes, BusTypes DEF WriterNext, StoreNext, WriterStep
    <2>2. jumps' = jumps \/ jumps' = jumps \cup {spot'.n}
        BY <1>1 DEF WriterNext, Jumps
    <2>3. spot'.n \in 0..MaxIndexTicks
        BY <2>1 DEF StoreTypeOK, Spot
    <2>4. QED
        BY <1>1, <2>1, <2>2, <2>3 DEF WriterNext, Jumps, engine, GreeksTypeOK
<1>2. CASE EngineNext
    <2>1. StoreTypeOK'
        BY <1>2, BusTypes DEF EngineNext
    <2>2. bus # <<>> /\ bus \in Seq(Message)
        BY <1>0, <1>2 DEF EngineNext, OnOptionTick, OnIndexTick, Take, StoreTypeOK, Message
    <2>3. Head(bus) \in Message
        BY <2>2, HeadTailProperties
    <2>4. spot \in Spot /\ Head(bus).spot \in Spot
        BY <1>0, <2>3 DEF StoreTypeOK, Message
    <2>5. lastSpot' \in {0} \cup Spots /\ greeks' \in 0..MaxIndexTicks /\ jumps' \subseteq jumps
        BY <1>2, <2>4 DEF EngineNext, OnOptionTick, OnIndexTick, Recompute, Spot, GreeksTypeOK
    <2>6. QED
        BY <2>1, <2>2, <2>5 DEF GreeksTypeOK
<1>3. CASE UNCHANGED greeksVars
    BY <1>0, <1>3 DEF greeksVars, store, writers, counts, threads, history, engine, GreeksTypeOK,
                 StoreTypeOK
<1>4. QED
    BY <1>1, <1>2, <1>3 DEF GreeksNext

(***************************************************************************)
(* What a thread that no write of the other overlapped knows of the record *)
(* it is about to write, or has written.                                   *)
(***************************************************************************)
ThreadKnows(t) ==
    /\ pc[t] \in {"read", "set", "hset"} => job[t].kind # "none"
    /\ pc[t] = "read" /\ job[t].kind = "tick" => job[t].oi = 0
    /\ pc[t] = "set" /\ ~overlap[t] /\ job[t].kind = "tick" =>
          (latest # NONE => job[t].oi = latest.oi)
    /\ pc[t] = "set" /\ ~overlap[t] /\ job[t].kind # "tick" =>
          latest # NONE /\ job[t].ltp = latest.ltp
    /\ pc[t] = "hset" /\ ~overlap[t] => latest = Body(t)

\* A field that is clean is there, and is what its last writer stored.
RecordOK ==
    /\ "ltp" \in clean => latest # NONE /\ latest.ltp = newest
    /\ "oi" \in clean => latest # NONE /\ latest.oi = merged
    /\ "copies" \in clean /\ (\A t \in Thread : pc[t] # "hset") => chain = latest

StoreOK == GreeksTypeOK /\ RecordOK /\ \A t \in Thread : ThreadKnows(t)

\* The steps that leave the record, its copies and every reader of them alone.
LEMMA QuietKeepsStore ==
    ASSUME StoreOK, \/ Trade \/ OptionTick \/ Depth \/ PollOk
                    \/ \E p \in Spots : IndexTick(p)
                    \/ \E t \in Thread : Publish(t)
                    \/ EngineNext \/ UNCHANGED greeksVars
    PROVE  RecordOK' /\ \A t \in Thread : ThreadKnows(t)'
<1>0. StoreTypeOK
    BY DEF StoreOK, GreeksTypeOK
<1>1. UNCHANGED <<latest, chain, newest, merged, clean, overlap>>
    BY DEF Trade, OptionTick, Depth, PollOk, IndexTick, Publish, EngineNext, OnOptionTick,
           OnIndexTick, Take, greeksVars, store, writers, history
<1>2. ASSUME NEW t \in Thread
      PROVE  \/ pc'[t] = pc[t] /\ job'[t] = job[t]
             \/ pc'[t] \in {"idle", "index"} /\ pc[t] \in {"idle", "index", "publish"}
             \/ /\ pc'[t] = "read" /\ pc[t] = "idle" /\ job'[t].kind # "none"
                /\ job'[t].kind = "tick" => job'[t].oi = 0
    <2>1. CASE Trade \/ EngineNext \/ UNCHANGED greeksVars
        BY <2>1 DEF Trade, EngineNext, OnOptionTick, OnIndexTick, Take, greeksVars, writers, threads
    <2>2. CASE OptionTick
        BY <1>0, <2>2 DEF OptionTick, Begin, StoreTypeOK
    <2>3. CASE Depth
        BY <1>0, <2>3 DEF Depth, Begin, StoreTypeOK
    <2>4. CASE PollOk
        BY <1>0, <2>4 DEF PollOk, Begin, StoreTypeOK
    <2>5. CASE \E p \in Spots : IndexTick(p)
        BY <1>0, <2>5 DEF IndexTick, StoreTypeOK
    <2>6. CASE \E u \in Thread : Publish(u)
        BY <1>0, <2>6 DEF Publish, End, StoreTypeOK
    <2>7. QED
        BY <2>1, <2>2, <2>3, <2>4, <2>5, <2>6
<1>3. ASSUME NEW t \in Thread PROVE ThreadKnows(t)'
    <2>1. ThreadKnows(t)
        BY DEF StoreOK
    <2>2. QED
        BY <1>1, <1>2, <2>1 DEF ThreadKnows, Body
<1>4. \A t \in Thread : pc'[t] = "hset" <=> pc[t] = "hset"
    BY <1>2
<1>5. RecordOK'
    BY <1>1, <1>4 DEF StoreOK, RecordOK
<1>6. QED
    BY <1>3, <1>5

\* A thread reads the record.
LEMMA ReadKeepsStore ==
    ASSUME StoreOK, NEW t \in Thread, Read(t)
    PROVE  RecordOK' /\ \A u \in Thread : ThreadKnows(u)'
<1>0. StoreTypeOK /\ ThreadKnows(t) /\ job[t] \in Job /\ pc[t] = "read"
    BY DEF StoreOK, GreeksTypeOK, StoreTypeOK, Job, Read
<1>1. UNCHANGED <<latest, chain, newest, merged, clean, overlap>>
    BY DEF Read, store, history
<1>2. \A u \in Thread : u # t => pc'[u] = pc[u] /\ job'[u] = job[u]
    BY <1>0 DEF Read, End, StoreTypeOK
<1>3. ThreadKnows(t)'
    <2>1. CASE job[t].kind = "tick"
        <3>1. pc'[t] = "set" /\ job'[t] = Preserved(job[t], latest)
            BY <1>0, <2>1 DEF Read, StoreTypeOK
        <3>2. job[t].oi = 0
            BY <1>0, <2>1 DEF ThreadKnows
        <3>3. job'[t].kind = "tick" /\ (latest # NONE => job'[t].oi = latest.oi)
            BY <1>0, <2>1, <3>1, <3>2 DEF Preserved, Job, StoreTypeOK, Record
        <3>4. QED
            BY <1>1, <3>1, <3>3 DEF ThreadKnows
    <2>2. CASE job[t].kind # "tick" /\ latest # NONE
        <3>1. pc'[t] = "set" /\ job'[t] = Overlaid(job[t], latest)
            BY <1>0, <2>2 DEF Read, StoreTypeOK
        <3>2. job'[t].kind = job[t].kind /\ job'[t].ltp = latest.ltp
            BY <1>0, <3>1 DEF Overlaid, Job
        <3>3. QED
            BY <1>0, <1>1, <2>2, <3>1, <3>2 DEF ThreadKnows
    <2>3. CASE job[t].kind # "tick" /\ latest = NONE
        <3>1. pc'[t] = "idle"
            BY <1>0, <2>3 DEF Read, End, StoreTypeOK
        <3>2. QED
            BY <3>1 DEF ThreadKnows
    <2>4. QED
        BY <2>1, <2>2, <2>3
<1>4. ASSUME NEW u \in Thread, u # t PROVE ThreadKnows(u)'
    <2>1. ThreadKnows(u)
        BY DEF StoreOK
    <2>2. QED
        BY <1>1, <1>2, <1>4, <2>1 DEF ThreadKnows, Body
<1>5. \A u \in Thread : pc'[u] = "hset" <=> pc[u] = "hset"
    BY <1>0, <1>2 DEF Read, End, StoreTypeOK
<1>6. RecordOK'
    BY <1>1, <1>5 DEF StoreOK, RecordOK
<1>7. QED
    BY <1>3, <1>4, <1>6

\* A thread writes the record: what it writes over is what it read, or it was overlapped.
LEMMA SetLatestKeepsStore ==
    ASSUME StoreOK, NEW t \in Thread, SetLatest(t)
    PROVE  RecordOK' /\ \A u \in Thread : ThreadKnows(u)'
<1>0. StoreTypeOK /\ ThreadKnows(t) /\ job[t] \in Job /\ pc[t] = "set" /\ RecordOK
    BY DEF StoreOK, GreeksTypeOK, StoreTypeOK, Job, SetLatest
<1>1. /\ latest' = Body(t) /\ Body(t) # NONE
      /\ latest'.ltp = job[t].ltp /\ latest'.oi = job[t].oi
    BY <1>0, StoreBounds DEF SetLatest, Body, Job, Record
<1>2. job' = job /\ chain' = chain /\ pc' = [pc EXCEPT ![t] = "hset"]
    BY DEF SetLatest
<1>3. /\ Other(t) # t /\ Other(t) \in Thread
      /\ \A u \in Thread : u = t \/ u = Other(t)
    BY Threads
<1>4. overlap'[t] = overlap[t]
      /\ (overlap'[Other(t)] <=> overlap[Other(t)] \/ Writing(Other(t)))
    <2>1. overlap' = [overlap EXCEPT ![Other(t)] = @ \/ Writing(Other(t)),
                                     ![t] = @ /\ pc'[t] = "hset"]
        BY DEF SetLatest, Overlaps
    <2>2. pc'[t] = "hset" /\ overlap \in [Thread -> BOOLEAN]
        BY <1>0, <1>2 DEF StoreTypeOK
    <2>3. QED
        BY <1>3, <2>1, <2>2
<1>5. ThreadKnows(t)'
    <2>1. pc'[t] = "hset" /\ Body(t)' = Body(t) /\ job[t].kind # "none"
        BY <1>0, <1>2 DEF StoreTypeOK, Body, ThreadKnows
    <2>2. QED
        BY <1>1, <1>2, <2>1 DEF ThreadKnows
<1>6. ThreadKnows(Other(t))'
    <2>1. pc'[Other(t)] = pc[Other(t)]
        BY <1>0, <1>2, <1>3 DEF StoreTypeOK
    <2>2. pc'[Other(t)] \in {"set", "hset"} => overlap'[Other(t)]
        BY <1>4, <2>1 DEF Writing
    <2>3. ThreadKnows(Other(t))
        BY <1>3 DEF StoreOK
    <2>4. QED
        BY <1>2, <2>1, <2>2, <2>3 DEF ThreadKnows
<1>7. RecordOK'
    <2>1. pc'[t] = "hset"
        BY <1>0, <1>2 DEF StoreTypeOK
    <2>2. CASE overlap[t]
        <3>1. clean' = {}
            BY <2>2 DEF SetLatest
        <3>2. QED
            BY <3>1 DEF RecordOK
    <2>3. CASE ~overlap[t] /\ job[t].kind = "tick"
        <3>1. clean' = clean \cup {"ltp"} /\ newest' = job[t].ltp /\ merged' = merged
            BY <2>3 DEF SetLatest
        <3>2. latest # NONE => job[t].oi = latest.oi
            BY <1>0, <2>3 DEF ThreadKnows
        <3>3. "oi" \in clean' => latest' # NONE /\ latest'.oi = merged'
            BY <1>0, <1>1, <3>1, <3>2 DEF RecordOK
        <3>4. QED
            BY <1>1, <2>1, <3>1, <3>3 DEF RecordOK
    <2>4. CASE ~overlap[t] /\ job[t].kind # "tick"
        <3>1. clean' = clean \cup {"oi"} /\ merged' = job[t].oi /\ newest' = newest
            BY <2>4 DEF SetLatest
        <3>2. latest # NONE /\ job[t].ltp = latest.ltp
            BY <1>0, <2>4 DEF ThreadKnows
        <3>3. "ltp" \in clean' => latest' # NONE /\ latest'.ltp = newest'
            BY <1>0, <1>1, <3>1, <3>2 DEF RecordOK
        <3>4. QED
            BY <1>1, <2>1, <3>1, <3>3 DEF RecordOK
    <2>5. QED
        BY <2>2, <2>3, <2>4
<1>8. QED
    BY <1>3, <1>5, <1>6, <1>7

\* A thread writes the copy in the chain.
LEMMA SetChainKeepsStore ==
    ASSUME StoreOK, NEW t \in Thread, SetChain(t)
    PROVE  RecordOK' /\ \A u \in Thread : ThreadKnows(u)'
<1>0. StoreTypeOK /\ ThreadKnows(t) /\ pc[t] = "hset" /\ RecordOK
    BY DEF StoreOK, GreeksTypeOK, SetChain
<1>1. UNCHANGED <<latest, newest, merged>> /\ chain' = Body(t)
    BY DEF SetChain
<1>2. /\ Other(t) # t /\ Other(t) \in Thread
      /\ \A u \in Thread : u = t \/ u = Other(t)
    BY Threads
<1>3. /\ pc'[t] \in {"idle", "publish"}
      /\ pc'[Other(t)] = pc[Other(t)] /\ job'[Other(t)] = job[Other(t)]
    BY <1>0, <1>2 DEF SetChain, StoreTypeOK
<1>4. overlap'[Other(t)] <=> overlap[Other(t)] \/ Writing(Other(t))
    BY <1>0, <1>2 DEF SetChain, Overlaps, StoreTypeOK
<1>5. ThreadKnows(t)'
    BY <1>3 DEF ThreadKnows
<1>6. ThreadKnows(Other(t))'
    <2>1. ThreadKnows(Other(t))
        BY <1>2 DEF StoreOK
    <2>2. pc'[Other(t)] \in {"set", "hset"} => overlap'[Other(t)]
        BY <1>3, <1>4 DEF Writing
    <2>3. QED
        BY <1>3, <2>1, <2>2 DEF ThreadKnows
<1>7. RecordOK'
    <2>1. CASE overlap[t]
        <3>1. clean' = clean \ {"copies"}
            BY <2>1 DEF SetChain
        <3>2. QED
            BY <1>0, <1>1, <3>1 DEF RecordOK
    <2>2. CASE ~overlap[t]
        <3>1. clean' = clean \cup {"copies"} /\ chain' = latest
            BY <1>0, <1>1, <2>2 DEF SetChain, ThreadKnows
        <3>2. QED
            BY <1>0, <1>1, <3>1 DEF RecordOK
    <2>3. QED
        BY <2>1, <2>2
<1>8. QED
    BY <1>2, <1>5, <1>6, <1>7

\* A call raises: the field is as good as it was, and a half pipeline spoils everything.
LEMMA CallFailsKeepsStore ==
    ASSUME StoreOK, NEW t \in Thread, CallFails(t)
    PROVE  RecordOK' /\ \A u \in Thread : ThreadKnows(u)'
<1>0. StoreTypeOK /\ RecordOK
    BY DEF StoreOK, GreeksTypeOK
<1>1. UNCHANGED <<latest, chain, newest, merged>>
    BY DEF CallFails, store
<1>2. /\ pc'[t] = "idle"
      /\ \A u \in Thread : u # t => pc'[u] = pc[u] /\ job'[u] = job[u] /\ overlap'[u] = overlap[u]
    BY <1>0 DEF CallFails, End, StoreTypeOK
<1>3. ASSUME NEW u \in Thread PROVE ThreadKnows(u)'
    <2>1. ThreadKnows(u)
        BY DEF StoreOK
    <2>2. CASE u = t
        BY <1>2, <2>2 DEF ThreadKnows
    <2>3. CASE u # t
        BY <1>1, <1>2, <2>1, <2>3 DEF ThreadKnows, Body
    <2>4. QED
        BY <2>2, <2>3
<1>4. RecordOK'
    <2>1. CASE pc[t] = "hset"
        <3>1. clean' = {}
            BY <2>1 DEF CallFails
        <3>2. QED
            BY <3>1 DEF RecordOK
    <2>2. CASE pc[t] # "hset"
        <3>1. clean' = clean
            BY <2>2 DEF CallFails
        <3>2. \A u \in Thread : pc'[u] = "hset" <=> pc[u] = "hset"
            BY <1>2, <2>2
        <3>3. QED
            BY <1>0, <1>1, <3>1, <3>2 DEF RecordOK
    <2>3. QED
        BY <2>1, <2>2
<1>5. QED
    BY <1>3, <1>4

LEMMA StepStore == StoreOK /\ [GreeksNext]_greeksVars => StoreOK'
<1> SUFFICES ASSUME StoreOK, [GreeksNext]_greeksVars PROVE StoreOK'
    OBVIOUS
<1>1. GreeksTypeOK'
    BY StepStoreTypes DEF StoreOK
<1>2. RecordOK' /\ \A t \in Thread : ThreadKnows(t)'
    BY QuietKeepsStore, ReadKeepsStore, SetLatestKeepsStore, SetChainKeepsStore, CallFailsKeepsStore
       DEF GreeksNext, WriterNext, StoreNext, WriterStep
<1>3. QED
    BY <1>1, <1>2 DEF StoreOK

(***************************************************************************)
(* Without a race the two writers of a contract do not hurt each other     *)
(* (storage.py:76-141), for any number of quotes, polls and failures.      *)
(***************************************************************************)
THEOREM CleanFieldsStayCurrent == GreeksSpec => []CleanFieldsAreCurrent
<1>1. StoreOK => CleanFieldsAreCurrent
    BY DEF StoreOK, RecordOK, CleanFieldsAreCurrent
<1>2. GreeksInit => StoreOK
    BY InitStoreTypes DEF GreeksInit, StoreInit, StoreOK, RecordOK, ThreadKnows
<1>3. QED
    BY <1>1, <1>2, StepStore, PTL DEF GreeksSpec
----
(***************************************************************************)
(* The index ticks on their way to the greeks.  P gives the price of every *)
(* index tick by its number, and h is the number of the one the engine     *)
(* handled last: those after h are on the bus, each once and in order, or  *)
(* about to be published.                                                  *)
(***************************************************************************)
OnBus(n) == \E i \in 1..Len(bus) : bus[i].kind = "index" /\ bus[i].spot.n = n

Follows(h, P) ==
    /\ P[0] = 0 /\ lastSpot = P[h]
    /\ spot.price = P[indexTicks] /\ spot.n = indexTicks
    /\ pc["ws"] = "index" => h < indexTicks
    /\ \A i \in 1..Len(bus) : bus[i].kind = "index" =>
          /\ bus[i].spot.n \in (h + 1)..indexTicks
          /\ bus[i].spot.price = P[bus[i].spot.n]
          /\ pc["ws"] = "index" => bus[i].spot.n < indexTicks
    /\ \A i, j \in 1..Len(bus) :
          bus[i].kind = "index" /\ bus[j].kind = "index" /\ i < j => bus[i].spot.n < bus[j].spot.n
    /\ \A n \in (h + 1)..indexTicks : OnBus(n) \/ (pc["ws"] = "index" /\ n = indexTicks)

\* A jump can be seen from the prices, and reaches the greeks with its tick.
JumpOK(h, P) ==
    \A n \in jumps :
        /\ n \in 1..indexTicks
        /\ chain # NONE /\ Moved(P[n - 1], P[n]) /\ InAtmRange(P[n])
        /\ greeks >= n \/ n > h

QueueOK ==
    \E h \in 0..indexTicks, P \in [0..indexTicks -> Nat] : Follows(h, P) /\ JumpOK(h, P)

\* Only the callback publishes index ticks.
PollerOK == pc["oi"] # "index"

\* A chain that is there stays there.
LEMMA ChainStays ==
    ASSUME GreeksTypeOK, [GreeksNext]_greeksVars, chain # NONE
    PROVE  chain' # NONE
<1>1. \A t \in Thread : Body(t) # NONE
    BY StoreBounds DEF GreeksTypeOK, StoreTypeOK, Body, Record
<1>2. chain' = chain \/ \E t \in Thread : chain' = Body(t)
    BY DEF GreeksNext, WriterNext, StoreNext, EngineNext, Trade, OptionTick, Depth, PollOk, IndexTick,
           WriterStep, Read, SetLatest, SetChain, CallFails, Publish, OnOptionTick, OnIndexTick, Take,
           greeksVars, store
<1>3. QED
    BY <1>1, <1>2

\* A step that neither sets the spot nor touches the bus or the engine.
LEMMA OtherStepsKeepQueue ==
    ASSUME GreeksTypeOK, QueueOK, [GreeksNext]_greeksVars,
           UNCHANGED <<spot, indexTicks, bus, lastSpot, greeks, jumps>>,
           pc'["ws"] = "index" <=> pc["ws"] = "index"
    PROVE  QueueOK'
<1>1. PICK h \in 0..indexTicks, P \in [0..indexTicks -> Nat] : Follows(h, P) /\ JumpOK(h, P)
    BY DEF QueueOK
<1>2. Follows(h, P)'
    BY <1>1 DEF Follows, OnBus
<1>3. JumpOK(h, P)'
    BY <1>1, ChainStays DEF JumpOK
<1>4. QED
    BY <1>2, <1>3 DEF QueueOK

\* A spot is stored: it has the next number.
LEMMA IndexTickKeepsQueue ==
    ASSUME GreeksTypeOK, QueueOK, NEW p \in Spots, IndexTick(p), Jumps
    PROVE  QueueOK'
<1>0. StoreTypeOK /\ "ws" \in Thread /\ indexTicks \in Nat /\ p \in Nat \ {0}
    BY Threads, StoreBounds DEF GreeksTypeOK, StoreTypeOK
<1>1. PICK h \in 0..indexTicks, P \in [0..indexTicks -> Nat] : Follows(h, P) /\ JumpOK(h, P)
    BY DEF QueueOK
<1>2. PICK last, Q : last = indexTicks + 1 /\ Q = [n \in 0..last |-> IF n = last THEN p ELSE P[n]]
    OBVIOUS
<1>3. Q \in [0..last -> Nat] /\ Q[last] = p /\ \A n \in 0..indexTicks : Q[n] = P[n]
    BY <1>0, <1>2
<1>4. h \in 0..last /\ h < last /\ last \in Nat
    BY <1>0, <1>2
<1>5. /\ indexTicks' = last /\ spot'.price = p /\ spot'.n = last
      /\ pc["ws"] = "idle" /\ pc'["ws"] = "index"
      /\ UNCHANGED <<bus, chain, lastSpot, greeks>>
    BY <1>0, <1>2 DEF IndexTick, Jumps, engine, StoreTypeOK
<1>6. Follows(h, Q)'
    <2>1. Q[0] = 0 /\ lastSpot' = Q[h]
        BY <1>0, <1>1, <1>5, <1>3 DEF Follows
    <2>2. ASSUME NEW i \in 1..Len(bus), bus[i].kind = "index"
          PROVE  /\ bus[i].spot.n \in (h + 1)..last /\ bus[i].spot.price = Q[bus[i].spot.n]
                 /\ bus[i].spot.n < last
        <3>1. bus[i].spot.n \in (h + 1)..indexTicks /\ bus[i].spot.price = P[bus[i].spot.n]
            BY <1>1, <2>2 DEF Follows
        <3>2. bus[i].spot.n \in 0..indexTicks
            BY <1>0, <3>1
        <3>3. QED
            BY <1>0, <1>2, <1>3, <3>1, <3>2
    <2>3. \A n \in (h + 1)..last : OnBus(n) \/ n = last
        <3>1. \A n \in (h + 1)..last : n \in (h + 1)..indexTicks \/ n = last
            BY <1>0, <1>2
        <3>2. QED
            BY <1>1, <1>5, <3>1 DEF Follows
    <2>4. \A n : OnBus(n)' <=> OnBus(n)
        BY <1>5 DEF OnBus
    <2>5. QED
        BY <1>1, <1>5, <1>3, <1>4, <2>1, <2>2, <2>3, <2>4 DEF Follows
<1>7. JumpOK(h, Q)'
    <2>1. ASSUME NEW n \in jumps
          PROVE  /\ n \in 1..last /\ chain' # NONE /\ Moved(Q[n - 1], Q[n]) /\ InAtmRange(Q[n])
                 /\ greeks' >= n \/ n > h
        <3>1. /\ n \in 1..indexTicks /\ chain # NONE /\ Moved(P[n - 1], P[n]) /\ InAtmRange(P[n])
              /\ greeks >= n \/ n > h
            BY <1>1 DEF JumpOK
        <3>2. n \in 1..last /\ n \in 0..indexTicks /\ n - 1 \in 0..indexTicks
            BY <1>0, <1>2, <3>1
        <3>3. Q[n - 1] = P[n - 1] /\ Q[n] = P[n]
            BY <1>3, <3>2
        <3>4. QED
            BY <1>5, <3>1, <3>2, <3>3
    <2>2. CASE jumps' = jumps
        BY <1>5, <2>1, <2>2 DEF JumpOK
    <2>3. CASE jumps' # jumps
        <3>1. /\ jumps' = jumps \cup {last} /\ chain # NONE
              /\ spot.n = 0 \/ Distance(spot.price, p) >= Trigger
              /\ Distance(Strike, p) <= AtmRange
            BY <1>5, <2>3 DEF Jumps
        <3>2. Q[last - 1] = spot.price /\ Q[last] = p /\ last - 1 = indexTicks
            BY <1>0, <1>1, <1>2, <1>3 DEF Follows
        <3>3. spot.n = 0 => spot.price = 0
            BY <1>1 DEF Follows
        <3>4. Moved(Q[last - 1], Q[last]) /\ InAtmRange(Q[last])
            BY <3>1, <3>2, <3>3 DEF Moved, InAtmRange
        <3>5. last \in 1..last /\ last > h /\ chain' # NONE
            BY <1>0, <1>2, <1>5, <1>4, <3>1
        <3>6. \A n \in jumps' : n \in jumps \/ n = last
            BY <3>1
        <3>7. QED
            BY <1>5, <2>1, <3>4, <3>5, <3>6 DEF JumpOK
    <2>4. QED
        BY <2>2, <2>3
<1>8. h \in 0..indexTicks' /\ Q \in [0..indexTicks' -> Nat]
    BY <1>5, <1>3, <1>4
<1>9. QED
    BY <1>6, <1>7, <1>8 DEF QueueOK

\* A thread publishes: an index tick goes behind all those of the bus.
LEMMA PublishKeepsQueue ==
    ASSUME GreeksTypeOK, QueueOK, PollerOK, NEW t \in Thread, Publish(t), Jumps
    PROVE  QueueOK'
<1>0. /\ StoreTypeOK /\ "ws" \in Thread /\ indexTicks \in Nat
      /\ bus \in Seq(Message) /\ Len(bus) \in Nat
    <2>1. StoreTypeOK /\ indexTicks \in Nat /\ bus \in Seq(Message)
        BY DEF GreeksTypeOK, StoreTypeOK, Message
    <2>2. QED
        BY <2>1, Threads, LenProperties
<1>1. PICK h \in 0..indexTicks, P \in [0..indexTicks -> Nat] : Follows(h, P) /\ JumpOK(h, P)
    BY DEF QueueOK
<1>2. /\ UNCHANGED <<spot, chain, indexTicks, lastSpot, greeks>>
      /\ jumps' = jumps
    BY DEF Publish, Jumps, store, counts, engine
<1>3. PICK m \in Message : bus' = Append(bus, m) /\ \/ m.kind = "option" /\ pc[t] = "publish"
                                                    \/ m.kind = "index" /\ m.spot = spot
                                                       /\ pc[t] = "index"
    <2>1. spot \in Spot /\ NoSpot \in Spot
        BY <1>0, StoreBounds DEF StoreTypeOK, Spot, NoSpot
    <2>2. QED
        BY <2>1 DEF Publish, Message
<1>4. /\ Len(bus') = Len(bus) + 1 /\ bus'[Len(bus) + 1] = m
      /\ \A i \in 1..Len(bus) : bus'[i] = bus[i]
    BY <1>0, <1>3, AppendProperties
<1>5. \A i \in 1..Len(bus') : i \in 1..Len(bus) \/ i = Len(bus) + 1
    BY <1>0, <1>4
<1>6. pc'[t] = "idle" /\ \A u \in Thread : u # t => pc'[u] = pc[u]
    BY <1>0 DEF Publish, End, StoreTypeOK
<1>7. \A n : OnBus(n) => OnBus(n)'
    BY <1>0, <1>4 DEF OnBus
<1>8. CASE m.kind = "option"
    <2>1. pc'["ws"] = "index" <=> pc["ws"] = "index"
        BY <1>0, <1>3, <1>6, <1>8
    <2>2. Follows(h, P)'
        BY <1>1, <1>2, <1>4, <1>5, <1>7, <1>8, <2>1 DEF Follows
    <2>3. JumpOK(h, P)'
        BY <1>1, <1>2 DEF JumpOK
    <2>4. QED
        BY <1>2, <2>2, <2>3 DEF QueueOK
<1>9. CASE m.kind = "index"
    <2>1. t = "ws" /\ pc["ws"] = "index" /\ pc'["ws"] = "idle" /\ m.spot = spot
        BY <1>3, <1>6, <1>9 DEF PollerOK, Thread
    <2>2. /\ spot.n = indexTicks /\ spot.price = P[indexTicks] /\ h < indexTicks
          /\ lastSpot = P[h] /\ P[0] = 0
        BY <1>1, <2>1 DEF Follows
    <2>3. ASSUME NEW i \in 1..Len(bus'), bus'[i].kind = "index"
          PROVE  /\ bus'[i].spot.n \in (h + 1)..indexTicks
                 /\ bus'[i].spot.price = P[bus'[i].spot.n]
        <3>1. CASE i \in 1..Len(bus)
            BY <1>1, <1>4, <2>3, <3>1 DEF Follows
        <3>2. CASE i = Len(bus) + 1
            BY <1>0, <1>4, <2>1, <2>2, <3>2
        <3>3. QED
            BY <1>5, <3>1, <3>2
    <2>4. ASSUME NEW i \in 1..Len(bus'), NEW j \in 1..Len(bus'),
                 bus'[i].kind = "index", bus'[j].kind = "index", i < j
          PROVE  bus'[i].spot.n < bus'[j].spot.n
        <3>1. i \in 1..Len(bus)
            BY <1>0, <1>4, <2>4
        <3>2. CASE j \in 1..Len(bus)
            BY <1>1, <1>4, <2>4, <3>1, <3>2 DEF Follows
        <3>3. CASE j = Len(bus) + 1
            <4>1. bus'[j].spot.n = indexTicks
                BY <1>4, <2>1, <2>2, <3>3
            <4>2. bus'[i].spot.n < indexTicks
                BY <1>1, <1>4, <2>1, <2>4, <3>1 DEF Follows
            <4>3. QED
                BY <4>1, <4>2
        <3>4. QED
            BY <1>5, <3>2, <3>3
    <2>5. \A n : n = indexTicks => OnBus(n)'
        BY <1>0, <1>2, <1>4, <1>9, <2>1, <2>2 DEF OnBus
    <2>6. \A n \in (h + 1)..indexTicks : OnBus(n)'
        <3>1. \A n \in (h + 1)..indexTicks : OnBus(n) \/ n = indexTicks
            BY <1>1 DEF Follows
        <3>2. QED
            BY <1>7, <2>5, <3>1
    <2>7. Follows(h, P)'
        BY <1>2, <2>1, <2>2, <2>3, <2>4, <2>6 DEF Follows
    <2>8. JumpOK(h, P)'
        BY <1>1, <1>2 DEF JumpOK
    <2>9. QED
        BY <1>2, <2>7, <2>8 DEF QueueOK
<1>10. QED
    BY <1>3, <1>8, <1>9

\* The engine takes a message: the first index tick of the bus is the one after h.
LEMMA EngineKeepsQueue ==
    ASSUME GreeksTypeOK, QueueOK, EngineNext
    PROVE  QueueOK'
<1>0. /\ StoreTypeOK /\ indexTicks \in Nat /\ bus \in Seq(Message) /\ Len(bus) \in Nat
      /\ bus # <<>>
    <2>1. StoreTypeOK /\ indexTicks \in Nat /\ bus \in Seq(Message)
        BY DEF GreeksTypeOK, StoreTypeOK, Message
    <2>2. bus # <<>>
        BY DEF EngineNext, OnOptionTick, OnIndexTick, Take
    <2>3. QED
        BY <2>1, <2>2, LenProperties
<1>1. PICK h \in 0..indexTicks, P \in [0..indexTicks -> Nat] : Follows(h, P) /\ JumpOK(h, P)
    BY DEF QueueOK
<1>2. UNCHANGED <<spot, chain, indexTicks, pc>> /\ bus' = Tail(bus)
    BY DEF EngineNext, OnOptionTick, OnIndexTick, Take, store, writers, counts, threads
<1>3. /\ Len(bus') = Len(bus) - 1 /\ \A i \in 1..Len(bus') : bus'[i] = bus[i + 1]
      /\ Head(bus) = bus[1] /\ 1 \in 1..Len(bus)
    <2>1. Len(bus) # 0
        BY <1>0, EmptySeq
    <2>2. QED
        BY <1>0, <1>2, <2>1, HeadTailProperties
<1>4. \A i \in 1..Len(bus') : i + 1 \in 1..Len(bus)
    BY <1>0, <1>3
<1>5. \A i, j \in 1..Len(bus') : i < j => i + 1 < j + 1
    BY <1>0, <1>3
<1>6. \A i \in 1..Len(bus) : i = 1 \/ (i - 1 \in 1..Len(bus') /\ bus'[i - 1] = bus[i])
    <2>1. \A i \in 1..Len(bus) : i = 1 \/ (i - 1 \in 1..Len(bus') /\ (i - 1) + 1 = i)
        BY <1>0, <1>3
    <2>2. QED
        BY <1>3, <2>1
<1>7. ASSUME NEW i \in 1..Len(bus'), NEW j \in 1..Len(bus'),
             bus'[i].kind = "index", bus'[j].kind = "index", i < j
      PROVE  bus'[i].spot.n < bus'[j].spot.n
    BY <1>1, <1>3, <1>4, <1>5, <1>7 DEF Follows
<1>8. ASSUME NEW i \in 1..Len(bus'), bus'[i].kind = "index"
      PROVE  /\ bus'[i].spot.n \in (h + 1)..indexTicks
             /\ bus'[i].spot.price = P[bus'[i].spot.n]
             /\ pc["ws"] = "index" => bus'[i].spot.n < indexTicks
    BY <1>1, <1>3, <1>4, <1>8 DEF Follows
<1>9. \A n : OnBus(n) => OnBus(n)' \/ (bus[1].kind = "index" /\ bus[1].spot.n = n)
    BY <1>6 DEF OnBus
<1>10. greeks \in Nat /\ jumps \subseteq Nat
    BY StoreBounds DEF GreeksTypeOK
<1>11. CASE OnOptionTick
    <2>1. bus[1].kind = "option" /\ lastSpot' = lastSpot /\ jumps' = jumps
        BY <1>3, <1>11 DEF OnOptionTick, Take
    <2>2. greeks' = greeks \/ greeks' = indexTicks
        BY <1>1, <1>11 DEF OnOptionTick, Follows
    <2>3. Follows(h, P)'
        BY <1>1, <1>2, <1>7, <1>8, <1>9, <2>1 DEF Follows
    <2>4. ASSUME NEW n \in jumps PROVE greeks' >= n \/ n > h
        <3>1. n \in 1..indexTicks /\ (greeks >= n \/ n > h)
            BY <1>1 DEF JumpOK
        <3>2. QED
            BY <1>0, <1>10, <2>2, <3>1
    <2>5. JumpOK(h, P)'
        BY <1>1, <1>2, <2>1, <2>4 DEF JumpOK
    <2>6. QED
        BY <1>2, <2>3, <2>5 DEF QueueOK
<1>12. CASE OnIndexTick
    <2>0. bus[1].kind = "index" /\ Head(bus).spot = bus[1].spot
        BY <1>3, <1>12 DEF OnIndexTick, Take
    <2>1. /\ bus[1].spot.n \in (h + 1)..indexTicks
          /\ bus[1].spot.price = P[bus[1].spot.n]
          /\ pc["ws"] = "index" => bus[1].spot.n < indexTicks
        BY <1>1, <1>3, <2>0 DEF Follows
    <2>2. h + 1 \in (h + 1)..indexTicks
        BY <1>0, <2>1
    <2>3. bus[1].spot.n = h + 1
        <3>1. CASE OnBus(h + 1)
            <4>1. PICK i \in 1..Len(bus) : bus[i].kind = "index" /\ bus[i].spot.n = h + 1
                BY <3>1 DEF OnBus
            <4>2. i # 1 => bus[1].spot.n < h + 1
                <5>1. i # 1 => 1 < i
                    BY <1>0
                <5>2. QED
                    BY <1>1, <1>3, <2>0, <4>1, <5>1 DEF Follows
            <4>3. QED
                BY <1>0, <2>1, <4>1, <4>2
        <3>2. CASE pc["ws"] = "index" /\ h + 1 = indexTicks
            BY <1>0, <2>1, <3>2
        <3>3. QED
            BY <1>1, <2>2, <3>1, <3>2 DEF Follows
    <2>4. h + 1 \in 0..indexTicks /\ h + 1 \in Nat /\ h \in Nat
        BY <1>0, <2>2
    <2>5. /\ lastSpot' = P[h + 1]
          /\ jumps' = jumps \/ jumps' = jumps \ {h + 1}
          /\ greeks' = greeks \/ greeks' = h + 1
          /\ \/ ~(Moved(lastSpot, P[h + 1]) /\ chain # NONE /\ InAtmRange(P[h + 1]))
             \/ greeks' = h + 1
             \/ jumps' = jumps \ {h + 1}
        BY <1>12, <2>0, <2>1, <2>3 DEF OnIndexTick, Recompute
    <2>6. Follows(h + 1, P)'
        <3>1. ASSUME NEW i \in 1..Len(bus'), bus'[i].kind = "index"
              PROVE  bus'[i].spot.n \in (h + 1 + 1)..indexTicks
            <4>1. bus[i + 1].kind = "index" /\ i + 1 \in 1..Len(bus) /\ 1 < i + 1
                BY <1>0, <1>3, <1>4, <3>1
            <4>2. h + 1 < bus[i + 1].spot.n
                BY <1>1, <1>3, <2>0, <2>3, <4>1 DEF Follows
            <4>3. QED
                BY <1>3, <1>8, <2>4, <3>1, <4>2
        <3>2. \A n \in (h + 1 + 1)..indexTicks : n \in (h + 1)..indexTicks /\ n # h + 1
            BY <1>0, <2>4
        <3>3. \A n \in (h + 1 + 1)..indexTicks : OnBus(n)' \/ (pc["ws"] = "index" /\ n = indexTicks)
            BY <1>1, <1>9, <2>3, <3>2 DEF Follows
        <3>4. pc["ws"] = "index" => h + 1 < indexTicks
            BY <2>1, <2>3
        <3>5. P[0] = 0 /\ spot.price = P[indexTicks] /\ spot.n = indexTicks
            BY <1>1 DEF Follows
        <3>6. QED
            BY <1>2, <1>7, <1>8, <2>5, <3>1, <3>3, <3>4, <3>5 DEF Follows
    <2>7. JumpOK(h + 1, P)'
        <3>1. ASSUME NEW n \in jumps'
              PROVE  greeks' >= n \/ n > h + 1
            <4>1. n \in jumps /\ n \in Nat
                BY <1>10, <2>5
            <4>2. /\ Moved(P[n - 1], P[n]) /\ chain # NONE /\ InAtmRange(P[n])
                  /\ greeks >= n \/ n > h
                BY <1>1, <4>1 DEF JumpOK
            <4>3. CASE n = h + 1
                <5>1. n - 1 = h /\ lastSpot = P[h]
                    BY <1>1, <2>4, <4>3 DEF Follows
                <5>2. Moved(lastSpot, P[h + 1]) /\ chain # NONE /\ InAtmRange(P[h + 1])
                    BY <4>2, <4>3, <5>1
                <5>3. jumps' # jumps \ {h + 1}
                    BY <3>1, <4>3
                <5>4. greeks' = n
                    BY <2>5, <4>3, <5>2, <5>3
                <5>5. QED
                    BY <4>1, <5>4
            <4>4. CASE n # h + 1
                BY <1>10, <2>4, <2>5, <4>1, <4>2, <4>4
            <4>5. QED
                BY <4>3, <4>4
        <3>2. \A n \in jumps' : n \in jumps
            BY <2>5
        <3>3. QED
            BY <1>1, <1>2, <3>1, <3>2 DEF JumpOK
    <2>8. QED
        BY <1>2, <2>4, <2>6, <2>7 DEF QueueOK
<1>13. QED
    BY <1>11, <1>12 DEF EngineNext

LEMMA StepQueue ==
    GreeksTypeOK /\ QueueOK /\ PollerOK /\ [GreeksNext]_greeksVars => QueueOK' /\ PollerOK'
<1> SUFFICES ASSUME GreeksTypeOK, QueueOK, PollerOK, [GreeksNext]_greeksVars
             PROVE  QueueOK' /\ PollerOK'
    OBVIOUS
<1>0. StoreTypeOK /\ "ws" \in Thread /\ "oi" \in Thread
    BY Threads DEF GreeksTypeOK
<1>1. ASSUME WriterNext, \E p \in Spots : IndexTick(p) PROVE QueueOK' /\ PollerOK'
    <2>1. QueueOK'
        BY <1>1, IndexTickKeepsQueue DEF WriterNext
    <2>2. PollerOK'
        BY <1>0, <1>1 DEF IndexTick, PollerOK, StoreTypeOK
    <2>3. QED
        BY <2>1, <2>2
<1>2. ASSUME WriterNext, \E t \in Thread : Publish(t) PROVE QueueOK' /\ PollerOK'
    <2>1. QueueOK'
        BY <1>2, PublishKeepsQueue DEF WriterNext
    <2>2. PollerOK'
        BY <1>0, <1>2 DEF Publish, End, PollerOK, StoreTypeOK
    <2>3. QED
        BY <2>1, <2>2
<1>3. ASSUME EngineNext PROVE QueueOK' /\ PollerOK'
    <2>1. PollerOK'
        BY <1>3 DEF EngineNext, OnOptionTick, OnIndexTick, Take, writers, threads, PollerOK
    <2>2. QED
        BY <1>3, <2>1, EngineKeepsQueue
<1>4. ASSUME \/ /\ WriterNext
                /\ \/ Trade \/ OptionTick \/ Depth \/ PollOk
                   \/ \E t \in Thread : Read(t) \/ SetLatest(t) \/ SetChain(t) \/ CallFails(t)
             \/ UNCHANGED greeksVars
      PROVE  QueueOK' /\ PollerOK'
    <2>1. UNCHANGED <<spot, indexTicks, bus, lastSpot, greeks>>
        BY <1>4 DEF WriterNext, Trade, OptionTick, Depth, PollOk, Read, SetLatest, SetChain, CallFails,
                    Jumps, greeksVars, store, writers, counts, engine
    <2>2. jumps' = jumps
        BY <1>4, <2>1 DEF WriterNext, Jumps, greeksVars
    <2>3. \A u \in Thread : pc'[u] = "index" <=> pc[u] = "index"
        <3>1. CASE Trade \/ UNCHANGED greeksVars
            BY <3>1 DEF Trade, greeksVars, writers, threads
        <3>2. CASE OptionTick \/ Depth \/ PollOk
            BY <1>0, <3>2 DEF OptionTick, Depth, PollOk, Begin, StoreTypeOK
        <3>3. CASE \E t \in Thread : Read(t) \/ SetLatest(t) \/ SetChain(t) \/ CallFails(t)
            BY <1>0, <3>3 DEF Read, SetLatest, SetChain, CallFails, End, StoreTypeOK
        <3>4. QED
            BY <1>4, <3>1, <3>2, <3>3
    <2>4. QED
        BY <1>0, <2>1, <2>2, <2>3, OtherStepsKeepQueue DEF PollerOK
<1>5. QED
    BY <1>1, <1>2, <1>3, <1>4 DEF GreeksNext, WriterNext, StoreNext, WriterStep

(***************************************************************************)
(* No jump of the spot whose recomputation goes through is passed over     *)
(* (greeks.py:364-416), however the option messages, the polls and the     *)
(* failures fall between the index ticks, those of other recomputations    *)
(* among them: the ticks reach the engine each once and in order, and the  *)
(* spot it compares with is the one before, remembered failure or not.     *)
(***************************************************************************)
THEOREM JumpsReachTheGreeks == GreeksSpec => []NoJumpMissed
<1>1. GreeksTypeOK /\ QueueOK => NoJumpMissed
    <2> SUFFICES ASSUME GreeksTypeOK, QueueOK, bus = <<>>, pc["ws"] # "index"
                 PROVE  \A n \in jumps : greeks >= n
        BY DEF NoJumpMissed
    <2>1. PICK h \in 0..indexTicks, P \in [0..indexTicks -> Nat] : Follows(h, P) /\ JumpOK(h, P)
        BY DEF QueueOK
    <2>2. indexTicks \in Nat /\ Len(bus) = 0
        BY StoreBounds DEF GreeksTypeOK, StoreTypeOK
    <2>3. \A n : ~OnBus(n)
        BY <2>2 DEF OnBus
    <2>4. (h + 1)..indexTicks = {}
        BY <2>1, <2>3 DEF Follows
    <2>5. \A n \in 1..indexTicks : ~(n > h)
        <3>1. \A n \in 1..indexTicks : n > h => n \in (h + 1)..indexTicks
            BY <2>2
        <3>2. QED
            BY <2>4, <3>1
    <2>6. QED
        BY <2>1, <2>5 DEF JumpOK
<1>2. GreeksInit => QueueOK /\ PollerOK
    <2> SUFFICES ASSUME GreeksInit PROVE QueueOK /\ PollerOK
        OBVIOUS
    <2>1. PollerOK /\ pc["ws"] # "index"
        BY Threads DEF GreeksInit, StoreInit, PollerOK
    <2>2. /\ indexTicks = 0 /\ lastSpot = 0 /\ spot.price = 0 /\ spot.n = 0 /\ Len(bus) = 0
          /\ jumps = {} /\ greeks = 0
        BY DEF GreeksInit, StoreInit, NoSpot
    <2> DEFINE P == [n \in 0..0 |-> 0]
    <2>3. P \in [0..indexTicks -> Nat] /\ P[0] = 0 /\ 0 \in 0..indexTicks
        BY <2>2
    <2> HIDE DEF P
    <2>4. Follows(0, P) /\ JumpOK(0, P)
        BY <2>1, <2>2, <2>3 DEF Follows, JumpOK
    <2>5. QED
        BY <2>1, <2>3, <2>4 DEF QueueOK
<1>3. QED
    BY <1>1, <1>2, InitStoreTypes, StepStoreTypes, StepQueue, PTL DEF GreeksSpec
====
