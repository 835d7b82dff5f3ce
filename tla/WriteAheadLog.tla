---- MODULE WriteAheadLog ----
(***************************************************************************)
(* The write-ahead log of the ingest process (wal.py): the segments of one *)
(* directory, the counter file beside them, and the one writer.  An append *)
(* is a write, every FsyncEvery appends an fsync and a save of the         *)
(* counter; the process can die, or the machine lose its power, between    *)
(* any two of them.  A write is unbuffered, so that a process that dies    *)
(* leaves what it wrote to the kernel; a power loss takes what was not     *)
(* yet synced, and may leave the first lost line of a segment torn.        *)
(***************************************************************************)
EXTENDS Integers, Sequences, FiniteSets, FiniteSetsExt, SequencesExt

CONSTANTS
    FsyncEvery,   \* wal_fsync_every_n
    MaxAppends, MaxSegments, MaxDeaths, MaxFaults   \* bounds on the counters

ASSUME LogAssumption ==
    /\ FsyncEvery \in Nat /\ MaxAppends \in Nat
    /\ MaxSegments \in Nat \ {0} /\ MaxDeaths \in Nat /\ MaxFaults \in Nat

VARIABLES
    up,          \* the process runs
    deaths,      \* how often it was killed or lost its power
    powerLosses, \* how many of them were power losses
    faults,      \* calls to the disk that raised
    shorts,      \* writes that stored a part of their line and did not raise
    given,       \* appends begun so far: the number of the last record
    seq,         \* WALWriter._seq
    sinceSync,   \* WALWriter._since_sync
    handle,      \* whether WALWriter._file is open
    pc,          \* where the append is
    segments,    \* the files, oldest first
    seqFile,     \* the counter file .seq, 0 if there is none
    returned,    \* history: the records whose append returned
    counterLost  \* history: a process ended with its counter unsaved, or began without reading it

counts == <<deaths, powerLosses, faults, shorts>>
writer == <<seq, sinceSync, handle>>
vars == <<up, counts, given, writer, pc, segments, seqFile, returned, counterLost>>

(***************************************************************************)
(* A line of a segment: the number of its record, the seq field, and       *)
(* whether it parses.  A torn line has no newline: what is written next    *)
(* joins it and does not parse either.                                     *)
(***************************************************************************)
Line == [record : 0..MaxAppends, seq : 0..MaxAppends, whole : BOOLEAN]

Torn == [record |-> 0, seq |-> 0, whole |-> FALSE]

\* A segment: its lines, and how many of them are certainly on the disk.
EmptySegment == [lines |-> <<>>, synced |-> 0]

NextLine(lines, n, s) ==
    [record |-> n, seq |-> s, whole |-> lines = <<>> \/ lines[Len(lines)] # Torn]

Current == segments[Len(segments)]

WithCurrent(seg) == [segments EXCEPT ![Len(segments)] = seg]

Sync(seg) == [seg EXCEPT !.synced = Len(seg.lines)]

\* WALReader: one field of the lines that parse, segment by segment.
ReadLine(line, field) == IF line.whole THEN <<line[field]>> ELSE <<>>

ReadSegment(seg, field) ==
    LET read[n \in 0..Len(seg.lines)] ==
            IF n = 0 THEN <<>> ELSE read[n - 1] \o ReadLine(seg.lines[n], field)
    IN  read[Len(seg.lines)]

ReadAll(segs, field) ==
    LET read[k \in 0..Len(segs)] ==
            IF k = 0 THEN <<>> ELSE read[k - 1] \o ReadSegment(segs[k], field)
    IN  read[Len(segs)]

ReadRecords == ReadAll(segments, "record")

ReadSeqs == ReadAll(segments, "seq")
----
Init ==
    /\ up = TRUE /\ deaths = 0 /\ powerLosses = 0 /\ faults = 0 /\ shorts = 0
    /\ given = 0 /\ seq = 0 /\ sinceSync = 0 /\ handle = TRUE /\ pc = "idle"
    /\ segments = <<EmptySegment>> /\ seqFile = 0 /\ returned = {}
    /\ counterLost = FALSE

\* A call to the disk raises.
Fault ==
    /\ faults + shorts < MaxFaults
    /\ faults' = faults + 1
    /\ UNCHANGED <<deaths, powerLosses, shorts>>

Raises == Fault /\ pc' = "idle"

(***************************************************************************)
(* append: the rotation, if the date or the size asks for one.  One that   *)
(* fails, in the fsync of the old file or in opening the new one, leaves   *)
(* the writer without a file.                                              *)
(***************************************************************************)
Begin ==
    /\ up /\ pc = "idle" /\ given < MaxAppends
    /\ given' = given + 1

AppendHere ==
    /\ Begin /\ handle
    /\ seq' = seq + 1
    /\ pc' = "write"
    /\ UNCHANGED <<up, counts, sinceSync, handle, segments, seqFile, counterLost, returned>>

AppendRotating ==
    /\ Begin /\ handle /\ Len(segments) < MaxSegments
    /\ segments' = Append(WithCurrent(Sync(Current)), EmptySegment)
    /\ seq' = seq + 1
    /\ pc' = "write"
    /\ UNCHANGED <<up, counts, sinceSync, handle, seqFile, counterLost, returned>>

RotationFails ==
    /\ Begin /\ handle /\ Len(segments) < MaxSegments
    /\ Raises
    /\ handle' = FALSE
    /\ \/ UNCHANGED segments
       \/ segments' = WithCurrent(Sync(Current))
    /\ UNCHANGED <<up, seq, sinceSync, seqFile, counterLost, returned>>

\* "assert self._file is not None": the number is used up, nothing is written.
AppendRefused ==
    /\ Begin /\ ~handle
    /\ seq' = seq + 1
    /\ UNCHANGED <<up, counts, sinceSync, handle, pc, segments, seqFile, counterLost, returned>>

\* Mutant of SyncIsDue: one append later than configured.
SyncIsDueLate(unsynced) == unsynced > FsyncEvery

SyncIsDue(unsynced) == FsyncEvery = 0 \/ unsynced >= FsyncEvery

\* Mutant of PutLine: the append returns before its line is in the file.
PutLineAfterReturn(line) ==
    /\ sinceSync' = sinceSync + 1
    /\ IF SyncIsDue(sinceSync')
       THEN /\ pc' = "sync" /\ UNCHANGED returned
            /\ segments' = WithCurrent([Current EXCEPT !.lines = Append(@, line)])
       ELSE /\ pc' = "idle" /\ returned' = returned \cup {given}
            /\ UNCHANGED segments

\* The line is in the kernel's hands; the append returns, or goes on to sync.
PutLine(line) ==
    /\ segments' = WithCurrent([Current EXCEPT !.lines = Append(@, line)])
    /\ sinceSync' = sinceSync + 1
    /\ IF SyncIsDue(sinceSync')
       THEN pc' = "sync" /\ UNCHANGED returned
       ELSE pc' = "idle" /\ returned' = returned \cup {given}

WriteRecord ==
    /\ up /\ pc = "write"
    /\ PutLine(NextLine(Current.lines, given, seq))
    /\ UNCHANGED <<up, counts, given, seq, handle, seqFile, counterLost>>

\* An unbuffered write may store a part of the line; its return value is ignored.
WriteShort ==
    /\ up /\ pc = "write"
    /\ faults + shorts < MaxFaults
    /\ shorts' = shorts + 1
    /\ PutLine(Torn)
    /\ UNCHANGED <<up, deaths, powerLosses, faults, given, seq, handle, seqFile, counterLost>>

SyncFile ==
    /\ up /\ pc = "sync"
    /\ segments' = WithCurrent(Sync(Current))
    /\ pc' = "persist"
    /\ UNCHANGED <<up, counts, given, writer, seqFile, counterLost, returned>>

PersistSeq ==
    /\ up /\ pc = "persist"
    /\ seqFile' = seq /\ sinceSync' = 0
    /\ pc' = "idle" /\ returned' = returned \cup {given}
    /\ UNCHANGED <<up, counts, given, seq, handle, segments, counterLost>>

\* The write, the fsync or the saving of the counter raises: the append does not return.
DiskFails ==
    /\ up /\ pc \in {"write", "sync", "persist"}
    /\ Raises
    /\ UNCHANGED <<up, given, writer, segments, seqFile, counterLost, returned>>
----
\* Mutant of CloseWriter: the counter is not saved.
CloseWithoutSeq ==
    /\ up /\ pc = "idle"
    /\ segments' = IF handle THEN WithCurrent(Sync(Current)) ELSE segments
    /\ up' = FALSE
    /\ UNCHANGED <<counts, given, writer, pc, seqFile, counterLost, returned>>

\* close(), at the end of a shutdown: the counter, then the file, whose fsync may raise.
CloseWriter ==
    /\ up /\ pc = "idle"
    /\ seqFile' = seq
    /\ \/ /\ segments' = IF handle THEN WithCurrent(Sync(Current)) ELSE segments
          /\ UNCHANGED counts
       \/ handle /\ Fault /\ UNCHANGED segments
    /\ up' = FALSE
    /\ UNCHANGED <<given, writer, pc, counterLost, returned>>

(***************************************************************************)
(* close() raised where it saves the counter: the file was neither synced  *)
(* nor closed, and appends may have gone on until the process ended.       *)
(***************************************************************************)
CloseFails ==
    /\ up /\ Raises
    /\ up' = FALSE
    /\ counterLost' = (counterLost \/ seqFile # seq)
    /\ UNCHANGED <<given, writer, segments, seqFile, returned>>

\* The process is killed: what it wrote stays with the kernel.
Kill ==
    /\ up /\ deaths < MaxDeaths
    /\ deaths' = deaths + 1
    /\ up' = FALSE /\ pc' = "idle"
    /\ UNCHANGED <<powerLosses, faults, shorts, given, writer, segments, seqFile, counterLost, returned>>

\* What a power loss leaves of a segment.
Remains(seg) ==
    {[lines |-> lines, synced |-> Len(lines)] : lines \in
        LET kept == {SubSeq(seg.lines, 1, k) : k \in seg.synced..Len(seg.lines)}
        IN  kept \cup {Append(lines, Torn) : lines \in kept \ {seg.lines}}}

\* The counter file, replaced but never synced, may be an older one or empty.
PowerLoss ==
    /\ deaths < MaxDeaths
    /\ deaths' = deaths + 1 /\ powerLosses' = powerLosses + 1
    /\ up' = FALSE /\ pc' = "idle"
    /\ \E left \in [DOMAIN segments -> UNION {Remains(segments[k]) : k \in DOMAIN segments}] :
            /\ \A k \in DOMAIN segments : left[k] \in Remains(segments[k])
            /\ segments' = left
    /\ \E s \in 0..seqFile : seqFile' = s
    /\ UNCHANGED <<faults, shorts, given, writer, counterLost, returned>>

\* Mutant of OpenFile: the file is opened for writing, not for appending.
OpenFileEmpty(fresh) ==
    /\ segments' = IF fresh THEN Append(segments, EmptySegment) ELSE WithCurrent(EmptySegment)

\* _open_current_file: the newest segment, or a new one if the date or its size says so.
OpenFile(fresh) ==
    segments' = IF fresh THEN Append(segments, EmptySegment) ELSE segments

\* _load_seq: a counter file that cannot be read or parsed counts for none.
LoadSeq ==
    \/ seq' = seqFile /\ UNCHANGED <<counts, counterLost>>
    \/ seq' = 0 /\ counterLost' = (counterLost \/ seqFile # 0) /\ Fault

\* WALWriter.__init__ of the next process.
Open ==
    /\ ~up
    /\ up' = TRUE
    /\ LoadSeq /\ sinceSync' = 0 /\ handle' = TRUE
    /\ \E fresh \in BOOLEAN :
            /\ fresh => Len(segments) < MaxSegments
            /\ OpenFile(fresh)
    /\ UNCHANGED <<given, pc, seqFile, returned>>

AppendStep ==
    \/ AppendHere \/ AppendRotating \/ RotationFails \/ AppendRefused
    \/ WriteRecord \/ WriteShort \/ SyncFile \/ PersistSeq \/ DiskFails

Next == AppendStep \/ CloseWriter \/ CloseFails \/ Kill \/ PowerLoss \/ Open

Spec == Init /\ [][Next]_vars
----
(***************************************************************************)
(* Properties.                                                             *)
(***************************************************************************)

TypeOK ==
    /\ up \in BOOLEAN /\ handle \in BOOLEAN /\ counterLost \in BOOLEAN
    /\ deaths \in 0..MaxDeaths /\ powerLosses \in 0..deaths
    /\ faults \in 0..MaxFaults /\ shorts \in 0..MaxFaults
    /\ given \in 0..MaxAppends /\ seq \in 0..MaxAppends /\ seqFile \in 0..MaxAppends
    /\ sinceSync \in 0..MaxAppends
    /\ pc \in {"idle", "write", "sync", "persist"}
    /\ returned \subseteq 1..MaxAppends
    /\ segments # <<>> /\ \A k \in DOMAIN segments :
            /\ segments[k].lines \in Seq(Line)
            /\ segments[k].synced \in 0..Len(segments[k].lines)

Lost == returned \ ToSet(ReadRecords)

(***************************************************************************)
(* "No tick is processed before it hits disk" (README.md:11): a record     *)
(* whose append returned is read back whatever kills the process at        *)
(* whatever step, as long as the machine stays up and the disk has room.   *)
(***************************************************************************)
ReturnedSurvivesKill == powerLosses = 0 /\ shorts = 0 => Lost = {}

(***************************************************************************)
(* How much a death can cost: the records since the last sync, and the one *)
(* that is written onto a torn line.  A kill counts too: its successor     *)
(* starts counting to FsyncEvery from zero, with what the dead process     *)
(* wrote still unsynced; and so does a rotation whose fsync raised, after  *)
(* which close() syncs nothing, and so does a close that raised.  A short  *)
(* write costs its record and the next.                                    *)
(***************************************************************************)
LossIsBounded ==
    Cardinality(Lost) <= (deaths + faults) * Max({1, FsyncEvery}) + 2 * shorts

(***************************************************************************)
(* The seq fields ascend across all segments and restarts, whatever calls  *)
(* to the disk raised in between, as long as no process was killed and the *)
(* counter was never lost: every process that ended had saved the last     *)
(* number it used, and every process that began could read it.             *)
(***************************************************************************)
SeqAscendsWhileCounted ==
    LET seqs == ReadSeqs
    IN  deaths = 0 /\ ~counterLost => \A m, n \in DOMAIN seqs : m < n => seqs[m] < seqs[n]

Promise == INSTANCE AppendLog
            WITH Records <- 1..MaxAppends, records <- ReadRecords, losses <- powerLosses

\* The log implements what it promises its readers.
ImplementsAppendLog == Promise!Spec
====
