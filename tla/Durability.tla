----------------------------- MODULE Durability -----------------------------
(***************************************************************************)
(* How one shard keeps its orders: the sequencer numbers a command and     *)
(* appends it to the segmented journal before anyone sees it, the snapshot *)
(* thread writes shadow books beside it, and after a stop, a kill, a power *)
(* loss or an I/O error the recovery manager rebuilds the book from the    *)
(* newest snapshot and the journal's tail, and hands the writer the place  *)
(* to continue.                                                            *)
(*                                                                         *)
(* A book is a deterministic function of the commands applied to it, so it *)
(* is represented by their sequence: two books are told apart exactly when *)
(* they executed different commands.  A segment file is named by its first *)
(* sequence number, so segs is indexed by it and the directory order the   *)
(* reader sorts into is the numeric one.  A file holds whole records and   *)
(* Torn, a stretch of bytes no reader accepts as a record.  Everything     *)
(* past "synced" is only in the page cache: a killed process leaves it,    *)
(* a power loss keeps any prefix of it.                                    *)
(***************************************************************************)
EXTENDS Integers, Sequences, FiniteSets, SequencesExt, FiniteSetsExt

CONSTANTS Commands,     \* the commands clients send
          MaxSeq,       \* bound on sequence numbers
          MaxFaults,    \* bound on kills, power losses and I/O errors
          RollRecords,  \* records a segment takes before it is rolled (rollBytes_)
          RingCapacity, \* slots of the inbound ring
          Retention,    \* snapshots kept by prune()
          Settings,     \* the deployments considered: application, group size, possible faults
          NoFile, Torn

Seqs == 1 .. MaxSeq

Apps == {"live", "gateway"}

Faults == {"Kill", "PowerLoss", "IoError"}

\* velox_live submits with Sequencer::submit and stops on a durability failure; velox_gateway
\* submits with trySubmit, rejects the order and goes on.  group is the journal's groupSize_:
\* FsyncPolicy::PerRecord is group 1.
ASSUME SettingsAssumption ==
    /\ Settings \subseteq [app : Apps, group : 1 .. MaxSeq, faults : SUBSET Faults]
    /\ \A s \in Settings : s.app = "gateway" => s.group = 1

ASSUME BoundsAssumption ==
    /\ {MaxSeq, RollRecords, RingCapacity, Retention} \subseteq Nat \ {0}
    /\ MaxFaults \in Nat
    /\ {NoFile, Torn} \cap Commands = {} /\ NoFile # Torn

VARIABLES
    setting,   \* the deployment this behaviour is about
    faults,    \* faults so far
    up,        \* is the process running
    \* on disk
    segs,      \* journal directory: first sequence number -> segment file
    snaps,     \* snapshot directory: sequence number -> the commands of the saved book
    snapDir,   \* the snapshots whose directory entry is durable
    \* the sequencer thread: Sequencer and JournalWriter
    pc, command, seq,
    fd,        \* the segment open for appending, 0 for none
    written,   \* records in the open segment, as bytesInSegment_ counts them
    pending,   \* pendingUnsynced_
    counter,   \* createdCounter_
    \* the inbound ring and the matching thread
    ring, book,
    \* the snapshot thread
    snapPc, requested, lastDone, target, shadow,
    \* history
    acked,     \* the acknowledgements clients hold
    doubt      \* the number where a recovery failed to cut off a torn record, MaxSeq + 1 if none did

disk == <<segs, snaps, snapDir>>
writer == <<fd, written, pending, counter>>
sequencer == <<pc, command, seq>>
engine == <<ring, book>>
snapshotter == <<snapPc, requested, lastDone, target, shadow>>
vars == <<setting, faults, up, disk, writer, sequencer, engine, snapshotter, acked, doubt>>

NewSegment == [header |-> "none", counter |-> 0, records |-> <<>>, synced |-> 0]

\* A process that has not recovered yet: nothing in memory.
NoMemory ==
    /\ pc = "idle" /\ command = NoFile /\ seq = 0
    /\ fd = 0 /\ written = 0 /\ pending = 0 /\ counter = 0
    /\ ring = <<>> /\ book = <<>>
    /\ snapPc = "idle" /\ requested = 0 /\ lastDone = 0 /\ target = 0 /\ shadow = <<>>

Init ==
    /\ setting \in Settings
    /\ faults = 0 /\ up = FALSE
    /\ segs = [n \in Seqs |-> NoFile]
    /\ snaps = [n \in Seqs |-> NoFile] /\ snapDir = {}
    /\ NoMemory
    /\ acked = {} /\ doubt = MaxSeq + 1

-----------------------------------------------------------------------------
(* The journal as its reader sees it. *)

\* JournalReader::openSegmentAtIndex skips a file whose header is missing or incomplete.
Readable(n) == segs[n] # NoFile /\ segs[n].header # "none"

\* The records of all readable segments in file order, each with where it was found.
Stream ==
    FlattenSeq([n \in Seqs |->
        IF Readable(n)
        THEN [i \in DOMAIN segs[n].records |-> [seg |-> n, pos |-> i, item |-> segs[n].records[i]]]
        ELSE <<>>])

\* JournalReader::next accepts a record whose number is one more than the last accepted, so the
\* i-th of the stream must carry number i; it stops at the first that does not.
GoodLength(stream) ==
    Max({k \in 0 .. Len(stream) :
            \A i \in 1 .. k : stream[i].item # Torn /\ stream[i].item.seq = i})

Journal ==
    LET stream == Stream
    IN  [i \in 1 .. GoodLength(stream) |-> stream[i].item.command]

ReadStatus ==
    LET stream == Stream
        good == GoodLength(stream)
    IN  CASE good = Len(stream) -> "EndOfJournal"
          [] good < Len(stream) /\ stream[good + 1].item = Torn -> "TruncatedTail"
          [] OTHER -> "Corrupt"

-----------------------------------------------------------------------------
(* JournalWriter::append, step by step, as Sequencer::submit and trySubmit call it. *)

\* fsync of one file: what was written to it is durable, its header included.
Flushed(n) ==
    [segs EXCEPT ![n].synced = Len(segs[n].records),
                 ![n].header = IF @ = "none" THEN "none" ELSE "synced"]

\* Wrong: the flush comes one record late.
SyncDueOneLate(unsynced) == unsynced > setting.group

\* append() fsyncs once groupSize_ records are waiting.
SyncDue(unsynced) == unsynced >= setting.group

\* The number of the next command; append() names a new segment by it.
MySeq == seq + 1

StartAppend(c) ==
    /\ up /\ pc = "idle" /\ seq < MaxSeq
    /\ command' = c
    /\ pc' = IF fd = 0 THEN "create" ELSE IF written >= RollRecords THEN "roll" ELSE "write"
    /\ UNCHANGED <<setting, faults, up, disk, writer, seq, engine, snapshotter, acked, doubt>>

\* submit() journals first and waits for ring space afterwards.
Submit(c) == setting.app = "live" /\ StartAppend(c)

\* trySubmit() claims a slot first; RingFull changes nothing.
TrySubmit(c) == setting.app = "gateway" /\ Len(ring) < RingCapacity /\ StartAppend(c)

\* rollSegment(): flush and close the full segment.
RollSegment ==
    /\ up /\ pc = "roll"
    /\ segs' = Flushed(fd)
    /\ pending' = 0 /\ fd' = 0
    /\ pc' = "create"
    /\ UNCHANGED <<setting, faults, up, snaps, snapDir, written, counter, command, seq, engine,
                   snapshotter, acked, doubt>>

\* openSegment(): the file appears, emptied if it was there (O_TRUNC), ...
CreateSegment ==
    /\ up /\ pc = "create"
    /\ segs' = [segs EXCEPT ![MySeq] = NewSegment]
    /\ fd' = MySeq
    /\ pc' = "header"
    /\ UNCHANGED <<setting, faults, up, snaps, snapDir, written, pending, counter, command, seq,
                   engine, snapshotter, acked, doubt>>

\* ... its header is written with the next creation number, ...
WriteHeader ==
    /\ up /\ pc = "header"
    /\ segs' = [segs EXCEPT ![fd].header = "written", ![fd].counter = counter]
    /\ counter' = counter + 1
    /\ written' = 0
    /\ pc' = "headersync"
    /\ UNCHANGED <<setting, faults, up, snaps, snapDir, fd, pending, command, seq, engine,
                   snapshotter, acked, doubt>>

\* ... and flushed.
SyncHeader ==
    /\ up /\ pc = "headersync"
    /\ segs' = Flushed(fd)
    /\ pc' = "write"
    /\ UNCHANGED <<setting, faults, up, snaps, snapDir, writer, command, seq, engine, snapshotter,
                   acked, doubt>>

WriteRecord ==
    /\ up /\ pc = "write"
    /\ segs' = [segs EXCEPT ![fd].records = Append(@, [seq |-> MySeq, command |-> command])]
    /\ written' = written + 1
    /\ pending' = pending + 1
    /\ pc' = IF SyncDue(pending + 1) THEN "sync" ELSE "publish"
    /\ UNCHANGED <<setting, faults, up, snaps, snapDir, fd, counter, command, seq, engine,
                   snapshotter, acked, doubt>>

SyncRecord ==
    /\ up /\ pc = "sync"
    /\ segs' = Flushed(fd)
    /\ pending' = 0
    /\ pc' = "publish"
    /\ UNCHANGED <<setting, faults, up, snaps, snapDir, fd, written, counter, command, seq, engine,
                   snapshotter, acked, doubt>>

\* Only now does the counter advance and the command become visible to the matching thread.
Publish ==
    /\ up /\ pc = "publish" /\ Len(ring) < RingCapacity
    /\ seq' = MySeq
    /\ ring' = Append(ring, command)
    /\ pc' = "ack"
    /\ UNCHANGED <<setting, faults, up, disk, writer, command, book, snapshotter, acked, doubt>>

\* The client is told.  velox_live prints ACK after the matching thread has executed the command,
\* and then may ask for a snapshot (snapshotEvery); the gateway answers at once.
Ack ==
    /\ up /\ pc = "ack"
    /\ setting.app = "live" => ring = <<>>
    /\ acked' = acked \cup {<<seq, command>>}
    /\ requested' \in {requested} \cup (IF setting.app = "live" THEN {seq} ELSE {})
    /\ command' = NoFile
    /\ pc' = "idle"
    /\ UNCHANGED <<setting, faults, up, disk, writer, seq, engine, snapPc, lastDone, target, shadow,
                   doubt>>

\* MatchingThread::dispatch executes the oldest command of the ring.
Dispatch ==
    /\ up /\ ring # <<>>
    /\ book' = Append(book, Head(ring))
    /\ ring' = Tail(ring)
    /\ UNCHANGED <<setting, faults, up, disk, writer, sequencer, snapshotter, acked, doubt>>

\* velox_live stops; the gateway rejects the order, closes that session and serves the next one.
AfterFailure == IF setting.app = "live" THEN "exit" ELSE "idle"

\* A system call of append() fails: submit() returns 0, trySubmit() DurabilityFailure.  A short
\* write may leave bytes behind; the file position stays after them.
AppendFails ==
    /\ up /\ "IoError" \in setting.faults /\ faults < MaxFaults
    /\ faults' = faults + 1
    /\ \/ /\ pc \in {"roll", "create", "headersync", "sync"}
          /\ UNCHANGED <<segs, writer>>
       \/ /\ pc = "header"
          /\ counter' = counter + 1
          /\ fd' = 0
          /\ UNCHANGED <<segs, written, pending>>
       \/ /\ pc = "write"
          /\ segs' \in {segs, [segs EXCEPT ![fd].records = Append(@, Torn)]}
          /\ UNCHANGED writer
    /\ command' = NoFile
    /\ pc' = AfterFailure
    /\ UNCHANGED <<setting, up, snaps, snapDir, seq, engine, snapshotter, acked, doubt>>

-----------------------------------------------------------------------------
(* SnapshotThread::run, and SnapshotWriter::write under it. *)

\* Wrong: the target itself is left out.
ReplayUpToShort(n) == SubSeq(Journal, 1, n - 1)

\* replayUpTo() stops before the first record past the target.
ReplayUpTo(n) == SubSeq(Journal, 1, IF n < Len(Journal) THEN n ELSE Len(Journal))

\* Replay the journal from the start into a fresh book and write it to snap.tmp, flushed.  The
\* records up to the target were complete before it was requested, so when the reader opens the
\* files does not matter; snap.tmp is invisible to recovery.
SnapshotReplay ==
    /\ up /\ snapPc = "idle" /\ requested > lastDone
    /\ target' = requested
    /\ shadow' = ReplayUpTo(requested)
    /\ snapPc' = "rename"
    /\ UNCHANGED <<setting, faults, up, disk, writer, sequencer, engine, requested, lastDone,
                   acked, doubt>>

SnapshotRename ==
    /\ up /\ snapPc = "rename"
    /\ snaps' = [snaps EXCEPT ![target] = shadow]
    /\ snapPc' = "prune"
    /\ UNCHANGED <<setting, faults, up, segs, snapDir, writer, sequencer, engine, requested,
                   lastDone, target, shadow, acked, doubt>>

\* The newest Retention snapshots.
Kept ==
    LET present == {n \in Seqs : snaps[n] # NoFile}
    IN  {n \in present : Cardinality({m \in present : m >= n}) <= Retention}

\* Flush the directory, then prune, then report success to run().
SnapshotPrune ==
    /\ up /\ snapPc = "prune"
    /\ snaps' = [n \in Seqs |-> IF n \in Kept THEN snaps[n] ELSE NoFile]
    /\ snapDir' = Kept
    /\ lastDone' = target
    /\ target' = 0 /\ shadow' = <<>>
    /\ snapPc' = "idle"
    /\ UNCHANGED <<setting, faults, up, segs, writer, sequencer, engine, requested, acked, doubt>>

\* Wrong: the request counts as served.
DoneAfterFailureToo(n) == n

\* A write, flush or rename fails: snap.tmp is removed and run() tries again on its next turn.
DoneAfterFailure(n) == lastDone
SnapshotFails ==
    /\ up /\ snapPc = "rename" /\ "IoError" \in setting.faults /\ faults < MaxFaults
    /\ faults' = faults + 1
    /\ lastDone' = DoneAfterFailure(target)
    /\ target' = 0 /\ shadow' = <<>>
    /\ snapPc' = "idle"
    /\ UNCHANGED <<setting, up, disk, writer, sequencer, engine, requested, acked, doubt>>

-----------------------------------------------------------------------------
(* Ends of the process. *)

\* Everything in memory is gone; the disk is as the ending left it.
LoseMemory ==
    /\ up' = FALSE
    /\ pc' = "idle" /\ command' = NoFile /\ seq' = 0
    /\ fd' = 0 /\ written' = 0 /\ pending' = 0 /\ counter' = 0
    /\ ring' = <<>> /\ book' = <<>>
    /\ snapPc' = "idle" /\ requested' = 0 /\ lastDone' = 0 /\ target' = 0 /\ shadow' = <<>>

\* The end of input, or the stop after a durability failure: the snapshot thread is joined and
\* ~JournalWriter flushes the open segment, ignoring whether that works.
Exit ==
    /\ up /\ pc \in {"idle", "exit"} /\ snapPc = "idle"
    /\ LET flushed == IF fd = 0 THEN segs ELSE Flushed(fd)
       IN  segs' \in {flushed} \cup (IF pc = "exit" THEN {segs} ELSE {})
    /\ LoseMemory
    /\ UNCHANGED <<setting, faults, snaps, snapDir, acked, doubt>>

\* The process dies and the operating system lives on: the page cache reaches the files, a
\* record being written may be cut short.
Kill ==
    /\ up /\ "Kill" \in setting.faults /\ faults < MaxFaults
    /\ faults' = faults + 1
    /\ segs' \in {segs} \cup
           (IF pc = "write" THEN {[segs EXCEPT ![fd].records = Append(@, Torn)]} ELSE {})
    /\ LoseMemory
    /\ UNCHANGED <<setting, snaps, snapDir, acked, doubt>>

\* What a power loss can leave of a segment file: of the records past the last flush a prefix,
\* the next of them possibly in part; of a header not flushed anything, or no file.
AfterPowerLoss(file) ==
    IF file = NoFile THEN {NoFile}
    ELSE LET n == Len(file.records)
             prefixes == {SubSeq(file.records, 1, k) : k \in file.synced .. n}
             parts == {Append(SubSeq(file.records, 1, k), Torn) : k \in file.synced .. n - 1}
             whole == {[file EXCEPT !.header = "synced", !.records = r, !.synced = Len(r)] :
                          r \in prefixes \cup parts}
         IN  CASE file.header = "synced"  -> whole
               [] file.header = "written" -> whole \cup {NoFile, NewSegment}
               [] file.header = "none"    -> {NoFile, NewSegment}

PowerLoss ==
    /\ "PowerLoss" \in setting.faults /\ faults < MaxFaults
    /\ faults' = faults + 1
    /\ segs' \in {f \in [Seqs -> UNION {AfterPowerLoss(segs[n]) : n \in Seqs}] :
                     \A n \in Seqs : f[n] \in AfterPowerLoss(segs[n])}
    /\ \E lost \in SUBSET ({n \in Seqs : snaps[n] # NoFile} \ snapDir) :
           snaps' = [n \in Seqs |-> IF n \in lost THEN NoFile ELSE snaps[n]]
    /\ snapDir' = {n \in Seqs : snaps'[n] # NoFile}
    /\ LoseMemory
    /\ UNCHANGED <<setting, acked, doubt>>

-----------------------------------------------------------------------------
(* Shard::recoverAndStart and RecoveryManager::recover. *)

\* SnapshotReader::loadNewestValid: a snapshot is complete before its rename, so the newest
\* file is valid.
SnapshotSeq == Max({0} \cup {n \in Seqs : snaps[n] # NoFile})

Snapshot == IF SnapshotSeq = 0 THEN <<>> ELSE snaps[SnapshotSeq]

\* Wrong: the last record the snapshot covers is applied again.
TailAfterInclusive(n) == SubSeq(Journal, IF n = 0 THEN 1 ELSE n, Len(Journal))

\* recover() skips the records the snapshot covers and applies the rest.
TailAfter(n) == SubSeq(Journal, n + 1, Len(Journal))

\* Wrong: the records replayed after the snapshot are not counted.
LastAppliedOfSnapshot(n) == n

\* The last sequence number the rebuilt book accounts for; the sequencer continues from it.
LastApplied(n) == IF Len(Journal) > n THEN Len(Journal) ELSE n

\* The record the reader stopped at, if it did not reach the end.
Stop == Stream[GoodLength(Stream) + 1]

\* ftruncate() at the start of that record.
Cut ==
    [segs EXCEPT ![Stop.seg].records = SubSeq(@, 1, Stop.pos - 1),
                 ![Stop.seg].synced = IF @ < Stop.pos THEN @ ELSE Stop.pos - 1]

\* A JournalWriter as constructed: it will open a new segment and count creations from 0.
Unresumed == fd' = 0 /\ written' = 0 /\ counter' = 0

\* resumeFrom(): cut the segment the reader stopped in where it stopped, and continue there.
\* A reader that reached the end of the journal has closed its last segment, so then the writer
\* is left as constructed.
Resume ==
    /\ IF ReadStatus = "EndOfJournal"
       THEN Unresumed /\ UNCHANGED segs
       ELSE /\ segs' = Cut
            /\ fd' = Stop.seg
            /\ written' = Stop.pos - 1
            /\ counter' = segs[Stop.seg].counter + 1
    /\ UNCHANGED <<faults, doubt>>

\* open(), ftruncate() or, after the cut, lseek() fails.
ResumeFails ==
    /\ ReadStatus # "EndOfJournal"
    /\ "IoError" \in setting.faults /\ faults < MaxFaults
    /\ faults' = faults + 1
    /\ Unresumed
    /\ \/ segs' = Cut /\ UNCHANGED doubt
       \/ doubt' = Min({doubt, GoodLength(Stream) + 1}) /\ UNCHANGED segs

\* Neither RecoveryStatus nor the result of resumeFrom() is looked at: the shard starts whatever
\* they say.
Recover ==
    /\ ~up
    /\ up' = TRUE
    /\ book' = Snapshot \o TailAfter(SnapshotSeq)
    /\ seq' = LastApplied(SnapshotSeq)
    /\ Resume \/ ResumeFails
    /\ acked' = {a \in acked : a[1] \in DOMAIN book' /\ book'[a[1]] = a[2]}
    /\ UNCHANGED <<setting, snaps, snapDir, pending, pc, command, ring, snapshotter>>

-----------------------------------------------------------------------------
SequencerTurn ==
    \/ \E c \in Commands : Submit(c) \/ TrySubmit(c)
    \/ RollSegment \/ CreateSegment \/ WriteHeader \/ SyncHeader
    \/ WriteRecord \/ SyncRecord \/ Publish \/ Ack \/ AppendFails

SnapshotTurn == SnapshotReplay \/ SnapshotRename \/ SnapshotPrune

Next ==
    \/ SequencerTurn \/ Dispatch
    \/ SnapshotTurn \/ SnapshotFails
    \/ Exit \/ Kill \/ PowerLoss \/ Recover

\* The snapshot thread spins for as long as the process lives.
Spec == Init /\ [][Next]_vars /\ WF_vars(SnapshotTurn)

-----------------------------------------------------------------------------
(* Properties. *)

\* A command a client was told is sequenced is never forgotten: whatever ends the process, the
\* next recovery executes it again under the same number ("durably journals it BEFORE acking").
\* What a torn record that could not be cut off costs is the commands behind it, no other; the
\* next three are bounded in the same way.
NoAckLost == [][{a \in acked : a[1] < doubt'} \subseteq acked']_vars

\* No interruption leaves a journal with a gap or a repeated number: a reader stops at the end
\* or at a torn tail, never with Corrupt.
JournalReadable == ReadStatus = "Corrupt" => GoodLength(Stream) + 1 >= doubt

\* Every snapshot on disk is the book after exactly the journal's first n commands, n being the
\* number in its name, so that snapshot plus tail is the whole journal replayed.
SnapshotFaithful ==
    LET journal == Journal
    IN  \A n \in 1 .. doubt - 1 :
            snaps[n] # NoFile => n <= Len(journal) /\ snaps[n] = SubSeq(journal, 1, n)

\* The live book, with the commands still in the ring, is the journal replayed, except for at most
\* the one command being submitted: nothing is executed that is not journaled first, nothing
\* twice, nothing in another order, before and after any number of recoveries.
BookIsJournal ==
    up => LET executed == book \o ring
              journal == Journal
              spared(w) == SubSeq(w, 1, Min({Len(w), doubt - 1}))
              running == IF pc \in {"publish", "sync", "exit"} THEN 1 ELSE 0
          IN  /\ IsPrefix(spared(executed), journal)
              /\ Len(spared(journal)) <= Len(executed) + running

\* A requested snapshot is eventually on disk, or a newer one, unless the process ends: a failed
\* attempt is retried by SnapshotThread::run.
SnapshotServiced ==
    \A n \in Seqs : (up /\ requested = n) ~> (~up \/ \E m \in n .. MaxSeq : snaps[m] # NoFile)
=============================================================================
