------------------------------- MODULE Tailer -------------------------------
(***************************************************************************)
(* A JournalTailer reading the segment files of a shard while the shard's  *)
(* JournalWriter is still appending to them, and while either process may  *)
(* end and start again.                                                    *)
(*                                                                         *)
(* Files are counted in abstract bytes: a header is one, a whole record    *)
(* two, and a record whose write() is only partly visible one, so every    *)
(* comparison of sizes and offsets the reader makes is the code's.  A      *)
(* record is its sequence number; the command in record n is script[n].    *)
(* Files are numbered in the order of their names, which are their first   *)
(* sequence numbers, and of their creation.  Flushing does not matter to a *)
(* reader on the same machine (module Durability has it).                  *)
(***************************************************************************)
EXTENDS Integers, Sequences, FiniteSetsExt

CONSTANTS Commands,
          Journals,     \* the command sequences clients may send
          RollRecords,  \* records a segment takes (rollBytes_)
          Restarts,     \* how the writer's process may end: "clean", "torn" or "rolling"; with
                        \* "unresumed" its successor may fail to continue a torn segment
          MaxRestarts   \* bound on those

ASSUME TailerAssumption ==
    /\ Journals \subseteq Seq(Commands)
    /\ RollRecords \in Nat \ {0} /\ MaxRestarts \in Nat
    /\ Restarts \subseteq {"clean", "torn", "rolling", "unresumed"}

VARIABLES
    script,     \* the commands that will be sequenced, in this order
    \* the journal directory
    segs,
    \* the writer
    wpc,        \* "off", "idle", "header" and "record" between its system calls, "writing" in one
    wseq,       \* records written
    open,       \* fd_ >= 0: the last segment is open for appending
    counter,    \* createdCounter_
    restarts,   \* ends of its process so far
    reused,     \* history: it has created a segment under a creation number already in use
    \* the tailer: JournalTailer and the JournalReader in it
    tpc,        \* "off", "idle", "seek" and "read" inside next(), and its three answers
    known,      \* segments_: the first known files
    nextIdx,    \* nextSegmentIdx_, from 1
    fd,         \* the file open for reading, 0 for none
    size,       \* fileSize_ as last looked up
    pos,        \* offset_, currentCreatedCounter_, lastGoodSeq_: what checkpoint() returns
    reseek,     \* needsReseek_
    missed,     \* history: a tailer was constructed when the very first segment had no header yet
    saved       \* the checkpoint kept outside the process

writerVars == <<script, segs, wpc, wseq, open, counter, restarts, reused>>
tailerVars == <<tpc, known, nextIdx, fd, size, pos, reseek, missed>>
tailVars == <<writerVars, tailerVars, saved>>

HeaderSize == 1
RecordSize == 2

\* A file: the number in its name, what it has of its header, the creation number in that, the
\* sequence numbers of its whole records, and what it has of one more.
NewSegment(first) == [first |-> first, header |-> 0, counter |-> 0, records |-> <<>>, partial |-> 0]

Size(file) == file.header + RecordSize * Len(file.records) + file.partial

Newest == Len(segs)

NoCheckpoint == [counter |-> 0, offset |-> 0, lastGood |-> 0]

TailInit ==
    /\ script \in Journals
    /\ segs = <<>> /\ wpc = "idle" /\ wseq = 0 /\ open = FALSE /\ counter = 0 /\ restarts = 0
    /\ reused = FALSE
    /\ tpc = "off" /\ known = 0 /\ nextIdx = 1 /\ fd = 0 /\ size = 0 /\ pos = NoCheckpoint
    /\ reseek = FALSE /\ missed = FALSE
    /\ saved = NoCheckpoint
-----------------------------------------------------------------------------
(* JournalWriter::append, one system call at a time. *)

\* A header has this creation number.
InUse(n) == \E i \in DOMAIN segs : segs[i].header # 0 /\ segs[i].counter = n

\* openSegment(), after rollSegment() has closed a full one: the file is there, without a
\* header.  A file of that name, left empty by an earlier process, is truncated.
CreateSegment ==
    /\ wpc = "idle" /\ wseq < Len(script)
    /\ open => Len(segs[Newest].records) >= RollRecords
    /\ segs' = IF segs # <<>> /\ segs[Newest].first = wseq + 1
               THEN [segs EXCEPT ![Newest] = NewSegment(wseq + 1)]
               ELSE Append(segs, NewSegment(wseq + 1))
    /\ open' = FALSE
    /\ wpc' = "header"
    /\ reused' = (reused \/ InUse(counter))
    /\ UNCHANGED <<script, wseq, counter, restarts, tailerVars, saved>>

WriteHeader ==
    /\ wpc = "header"
    /\ segs' = [segs EXCEPT ![Newest] = [@ EXCEPT !.header = HeaderSize, !.counter = counter]]
    /\ counter' = counter + 1
    /\ open' = TRUE
    /\ wpc' = "record"
    /\ UNCHANGED <<script, wseq, restarts, reused, tailerVars, saved>>

\* write() of the record, first seen in part, ...
BeginRecord ==
    /\ \/ wpc = "record"
       \/ wpc = "idle" /\ open /\ wseq < Len(script) /\ Len(segs[Newest].records) < RollRecords
    /\ segs' = [segs EXCEPT ![Newest] = [@ EXCEPT !.partial = 1]]
    /\ wpc' = "writing"
    /\ UNCHANGED <<script, wseq, open, counter, restarts, reused, tailerVars, saved>>

\* ... then whole.
WithRecord(file, n) == [file EXCEPT !.records = Append(@, n), !.partial = 0]

EndRecord ==
    /\ wpc = "writing"
    /\ segs' = [segs EXCEPT ![Newest] = WithRecord(@, wseq + 1)]
    /\ wseq' = wseq + 1
    /\ wpc' = "idle"
    /\ UNCHANGED <<script, open, counter, restarts, reused, tailerVars, saved>>

\* The writer's process ends: between two records, in the middle of one, or of a roll.
HowItEnds == CASE wpc = "idle" -> "clean" [] wpc = "writing" -> "torn" [] OTHER -> "rolling"

WriterEnds ==
    /\ wpc # "off" /\ restarts < MaxRestarts
    /\ HowItEnds \in Restarts
    /\ restarts' = restarts + 1
    /\ wpc' = "off"
    /\ open' = FALSE
    /\ UNCHANGED <<script, segs, wseq, counter, reused, tailerVars, saved>>

\* JournalWriter::resumeFrom: a torn last segment is cut and continued under the next creation
\* number.
TornTail == segs # <<>> /\ segs[Newest].partial # 0
Cut == [segs EXCEPT ![Newest] = [@ EXCEPT !.partial = 0]]

Resumes ==
    /\ TornTail
    /\ segs' = Cut
    /\ open' = TRUE
    /\ counter' = segs[Newest].counter + 1

\* After a clean end it is not called, and the writer is left as constructed; so it is when
\* open(), ftruncate() or, after the cut, lseek() fails, which nobody notices.
StartsOver ==
    /\ TornTail => "unresumed" \in Restarts
    /\ segs' \in {segs} \cup (IF TornTail THEN {Cut} ELSE {})
    /\ open' = FALSE
    /\ counter' = 0

\* Shard::recoverAndStart, of a journal that is not torn before its last segment.  (What recovery
\* makes of one that is, Durability has.)
WriterRecovers ==
    /\ wpc = "off" /\ \A i \in 1 .. Newest - 1 : segs[i].partial = 0
    /\ wpc' = "idle"
    /\ Resumes \/ StartsOver
    /\ UNCHANGED <<script, wseq, restarts, reused, tailerVars, saved>>

Writer ==
    CreateSegment \/ WriteHeader \/ BeginRecord \/ EndRecord \/ WriterEnds \/ WriterRecovers
-----------------------------------------------------------------------------
(* JournalReader. *)

\* openSegmentAtIndex(): a file without a complete header is passed over.
Openable(i) == Size(segs[i]) >= HeaderSize

\* Wrong: the position is where the segment starts.
SeekOffsetStart(cp) == HeaderSize

\* seekTo() continues at the checkpoint's offset.
SeekOffset(cp) == cp.offset

\* seekTo(): the first file with the checkpoint's creation number.  When there is none the
\* reader is left behind the last file, with what it last read from a header.
SeekTo(cp) ==
    LET opened == {i \in 1 .. known' : Openable(i)}
        hits == {i \in opened : segs[i].counter = cp.counter}
    IN  IF hits # {}
        THEN LET i == Min(hits)
             IN  /\ fd' = i /\ size' = Size(segs[i]) /\ nextIdx' = i + 1
                 /\ pos' = [cp EXCEPT !.offset = SeekOffset(cp)]
        ELSE /\ fd' = 0 /\ nextIdx' = known' + 1
             /\ pos' = IF opened = {} THEN [pos EXCEPT !.lastGood = cp.lastGood]
                       ELSE [counter |-> segs[Max(opened)].counter, offset |-> HeaderSize,
                             lastGood |-> cp.lastGood]
             /\ UNCHANGED size

\* Wrong: a file counts as soon as it exists.
ListedAtOnce(i) == TRUE

\* rescan() defers a file until its header is there ...
Listed(i) == Size(segs[i]) >= HeaderSize

\* ... and appends those that sort behind the last one it knows.
Rescan == known' = Max({known} \cup {i \in 1 .. Newest : Listed(i)})

\* openNextSegment(), one file at a time, and the end of the list.
OpenNext ==
    /\ tpc = "read" /\ fd = 0 /\ nextIdx <= known
    /\ nextIdx' = nextIdx + 1
    /\ IF Openable(nextIdx)
       THEN /\ fd' = nextIdx /\ size' = Size(segs[nextIdx])
            /\ pos' = [pos EXCEPT !.counter = segs[nextIdx].counter, !.offset = HeaderSize]
       ELSE UNCHANGED <<fd, size, pos>>
    /\ UNCHANGED <<writerVars, tpc, known, reseek, missed, saved>>

\* EndOfJournal and TruncatedTail: come back, and then by reopening.  Wrong, only a torn tail is.
ReseekIfTorn(torn) == torn
ReseekAfter(torn) == TRUE

NotYet(torn) ==
    /\ tpc' = "notyet" /\ reseek' = ReseekAfter(torn)
    /\ UNCHANGED <<writerVars, known, nextIdx, fd, size, pos, missed, saved>>

EndOfJournal == tpc = "read" /\ fd = 0 /\ nextIdx > known /\ NotYet(FALSE)

\* readOneRecord(): the end of the segment as far as its size is known, ...
EndOfSegment ==
    /\ tpc = "read" /\ fd # 0 /\ pos.offset = size
    /\ fd' = 0
    /\ UNCHANGED <<writerVars, tpc, known, nextIdx, size, pos, reseek, missed, saved>>

\* ... a record not all there, by that size or by pread(), ...
TornRecord ==
    /\ tpc = "read" /\ fd # 0 /\ pos.offset # size
    /\ \/ pos.offset + RecordSize > size
       \/ pos.offset + RecordSize > Size(segs[fd])
    /\ NotYet(TRUE)

\* ... or a record, which must be the one after the last.
RecordAt == segs[fd].records[(pos.offset - HeaderSize) \div RecordSize + 1]

ReadRecord ==
    /\ tpc = "read" /\ fd # 0
    /\ pos.offset + RecordSize <= size /\ pos.offset + RecordSize <= Size(segs[fd])
    /\ IF RecordAt = pos.lastGood + 1
       THEN tpc' = "ok" /\ pos' = [pos EXCEPT !.offset = @ + RecordSize, !.lastGood = @ + 1]
       ELSE tpc' = "corrupt" /\ UNCHANGED pos
    /\ UNCHANGED <<writerVars, known, nextIdx, fd, size, reseek, missed, saved>>
-----------------------------------------------------------------------------
(* JournalTailer. *)

\* The constructor, with the listing of JournalReader's, which takes every file there is.
Construct(cp) ==
    /\ tpc = "off"
    /\ known' = Newest
    /\ tpc' = "idle" /\ reseek' = FALSE
    /\ IF cp.lastGood # 0
       THEN SeekTo(cp)
       ELSE fd' = 0 /\ size' = 0 /\ nextIdx' = 1 /\ pos' = NoCheckpoint
    /\ missed' = (missed \/ (segs # <<>> /\ ~Openable(1)))
    /\ UNCHANGED <<writerVars, saved>>

\* next(): look at the directory again, ...
Next1Reseek ==
    /\ tpc = "idle" /\ reseek
    /\ Rescan
    /\ tpc' = "seek"
    /\ UNCHANGED <<writerVars, nextIdx, fd, size, pos, reseek, missed, saved>>

\* ... then reopen the segment of the last position, if there was one, ...
Next2Seek ==
    /\ tpc = "seek"
    /\ known' = known
    /\ IF pos.offset >= HeaderSize THEN SeekTo(pos) ELSE UNCHANGED <<nextIdx, fd, size, pos>>
    /\ reseek' = FALSE
    /\ tpc' = "read"
    /\ UNCHANGED <<writerVars, missed, saved>>

\* ... or only look at the open segment's size.
Next1Refresh ==
    /\ tpc = "idle" /\ ~reseek
    /\ size' = IF fd # 0 THEN Size(segs[fd]) ELSE size
    /\ tpc' = "read"
    /\ UNCHANGED <<writerVars, known, nextIdx, fd, pos, reseek, missed, saved>>

Reading ==
    \/ Next1Reseek \/ Next1Refresh \/ Next2Seek
    \/ OpenNext \/ EndOfJournal \/ EndOfSegment \/ TornRecord \/ ReadRecord

\* The caller has dealt with the answer and calls again.
Return ==
    /\ tpc \in {"ok", "notyet"}
    /\ tpc' = "idle"
    /\ UNCHANGED <<writerVars, known, nextIdx, fd, size, pos, reseek, missed, saved>>

\* checkpoint(), kept for a later tailer.
Save ==
    /\ tpc \in {"idle", "ok", "notyet", "corrupt"}
    /\ saved' = pos
    /\ UNCHANGED <<writerVars, tailerVars>>

\* The tailer's process ends.
Drop ==
    /\ tpc # "off"
    /\ tpc' = "off"
    /\ UNCHANGED <<writerVars, known, nextIdx, fd, size, pos, reseek, missed, saved>>

TailNext ==
    \/ Writer
    \/ Construct(saved) \/ Construct(NoCheckpoint)
    \/ Reading \/ Return \/ Save \/ Drop

TailSpec == TailInit /\ [][TailNext]_tailVars
-----------------------------------------------------------------------------
(* Properties. *)

\* No tailer ever takes the journal for corrupt: "that can never legitimately happen against a live
\* writer" (journal_tailer.hpp).  It does not hold; NeverCorrupt says when it does.
AlwaysTrusted == tpc # "corrupt"

\* However the steps of writer and tailer and the restarts of both interleave, a tailer takes the
\* journal for corrupt, and its caller stops for good, from two causes only: a writer that came
\* back without continuing the last segment has given a creation number a second time, or a
\* tailer was constructed during the very first header and passed over that file.
NeverCorrupt == tpc = "corrupt" => reused \/ missed
=============================================================================
