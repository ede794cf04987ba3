---------------------------- MODULE TailerProofs ----------------------------
(***************************************************************************)
(* For every journal, every roll size and any number of restarts of either *)
(* process, however they end: a tailer never reports a corrupt journal     *)
(* unless a creation number was given a second time or a tailer was once   *)
(* constructed while the first segment had no header.                      *)
(*                                                                         *)
(* Until one of these happens an invariant holds, which is inductive; both *)
(* are remembered once they have (Remembered).                             *)
(*                                                                         *)
(* The inductive invariant has three parts: the types, what the writer     *)
(* keeps true of the files (JournalInv), and where the tailer stands in    *)
(* them (TailerInv).  The last one rests on two facts.  A creation number  *)
(* names one file, so that reopening finds the file the position is in.    *)
(* And a tailer that knows of a file behind the one it reads has looked at *)
(* the size of the latter since it was sealed, so that its end is the end. *)
(***************************************************************************)
EXTENDS Tailer, TLAPS

\* A segment file.
Segment == [first : Nat, header : 0 .. 1, counter : Nat, records : Seq(Nat), partial : 0 .. 1]
\* A position in the files.
Checkpoint == [counter : Nat, offset : Nat, lastGood : Nat]

\* The types of the writer's and the tailer's state.
TailType ==
    /\ script \in Seq(Commands)
    /\ segs \in Seq(Segment)
    /\ wpc \in {"off", "idle", "header", "record", "writing"}
    /\ wseq \in Nat /\ open \in BOOLEAN /\ counter \in Nat /\ restarts \in Nat
    /\ tpc \in {"off", "idle", "seek", "read", "ok", "notyet", "corrupt"}
    /\ known \in Nat /\ nextIdx \in Nat \ {0} /\ fd \in Nat /\ size \in Nat
    /\ pos \in Checkpoint /\ reseek \in BOOLEAN /\ saved \in Checkpoint

\* The number the record after a file's last one has.
After(f) == f.first + Len(f.records)

\* Every file is a run of consecutive numbers, and continues the one before it; only the newest
\* can lack its header, and is empty then, or hold part of a record.
FileInv(i) ==
    /\ segs[i].header = 0 => /\ i = Len(segs) /\ wpc \in {"header", "off", "idle"}
                             /\ segs[i].records = <<>> /\ segs[i].partial = 0
    /\ segs[i].header = 1 => segs[i].counter = i - 1
    /\ segs[i].partial = 1 => i = Len(segs) /\ wpc \in {"writing", "off", "idle"}
    /\ \A k \in 1 .. Len(segs[i].records) : segs[i].records[k] = segs[i].first + k - 1
    /\ i < Len(segs) => segs[i + 1].first = After(segs[i])

\* What the writer knows of the newest file: it is open and the next one will be numbered by its
\* index, or the writer is about to start over with number 0.
WriterInv ==
    /\ wpc = "header" => segs[Len(segs)].header = 0 /\ counter = Len(segs) - 1
    /\ wpc \in {"record", "writing"} => open
    /\ wpc = "idle" /\ ~open => counter = 0
    /\ open => /\ wpc \notin {"header", "off"} /\ segs # <<>>
               /\ segs[Len(segs)].header = 1 /\ counter = Len(segs)
               /\ segs[Len(segs)].partial = 1 => wpc = "writing"

\* The writer is at the end of the newest file.
JournalInv ==
    /\ \A i \in 1 .. Len(segs) : FileInv(i)
    /\ segs = <<>> => wseq = 0 /\ wpc \in {"off", "idle"}
    /\ segs # <<>> => segs[1].first = 1 /\ After(segs[Len(segs)]) = wseq + 1
    /\ WriterInv

\* A position is behind the record lastGood of the file that has its creation number.
At(p, files) ==
    /\ p.counter + 1 \in 1 .. Len(files)
    /\ files[p.counter + 1].header = 1
    /\ files[p.counter + 1].first <= p.lastGood + 1
    /\ p.lastGood + 1 <= After(files[p.counter + 1])
    /\ p.offset = 1 + 2 * (p.lastGood + 1 - files[p.counter + 1].first)

\* Where the tailer stands in the files.
TailerInv ==
    /\ known <= Len(segs)
    /\ pos.offset # 0 => At(pos, segs) /\ pos.counter + 1 <= known
    /\ pos.offset = 0 => pos.lastGood = 0 /\ fd = 0 /\ nextIdx = 1
                         /\ (known # 0 => segs[1].header = 1)
    /\ fd # 0 => fd = pos.counter + 1 /\ nextIdx = fd + 1
    /\ tpc # "seek" /\ nextIdx <= known =>
          IF fd # 0 THEN size = Size(segs[fd]) ELSE segs[nextIdx].first = pos.lastGood + 1

\* The tailer has not met a record out of order.
NotCorrupt == tpc # "corrupt"

\* What holds until a creation number is given again or the first segment is missed.
IInv ==
    /\ TailType
    /\ JournalInv
    /\ saved.lastGood # 0 => At(saved, segs)
    /\ tpc # "off" => TailerInv
    /\ NotCorrupt
-----------------------------------------------------------------------------
(* Facts about the files. *)

\* The writer's three edits of a file, field by field.
LEMMA HeaderEdit ==
    ASSUME NEW s \in Segment, NEW c \in Nat
    PROVE  LET f == [s EXCEPT !.header = 1, !.counter = c]
           IN  /\ f \in Segment /\ f.first = s.first /\ f.header = 1 /\ f.counter = c
               /\ f.records = s.records /\ f.partial = s.partial
<1> DEFINE g == [s EXCEPT !.header = 1]
<1>1. /\ g \in Segment /\ g.first = s.first /\ g.header = 1 /\ g.records = s.records
      /\ g.partial = s.partial
    BY SMTT(60) DEF Segment
<1> HIDE DEF g
<1>2. LET f == [g EXCEPT !.counter = c]
      IN  /\ f \in Segment /\ f.first = g.first /\ f.header = g.header /\ f.counter = c
          /\ f.records = g.records /\ f.partial = g.partial
    BY <1>1 DEF Segment
<1> QED BY <1>1, <1>2, Zenon DEF g

\* A record is begun, or cut off.
LEMMA PartialEdit ==
    ASSUME NEW s \in Segment, NEW b \in 0 .. 1
    PROVE  LET f == [s EXCEPT !.partial = b]
           IN  /\ f \in Segment /\ f.first = s.first /\ f.header = s.header
               /\ f.counter = s.counter /\ f.records = s.records /\ f.partial = b
BY DEF Segment

\* A record is completed.
LEMMA RecordEdit ==
    ASSUME NEW s \in Segment, NEW r \in Nat
    PROVE  LET f == [s EXCEPT !.records = Append(@, r), !.partial = 0]
           IN  /\ f \in Segment /\ f.first = s.first /\ f.header = s.header
               /\ f.counter = s.counter /\ f.records = Append(s.records, r) /\ f.partial = 0
<1> DEFINE rs == Append(s.records, r)  g == [s EXCEPT !.records = rs]
<1>1. rs \in Seq(Nat)
    BY DEF Segment
<1> HIDE DEF rs
<1>2. /\ g \in Segment /\ g.first = s.first /\ g.header = s.header /\ g.counter = s.counter
      /\ g.records = rs
    BY <1>1, ZenonT(60) DEF Segment
<1> HIDE DEF g
<1>3. LET f == [g EXCEPT !.partial = 0]
      IN  /\ f \in Segment /\ f.first = g.first /\ f.header = g.header
          /\ f.counter = g.counter /\ f.records = g.records /\ f.partial = 0
    BY <1>2, SMTT(60) DEF Segment
<1> QED BY <1>2, <1>3, Zenon DEF g, rs

\* Writing to the newest file leaves the other files alone.
LEMMA UpdateLast ==
    ASSUME segs \in Seq(Segment), segs # <<>>, NEW f \in Segment,
           segs' = [segs EXCEPT ![Len(segs)] = f]
    PROVE  /\ segs' \in Seq(Segment) /\ Len(segs') = Len(segs)
           /\ segs'[Len(segs)] = f
           /\ \A i \in 1 .. Len(segs) - 1 : segs'[i] = segs[i]
<1>1. Len(segs) \in 1 .. Len(segs)
    OBVIOUS
<1> QED BY <1>1

\* What every step of the writer does to the files: nothing is taken from them but part of a
\* record, and only the newest changes.
Grows ==
    /\ Len(segs) <= Len(segs')
    /\ \A i \in 1 .. Len(segs) :
          /\ segs'[i].first = segs[i].first
          /\ segs[i].header = 1 => segs'[i].header = 1 /\ segs'[i].counter = segs[i].counter
          /\ Len(segs[i].records) <= Len(segs'[i].records)
          /\ i < Len(segs) => segs'[i] = segs[i]

\* A longer file leaves more room.
LEMMA Longer == \A g, a, b, c \in Nat : g + 1 <= a + b /\ b <= c => g + 1 <= a + c
    OBVIOUS

\* A position stays one.
LEMMA AtKept ==
    ASSUME TailType, TailType', Grows
    PROVE  \A p \in Checkpoint : At(p, segs) => At(p, segs')
<1> SUFFICES ASSUME NEW p \in Checkpoint, At(p, segs) PROVE At(p, segs')
    OBVIOUS
<1>1. PICK i \in 1 .. Len(segs) : i = p.counter + 1
    BY DEF At
<1>2. segs[i].header = 1 /\ segs[i].first <= p.lastGood + 1
    BY <1>1 DEF At
<1>3. p.lastGood + 1 <= segs[i].first + Len(segs[i].records)
    BY <1>1 DEF At, After
<1>4. i \in 1 .. Len(segs')
    BY DEF Grows, TailType
<1>5. segs'[i].first = segs[i].first /\ segs'[i].header = 1
    BY <1>2 DEF Grows
<1>6. Len(segs[i].records) <= Len(segs'[i].records)
    BY DEF Grows
<1>7. segs[i] \in Segment /\ segs'[i] \in Segment
    BY <1>4, SMTT(60) DEF TailType
<1>8. /\ Len(segs[i].records) \in Nat /\ Len(segs'[i].records) \in Nat
      /\ segs[i].first \in Nat
    BY <1>7, SMTT(60) DEF Segment
<1>9. p.lastGood \in Nat
    BY DEF Checkpoint
<1>10. p.lastGood + 1 <= segs[i].first + Len(segs'[i].records)
    BY <1>3, <1>6, <1>8, <1>9, Longer, Zenon
<1>11. p.lastGood + 1 <= After(segs'[i])
    BY <1>5, <1>10, Zenon DEF After
<1> QED BY <1>1, <1>2, <1>4, <1>5, <1>11 DEF At

\* The writer does not disturb the tailer's standing.
LEMMA TailerKept ==
    ASSUME TailType, TailType', TailerInv, Grows, UNCHANGED tailerVars
    PROVE  TailerInv'
<1> USE DEF tailerVars
<1>1. known' <= Len(segs')
    BY DEF TailerInv, Grows, TailType
<1>2. pos.offset # 0 => At(pos, segs')
    BY AtKept DEF TailerInv, TailType
<1>3. known # 0 /\ segs[1].header = 1 => segs'[1].header = 1
    BY DEF TailerInv, Grows, TailType
<1>4. ASSUME tpc # "seek", nextIdx <= known
      PROVE  IF fd # 0 THEN size = Size(segs'[fd]) ELSE segs'[nextIdx].first = pos.lastGood + 1
    <2>1. nextIdx \in 1 .. Len(segs)
        BY <1>4 DEF TailerInv, TailType
    <2>2. CASE fd # 0
        <3>1. fd \in 1 .. Len(segs) /\ fd < Len(segs)
            BY <2>1, <2>2 DEF TailerInv, TailType
        <3> QED BY <1>4, <2>2, <3>1 DEF TailerInv, Grows
    <2>3. CASE fd = 0
        BY <1>4, <2>1, <2>3 DEF TailerInv, Grows
    <2> QED BY <2>2, <2>3
<1>5. pos' = pos /\ known' = known /\ fd' = fd /\ nextIdx' = nextIdx /\ tpc' = tpc /\ size' = size
    OBVIOUS
<1>6. (pos.offset # 0 => pos.counter + 1 <= known) /\ (fd # 0 => fd = pos.counter + 1 /\ nextIdx = fd + 1)
      /\ (pos.offset = 0 => pos.lastGood = 0 /\ fd = 0 /\ nextIdx = 1 /\ (known # 0 => segs[1].header = 1))
    BY DEF TailerInv
<1> QED BY <1>1, <1>2, <1>3, <1>4, <1>5, <1>6 DEF TailerInv

\* So what is left to show of a step of the writer is what it does to the files.
LEMMA WriterStep ==
    ASSUME IInv, TailType', JournalInv', Grows, UNCHANGED <<tailerVars, saved>>
    PROVE  IInv'
<1>1. saved'.lastGood # 0 => At(saved', segs')
    BY AtKept DEF IInv, TailType
<1>2. tpc' # "off" => TailerInv'
    BY TailerKept DEF IInv, tailerVars
<1>3. NotCorrupt'
    BY DEF IInv, NotCorrupt, tailerVars
<1>4. saved' = saved
    OBVIOUS
<1> QED BY <1>1, <1>2, <1>3, <1>4 DEF IInv
-----------------------------------------------------------------------------
(* The writer. *)

\* Writing to a newest file that has its header: the other files need no new argument.
LEMMA NewestWritten ==
    ASSUME IInv, segs # <<>>, NEW f \in Segment, segs' = [segs EXCEPT ![Len(segs)] = f],
           f.first = segs[Len(segs)].first, f.header = 1, f.counter = Len(segs) - 1,
           Len(segs[Len(segs)].records) <= Len(f.records),
           \A k \in 1 .. Len(f.records) : f.records[k] = f.first + k - 1,
           f.partial = 1 => wpc' \in {"writing", "off", "idle"}
    PROVE  /\ segs' \in Seq(Segment) /\ Len(segs') = Len(segs) /\ segs'[Len(segs)] = f
           /\ segs' # <<>> /\ segs'[1].first = segs[1].first
           /\ \A i \in 1 .. Len(segs') : FileInv(i)'
           /\ Grows
<1>0. TailType /\ JournalInv
    BY DEF IInv
<1> DEFINE n == Len(segs)
<1>1. n \in Nat /\ n >= 1
    BY <1>0 DEF TailType
<1>2. /\ segs' \in Seq(Segment) /\ Len(segs') = n /\ segs'[n] = f
      /\ \A i \in 1 .. n - 1 : segs'[i] = segs[i]
    BY <1>0, UpdateLast DEF TailType
<1>3. /\ f.first = segs[n].first /\ f.counter = n - 1
      /\ Len(segs[n].records) <= Len(f.records)
      /\ \A i \in 1 .. n : FileInv(i) /\ segs[i] \in Segment
    BY <1>0 DEF JournalInv, TailType
<1>4. ASSUME NEW i \in 1 .. n, i # n
      PROVE  /\ i \in 1 .. n - 1 /\ i + 1 \in 1 .. n /\ i < n
             /\ segs'[i] = segs[i] /\ segs[i].header # 0 /\ segs[i].partial # 1
             /\ segs[i + 1].first = After(segs[i])
    <2>1. i \in 1 .. n - 1 /\ i + 1 \in 1 .. n /\ i < n
        BY <1>1, <1>4
    <2>2. segs'[i] = segs[i]
        BY <1>2, <2>1, ZenonT(60)
    <2> QED BY <1>3, <1>4, <2>1, <2>2 DEF FileInv
<1>5. n = Len(segs)
    OBVIOUS
<1> HIDE DEF n
<1>6. \A i \in 1 .. n : segs'[i].first = segs[i].first
    BY <1>2, <1>3, <1>4
<1>7. segs' # <<>>
    BY <1>1, <1>2
<1>8. ASSUME NEW i \in 1 .. n PROVE FileInv(i)'
    <2>1. CASE i = n
        BY <1>2, <1>3, <2>1, <1>1 DEF FileInv
    <2>2. CASE i # n
        <3>1. segs'[i + 1].first = After(segs'[i])
            BY <1>4, <1>6, <2>2
        <3>2. FileInv(i) /\ segs'[i] = segs[i] /\ segs[i].header # 0 /\ segs[i].partial # 1
            BY <1>3, <1>4, <2>2
        <3> QED BY <3>1, <3>2 DEF FileInv
    <2> QED BY <2>1, <2>2
<1>9. ASSUME NEW i \in 1 .. n
      PROVE  /\ segs'[i].first = segs[i].first
             /\ segs[i].header = 1 => segs'[i].header = 1 /\ segs'[i].counter = segs[i].counter
             /\ Len(segs[i].records) <= Len(segs'[i].records)
             /\ i < n => segs'[i] = segs[i]
    <2>1. CASE i = n
        <3>1. segs[n].header = 1 => segs[n].counter = n - 1
            BY <1>3, <2>1 DEF FileInv
        <3> QED BY <1>1, <1>2, <1>3, <2>1, <3>1
    <2>2. CASE i # n
        <3>1. segs'[i] = segs[i] /\ Len(segs[i].records) \in Nat
            BY <1>3, <1>4, <2>2 DEF Segment
        <3> QED BY <3>1
    <2> QED BY <2>1, <2>2
<1>10. Len(segs) <= Len(segs')
    <2>1. n <= n
        BY <1>1
    <2> QED BY <1>2, <1>5, <2>1, Zenon
<1>11. Grows
    BY <1>5, <1>9, <1>10 DEF Grows
<1>12. segs'[1].first = segs[1].first
    BY <1>1, <1>6
<1>13. \A i \in 1 .. Len(segs') : FileInv(i)'
    BY <1>2, <1>8
<1> QED BY <1>2, <1>5, <1>7, <1>11, <1>12, <1>13, ZenonT(60)

\* The newest file, whenever there is one.
LEMMA NewestFile ==
    ASSUME IInv, segs # <<>>
    PROVE  /\ Len(segs) \in Nat /\ Len(segs) \in 1 .. Len(segs)
           /\ segs[Len(segs)] \in Segment /\ FileInv(Len(segs))
           /\ After(segs[Len(segs)]) = wseq + 1
           /\ Len(segs[Len(segs)].records) \in Nat
<1>1. Len(segs) \in Nat /\ Len(segs) \in 1 .. Len(segs)
    BY DEF IInv, TailType
<1>2. segs[Len(segs)] \in Segment
    BY <1>1 DEF IInv, TailType
<1>3. Len(segs[Len(segs)].records) \in Nat
    BY <1>2 DEF Segment
<1> QED BY <1>1, <1>2, <1>3 DEF IInv, JournalInv

\* A header takes the index of its file for its creation number.
LEMMA WriteHeaderInv == ASSUME IInv, WriteHeader PROVE IInv'
<1> DEFINE n == Len(segs)  f == [segs[n] EXCEPT !.header = 1, !.counter = counter]
<1>0. TailType /\ JournalInv /\ wpc = "header"
    BY DEF IInv, WriteHeader
<1>1. segs # <<>> /\ segs[n].header = 0 /\ counter = n - 1
    BY <1>0 DEF JournalInv, WriterInv
<1>2. n \in Nat /\ n \in 1 .. n /\ segs[n] \in Segment /\ FileInv(n) /\ After(segs[n]) = wseq + 1
    BY <1>1, NewestFile
<1>3. /\ f \in Segment /\ f.first = segs[n].first /\ f.header = 1 /\ f.counter = n - 1
      /\ f.records = segs[n].records /\ f.partial = segs[n].partial
    <2>1. counter \in Nat
        BY <1>0 DEF TailType
    <2> QED BY <1>1, <1>2, <2>1, HeaderEdit, ZenonT(60)
<1>4. f.partial = 0 /\ f.partial # 1
    BY <1>1, <1>2, <1>3 DEF FileInv
<1>5. \A k \in 1 .. Len(f.records) : f.records[k] = f.first + k - 1
    BY <1>2, <1>3 DEF FileInv
<1>6. Len(segs[n].records) <= Len(f.records)
    BY <1>2, <1>3 DEF Segment
<1>7. segs' = [segs EXCEPT ![n] = f]
    BY DEF WriteHeader, Newest, HeaderSize
<1> HIDE DEF f
<1>8. /\ segs' \in Seq(Segment) /\ Len(segs') = n /\ segs'[n] = f
      /\ segs' # <<>> /\ segs'[1].first = segs[1].first
      /\ (\A i \in 1 .. Len(segs') : FileInv(i)') /\ Grows
    BY <1>1, <1>3, <1>4, <1>5, <1>6, <1>7, NewestWritten, ZenonT(60)
<1>9. After(segs'[n]) = wseq + 1
    BY <1>2, <1>3, <1>8 DEF After
<1>10. TailType'
    BY <1>0, <1>8 DEF TailType, WriteHeader, tailerVars
<1>11. counter' = n
    BY <1>1, <1>2 DEF WriteHeader
<1>12. JournalInv'
    <2>1. WriterInv'
        BY <1>3, <1>4, <1>8, <1>11, Zenon DEF WriterInv, WriteHeader
    <2> QED BY <1>0, <1>1, <1>8, <1>9, <2>1 DEF JournalInv, WriteHeader
<1> QED BY <1>8, <1>10, <1>12, WriterStep DEF WriteHeader

\* A record begins: the file is open, so it has its header.
LEMMA BeginRecordInv == ASSUME IInv, BeginRecord PROVE IInv'
<1> DEFINE n == Len(segs)  f == [segs[n] EXCEPT !.partial = 1]
<1>0. TailType /\ JournalInv /\ wpc \in {"record", "idle"} /\ wpc' = "writing"
    BY DEF IInv, BeginRecord
<1>1. segs # <<>> /\ open /\ segs[n].header = 1 /\ counter = n
    <2>1. open
        BY <1>0 DEF JournalInv, WriterInv, BeginRecord
    <2> QED BY <1>0, <2>1 DEF JournalInv, WriterInv
<1>2. n \in Nat /\ n \in 1 .. n /\ segs[n] \in Segment /\ FileInv(n) /\ After(segs[n]) = wseq + 1
      /\ Len(segs[n].records) \in Nat
    BY <1>1, NewestFile
<1>3. segs[n].header = 1
    BY <1>1
<1>4. /\ f \in Segment /\ f.first = segs[n].first /\ f.header = segs[n].header
      /\ f.counter = segs[n].counter /\ f.records = segs[n].records /\ f.partial = 1
    <2>1. 1 \in 0 .. 1
        OBVIOUS
    <2> QED BY <1>2, <2>1, PartialEdit, Zenon
<1>5. segs' = [segs EXCEPT ![n] = f]
    BY DEF BeginRecord, Newest
<1> HIDE DEF f
<1>6. f.header = 1 /\ f.counter = n - 1 /\ Len(segs[n].records) <= Len(f.records)
      /\ \A k \in 1 .. Len(f.records) : f.records[k] = f.first + k - 1
    BY <1>2, <1>3, <1>4 DEF FileInv
<1>7. /\ segs' \in Seq(Segment) /\ Len(segs') = n /\ segs'[n] = f
      /\ segs' # <<>> /\ segs'[1].first = segs[1].first
      /\ (\A i \in 1 .. Len(segs') : FileInv(i)') /\ Grows
    BY <1>0, <1>1, <1>4, <1>5, <1>6, NewestWritten, ZenonT(60)
<1>8. After(segs'[n]) = wseq + 1
    BY <1>2, <1>4, <1>7 DEF After
<1>9. TailType'
    BY <1>0, <1>7 DEF TailType, BeginRecord, tailerVars
<1>10. JournalInv'
    <2>1. WriterInv'
        BY <1>0, <1>1, <1>6, <1>7 DEF WriterInv, BeginRecord
    <2> QED BY <1>0, <1>1, <1>7, <1>8, <2>1 DEF JournalInv, BeginRecord
<1> QED BY <1>7, <1>9, <1>10, WriterStep DEF BeginRecord

\* A record is whole: it has the number that was next.
LEMMA EndRecordInv == ASSUME IInv, EndRecord PROVE IInv'
<1> DEFINE n == Len(segs)
           f == [segs[n] EXCEPT !.records = Append(@, wseq + 1), !.partial = 0]
<1>0. TailType /\ JournalInv /\ wpc = "writing" /\ wpc' = "idle" /\ wseq' = wseq + 1 /\ wseq \in Nat
    BY DEF IInv, EndRecord, TailType
<1>1. segs # <<>> /\ open /\ segs[n].header = 1 /\ counter = n
    BY <1>0 DEF JournalInv, WriterInv
<1>2. n \in Nat /\ n \in 1 .. n /\ segs[n] \in Segment /\ FileInv(n) /\ After(segs[n]) = wseq + 1
      /\ Len(segs[n].records) \in Nat /\ segs[n].first \in Nat /\ segs[n].records \in Seq(Nat)
    BY <1>1, NewestFile DEF Segment
<1>3. segs[n].header = 1
    BY <1>1
<1>4. /\ f \in Segment /\ f.first = segs[n].first /\ f.header = segs[n].header
      /\ f.counter = segs[n].counter /\ f.records = Append(segs[n].records, wseq + 1)
      /\ f.partial = 0
    <2>1. wseq + 1 \in Nat
        BY <1>0
    <2> QED BY <1>2, <2>1, RecordEdit, Zenon
<1>5. segs' = [segs EXCEPT ![n] = f]
    BY DEF EndRecord, Newest, WithRecord
<1> HIDE DEF f
<1>6. /\ Len(f.records) = Len(segs[n].records) + 1
      /\ f.records[Len(segs[n].records) + 1] = wseq + 1
      /\ \A k \in 1 .. Len(segs[n].records) : f.records[k] = segs[n].records[k]
    BY <1>0, <1>2, <1>4
<1>7. f.header = 1 /\ f.counter = n - 1
    BY <1>2, <1>3, <1>4 DEF FileInv
<1>8. wseq + 1 = f.first + Len(segs[n].records)
    BY <1>2, <1>4 DEF After
<1>9. ASSUME NEW k \in 1 .. Len(f.records) PROVE f.records[k] = f.first + k - 1
    <2>1. CASE k \in 1 .. Len(segs[n].records)
        BY <1>2, <1>4, <1>6, <2>1 DEF FileInv
    <2>2. CASE k = Len(segs[n].records) + 1
        <3>1. f.first \in Nat
            BY <1>2, <1>4
        <3>2. f.first + Len(segs[n].records) = f.first + k - 1
            BY <1>2, <2>2, <3>1
        <3> QED BY <1>6, <1>8, <2>2, <3>2, Zenon
    <2> QED BY <1>2, <1>6, <2>1, <2>2
<1>10. Len(segs[n].records) <= Len(f.records) /\ f.partial # 1
    BY <1>2, <1>4, <1>6
<1>11. /\ segs' \in Seq(Segment) /\ Len(segs') = n /\ segs'[n] = f
      /\ segs' # <<>> /\ segs'[1].first = segs[1].first
      /\ (\A i \in 1 .. Len(segs') : FileInv(i)') /\ Grows
    BY <1>0, <1>1, <1>4, <1>5, <1>7, <1>9, <1>10, NewestWritten, ZenonT(60)
<1>12. After(segs'[n]) = wseq' + 1
    <2>1. f.first \in Nat
        BY <1>2, <1>4
    <2>2. f.first + (Len(segs[n].records) + 1) = wseq + 1 + 1
        BY <1>0, <1>2, <1>8, <2>1, SMTT(60)
    <2> QED BY <1>0, <1>6, <1>11, <2>2, Zenon DEF After
<1>13. TailType'
    BY <1>0, <1>11 DEF TailType, EndRecord, tailerVars
<1>14. WriterInv'
    BY <1>0, <1>1, <1>7, <1>10, <1>11 DEF WriterInv, EndRecord
<1>15. JournalInv'
    BY <1>0, <1>1, <1>11, <1>12, <1>14 DEF JournalInv, EndRecord
<1> QED BY <1>11, <1>13, <1>15, WriterStep DEF EndRecord

\* A new file continues the newest, which is full, and lies behind it.
LEMMA AppendSegmentInv ==
    ASSUME IInv, CreateSegment, segs = <<>> \/ open
    PROVE  IInv'
<1> DEFINE n == Len(segs)  f == NewSegment(wseq + 1)
<1>0. TailType /\ JournalInv /\ wpc = "idle" /\ wpc' = "header" /\ wseq' = wseq /\ wseq \in Nat
    BY DEF IInv, CreateSegment, TailType
<1>1. segs # <<>> => segs[n].first # wseq + 1
    <2> SUFFICES ASSUME segs # <<>> PROVE segs[n].first # wseq + 1
        OBVIOUS
    <2>1. segs[n] \in Segment /\ After(segs[n]) = wseq + 1
        BY NewestFile
    <2>2. segs[n].first \in Nat /\ Len(segs[n].records) \in Nat
        BY <2>1 DEF Segment
    <2>3. Len(segs[n].records) >= RollRecords
        BY DEF CreateSegment, Newest
    <2>4. segs[n].first + Len(segs[n].records) = wseq + 1
        BY <2>1 DEF After
    <2> QED BY <2>2, <2>3, <2>4, TailerAssumption
<1>2. segs' = Append(segs, f)
    BY <1>1 DEF CreateSegment, Newest
<1>3. /\ f \in Segment /\ f.first = wseq + 1 /\ f.header = 0 /\ f.records = <<>> /\ f.partial = 0
      /\ Len(f.records) = 0
    BY <1>0 DEF NewSegment, Segment
<1> HIDE DEF f
<1>4. n \in Nat /\ segs \in Seq(Segment)
    BY <1>0 DEF TailType
<1>5. /\ segs' \in Seq(Segment) /\ Len(segs') = n + 1 /\ segs'[n + 1] = f
      /\ \A i \in 1 .. n : segs'[i] = segs[i]
    BY <1>2, <1>3, <1>4
<1>6. segs' # <<>>
    BY <1>4, <1>5
<1>7. TailType'
    BY <1>0, <1>5, ZenonT(60) DEF TailType, CreateSegment, tailerVars
<1>8. Grows
    <2>1. n <= n + 1
        BY <1>4
    <2>2. Len(segs) <= Len(segs')
        BY <1>5, <2>1, Zenon
    <2>3. ASSUME NEW i \in 1 .. n PROVE Len(segs[i].records) <= Len(segs'[i].records)
        <3>1. segs[i] \in Segment /\ segs'[i] = segs[i]
            BY <1>4, <1>5
        <3>2. Len(segs[i].records) <= Len(segs[i].records)
            BY <3>1 DEF Segment
        <3> QED BY <3>1, <3>2, Zenon
    <2> QED BY <1>5, <2>2, <2>3 DEF Grows
<1>9. After(segs'[n + 1]) = wseq' + 1
    BY <1>0, <1>3, <1>5 DEF After
<1>10. ASSUME NEW i \in 1 .. n PROVE FileInv(i)'
    <2>1. FileInv(i) /\ segs'[i] = segs[i] /\ i + 1 \in 1 .. n + 1 /\ i < n + 1
        BY <1>0, <1>4, <1>5 DEF JournalInv
    <2>2. segs[i].header # 0 /\ segs[i].partial # 1
        <3>1. CASE i = n
            <4>1. open
                BY <1>4, <3>1
            <4> QED BY <1>0, <3>1, <4>1 DEF JournalInv, WriterInv
        <3>2. CASE i # n
            BY <2>1, <3>2 DEF FileInv
        <3> QED BY <3>1, <3>2
    <2>3. segs'[i + 1].first = After(segs[i])
        <3>1. CASE i = n
            <4>1. segs # <<>> /\ segs'[i + 1].first = wseq + 1
                BY <1>3, <1>4, <1>5, <3>1
            <4> QED BY <1>0, <3>1, <4>1 DEF JournalInv
        <3>2. CASE i # n
            <4>1. i + 1 \in 1 .. n /\ i < n
                BY <1>4, <3>2
            <4> QED BY <1>5, <2>1, <4>1 DEF FileInv
        <3> QED BY <3>1, <3>2
    <2> QED BY <1>5, <2>1, <2>2, <2>3 DEF FileInv
<1>11. ASSUME NEW i, i = n + 1 PROVE FileInv(i)'
    <2>1. segs'[i] = f /\ i = Len(segs') /\ ~(i < Len(segs')) /\ i \in Nat
        BY <1>4, <1>5, <1>11
    <2> QED BY <1>0, <1>3, <2>1 DEF FileInv
<1>12. \A i \in 1 .. Len(segs') : FileInv(i)'
    <2>1. ASSUME NEW i \in 1 .. Len(segs') PROVE FileInv(i)'
        <3>1. i \in 1 .. n \/ i = n + 1
            BY <1>4, <1>5
        <3> QED BY <1>10, <1>11, <3>1
    <2> QED BY <2>1
<1>13. segs'[1].first = 1
    <2>1. CASE segs = <<>>
        BY <1>0, <1>3, <1>4, <1>5, <2>1 DEF JournalInv
    <2>2. CASE segs # <<>>
        <3>1. 1 \in 1 .. n
            BY <1>4, <2>2
        <3> QED BY <1>0, <1>5, <2>2, <3>1 DEF JournalInv
    <2> QED BY <2>1, <2>2
<1>14. counter' = Len(segs') - 1
    <2>1. counter = n
        <3>1. CASE open
            BY <1>0, <3>1 DEF JournalInv, WriterInv
        <3>2. CASE ~open
            BY <1>0, <3>2 DEF JournalInv, WriterInv
        <3> QED BY <3>1, <3>2
    <2> QED BY <1>4, <1>5, <2>1 DEF CreateSegment
<1>15. WriterInv'
    <2>1. ~open'
        BY Zenon DEF CreateSegment
    <2> QED BY <1>0, <1>3, <1>5, <1>14, <2>1 DEF WriterInv
<1>16. JournalInv'
    BY <1>0, <1>5, <1>6, <1>9, <1>12, <1>13, <1>15 DEF JournalInv
<1> QED BY <1>7, <1>8, <1>16, WriterStep DEF CreateSegment

\* A writer that starts over with a number that is not in use finds no file with a header.
LEMMA StartsFresh ==
    ASSUME IInv, CreateSegment, ~reused', ~open, segs # <<>>
    PROVE  Len(segs) = 1 /\ segs[1].header = 0
<1>1. TailType /\ JournalInv /\ wpc = "idle" /\ counter = 0
    BY DEF IInv, JournalInv, WriterInv, CreateSegment
<1>2. 1 \in 1 .. Len(segs) /\ FileInv(1) /\ segs[1] \in Segment /\ Len(segs) \in Nat
    BY <1>1 DEF JournalInv, TailType
<1>3. segs[1].header # 1
    <2>1. ~InUse(counter)
        BY Zenon DEF CreateSegment
    <2>2. 1 \in DOMAIN segs
        BY <1>1, <1>2 DEF TailType
    <2>3. segs[1].header # 0 => segs[1].counter # 0
        BY <1>1, <2>1, <2>2 DEF InUse
    <2> QED BY <1>2, <2>3 DEF FileInv
<1>4. segs[1].header = 0
    BY <1>2, <1>3 DEF Segment
<1> QED BY <1>2, <1>4 DEF FileInv

\* The very first file, left without a header, is created again.
LEMMA FirstAgainInv ==
    ASSUME IInv, CreateSegment, Len(segs) = 1, segs[1].header = 0, ~open
    PROVE  IInv'
<1> DEFINE f == NewSegment(wseq + 1)
<1>1. TailType /\ JournalInv /\ wpc = "idle" /\ wpc' = "header" /\ wseq' = wseq /\ wseq \in Nat
      /\ open' = FALSE /\ counter = 0 /\ counter' = counter
    BY DEF IInv, CreateSegment, TailType, JournalInv, WriterInv
<1>2. segs # <<>> /\ segs \in Seq(Segment)
    <2>1. segs \in Seq(Segment)
        BY <1>1, Zenon DEF TailType
    <2>2. segs = <<>> => Len(segs) = 0
        OBVIOUS
    <2> QED BY <2>1, <2>2
<1>3. segs[1] \in Segment /\ FileInv(1) /\ After(segs[1]) = wseq + 1 /\ segs[1].first = 1
    BY <1>2, NewestFile, <1>1 DEF JournalInv
<1>4. segs[1].records = <<>> /\ Len(segs[1].records) = 0
    BY <1>3 DEF FileInv
<1>5. wseq = 0 /\ segs[1].first = wseq + 1
    BY <1>1, <1>3, <1>4 DEF After
<1>6. segs' = [segs EXCEPT ![Len(segs)] = f]
    BY <1>2, <1>5 DEF CreateSegment, Newest
<1>7. /\ f \in Segment /\ f.first = 1 /\ f.header = 0 /\ f.records = <<>> /\ f.partial = 0
      /\ Len(f.records) = 0
    BY <1>1, <1>5 DEF NewSegment, Segment
<1> HIDE DEF f
<1>8. segs' \in Seq(Segment) /\ Len(segs') = 1 /\ segs'[1] = f /\ segs' # <<>>
    BY <1>2, <1>6, <1>7, UpdateLast
<1>9. TailType'
    BY <1>1, <1>8, ZenonT(60) DEF TailType, CreateSegment, tailerVars
<1>10. Grows
    <2>1. Len(segs) <= Len(segs') /\ 0 <= 0
        BY <1>8
    <2>2. ASSUME NEW i \in 1 .. Len(segs) PROVE i = 1 /\ ~(i < Len(segs))
        OBVIOUS
    <2>3. segs'[1].first = segs[1].first /\ segs[1].header # 1
          /\ Len(segs[1].records) <= Len(segs'[1].records)
        BY <1>3, <1>4, <1>7, <1>8
    <2> QED BY <2>1, <2>2, <2>3, Zenon DEF Grows
<1>11. ASSUME NEW i \in 1 .. 1 PROVE FileInv(i)'
    <2>1. i = 1 /\ ~(i < Len(segs'))
        BY <1>8
    <2> QED BY <1>1, <1>7, <1>8, <2>1 DEF FileInv
<1>12. WriterInv'
    BY <1>1, <1>7, <1>8 DEF WriterInv
<1>13. After(segs'[1]) = wseq' + 1
    BY <1>1, <1>5, <1>7, <1>8 DEF After
<1>14. JournalInv'
    BY <1>7, <1>8, <1>11, <1>12, <1>13 DEF JournalInv
<1> QED BY <1>9, <1>10, <1>14, WriterStep DEF CreateSegment

\* A file is created under a number that is not in use.
LEMMA CreateSegmentInv == ASSUME IInv, CreateSegment, ~reused' PROVE IInv'
BY AppendSegmentInv, StartsFresh, FirstAgainInv

\* The process ends or starts over, and the files are as they were.
LEMMA SameFiles ==
    ASSUME IInv, segs' = segs, wpc' \in {"off", "idle"}, wseq' = wseq, ~open',
           wpc' = "idle" => counter' = 0
    PROVE  JournalInv' /\ Grows
<1>1. TailType /\ JournalInv
    BY DEF IInv
<1>2. ASSUME NEW i \in 1 .. Len(segs) PROVE FileInv(i)'
    BY <1>1 DEF JournalInv, FileInv
<1>3. WriterInv'
    BY DEF WriterInv
<1>4. JournalInv'
    BY <1>1, <1>2, <1>3 DEF JournalInv
<1>5. Grows
    <2>1. Len(segs) <= Len(segs)
        BY <1>1 DEF TailType
    <2>2. ASSUME NEW i \in 1 .. Len(segs) PROVE Len(segs[i].records) <= Len(segs[i].records)
        BY <1>1 DEF TailType, Segment
    <2> QED BY <2>1, <2>2 DEF Grows
<1> QED BY <1>4, <1>5

\* The process ends, wherever it is.
LEMMA WriterEndsInv == ASSUME IInv, WriterEnds PROVE IInv'
<1>1. TailType /\ segs' = segs /\ wseq' = wseq /\ wpc' = "off"
    BY DEF IInv, WriterEnds
<1>2. open' \in BOOLEAN /\ ~open'
    BY Zenon DEF WriterEnds
<1>3. TailType'
    <2>1. restarts' \in Nat
        BY <1>1 DEF TailType, WriterEnds
    <2> QED BY <1>1, <1>2, <2>1 DEF TailType, WriterEnds, tailerVars
<1>4. JournalInv' /\ Grows
    BY <1>1, <1>2, SameFiles
<1> QED BY <1>3, <1>4, WriterStep DEF WriterEnds

\* What there is of the last record is cut off.
LEMMA CutFacts ==
    ASSUME IInv, TornTail, wpc' = "idle", segs' = Cut
    PROVE  /\ segs # <<>> /\ segs' \in Seq(Segment) /\ Len(segs') = Len(segs) /\ segs' # <<>>
           /\ segs[Len(segs)].counter + 1 = Len(segs)
           /\ segs'[1].first = segs[1].first /\ After(segs'[Len(segs)]) = wseq + 1
           /\ segs'[Len(segs)].header = 1 /\ segs'[Len(segs)].partial # 1
           /\ (\A i \in 1 .. Len(segs') : FileInv(i)') /\ Grows
<1> DEFINE n == Len(segs)  f == [segs[n] EXCEPT !.partial = 0]
<1>1. segs # <<>> /\ segs[n].partial # 0
    BY DEF TornTail, Newest
<1>2. n \in Nat /\ n \in 1 .. n /\ segs[n] \in Segment /\ FileInv(n) /\ After(segs[n]) = wseq + 1
      /\ Len(segs[n].records) \in Nat
    BY <1>1, NewestFile
<1>3. segs[n].header = 1
    BY <1>1, <1>2 DEF FileInv, Segment
<1>4. /\ f \in Segment /\ f.first = segs[n].first /\ f.header = segs[n].header
      /\ f.counter = segs[n].counter /\ f.records = segs[n].records /\ f.partial = 0
    <2>1. 0 \in 0 .. 1
        OBVIOUS
    <2> QED BY <1>2, <2>1, PartialEdit, Zenon
<1>5. segs' = [segs EXCEPT ![n] = f]
    BY DEF Cut, Newest
<1> HIDE DEF f
<1>6. f.header = 1 /\ f.counter = n - 1 /\ Len(segs[n].records) <= Len(f.records)
      /\ f.partial # 1
      /\ \A k \in 1 .. Len(f.records) : f.records[k] = f.first + k - 1
    BY <1>2, <1>3, <1>4 DEF FileInv
<1>7. /\ segs' \in Seq(Segment) /\ Len(segs') = n /\ segs'[n] = f
      /\ segs' # <<>> /\ segs'[1].first = segs[1].first
      /\ (\A i \in 1 .. Len(segs') : FileInv(i)') /\ Grows
    BY <1>1, <1>4, <1>5, <1>6, NewestWritten, ZenonT(60)
<1>8. After(segs'[n]) = wseq + 1
    BY <1>2, <1>4, <1>7 DEF After
<1>9. segs[n].counter + 1 = n
    BY <1>2, <1>4, <1>6
<1> QED BY <1>1, <1>6, <1>7, <1>8, <1>9, Zenon

\* It comes back, and goes on in the file it has cut or starts over.
LEMMA WriterRecoversInv == ASSUME IInv, WriterRecovers PROVE IInv'
<1>1. TailType /\ JournalInv /\ wpc' = "idle" /\ wseq' = wseq /\ Len(segs) \in Nat
    BY DEF IInv, WriterRecovers, TailType
<1>2. CASE Resumes
    <2>1. TornTail /\ segs' = Cut /\ open' = TRUE /\ counter' = segs[Len(segs)].counter + 1
        BY <1>2 DEF Resumes, Newest
    <2>2. counter' = Len(segs) /\ segs # <<>>
        BY <1>1, <2>1, CutFacts
    <2>3. /\ segs' \in Seq(Segment) /\ Len(segs') = Len(segs) /\ segs' # <<>>
          /\ segs'[1].first = segs[1].first /\ After(segs'[Len(segs)]) = wseq + 1
          /\ segs'[Len(segs)].header = 1 /\ segs'[Len(segs)].partial # 1
          /\ (\A i \in 1 .. Len(segs') : FileInv(i)') /\ Grows
        BY <1>1, <2>1, CutFacts, Zenon
    <2>4. TailType'
        BY <1>1, <2>1, <2>2, <2>3 DEF TailType, WriterRecovers, tailerVars
    <2>5. WriterInv'
        BY <1>1, <2>1, <2>2, <2>3 DEF WriterInv
    <2>6. JournalInv'
        BY <1>1, <2>2, <2>3, <2>5 DEF JournalInv
    <2> QED BY <2>3, <2>4, <2>6, WriterStep DEF WriterRecovers
<1>3. CASE StartsOver
    <2>1. open' \in BOOLEAN /\ ~open' /\ counter' = 0
        BY <1>3, Zenon DEF StartsOver
    <2>2. CASE segs' = segs
        <3>1. JournalInv' /\ Grows
            BY <1>1, <2>1, <2>2, SameFiles
        <3>2. TailType'
            BY <1>1, <2>1, <2>2 DEF TailType, WriterRecovers, tailerVars
        <3> QED BY <3>1, <3>2, WriterStep DEF WriterRecovers
    <2>3. CASE segs' # segs
        <3>1. TornTail /\ segs' = Cut
            BY <1>3, <2>3 DEF StartsOver
        <3>2. /\ segs' \in Seq(Segment) /\ Len(segs') = Len(segs) /\ segs' # <<>> /\ segs # <<>>
              /\ segs'[1].first = segs[1].first /\ After(segs'[Len(segs)]) = wseq + 1
              /\ (\A i \in 1 .. Len(segs') : FileInv(i)') /\ Grows
            BY <1>1, <3>1, CutFacts, Zenon
        <3>3. TailType'
            BY <1>1, <2>1, <3>2 DEF TailType, WriterRecovers, tailerVars
        <3>4. WriterInv'
            BY <1>1, <2>1 DEF WriterInv
        <3>5. JournalInv'
            BY <1>1, <3>2, <3>4 DEF JournalInv
        <3> QED BY <3>2, <3>3, <3>5, WriterStep DEF WriterRecovers
    <2> QED BY <2>2, <2>3
<1> QED BY <1>2, <1>3 DEF WriterRecovers
-----------------------------------------------------------------------------
\* What is left to show of a step of the tailer.
LEMMA TailerStep ==
    ASSUME IInv, UNCHANGED writerVars, TailType', tpc' # "off" => TailerInv', NotCorrupt',
           saved'.lastGood # 0 => At(saved', segs)
    PROVE  IInv'
<1>1. JournalInv /\ segs' = segs
    BY DEF IInv, writerVars
<1>2. ASSUME NEW i \in 1 .. Len(segs) PROVE FileInv(i)'
    BY <1>1 DEF JournalInv, FileInv, writerVars
<1>3. WriterInv'
    BY <1>1 DEF JournalInv, WriterInv, writerVars
<1>4. JournalInv'
    BY <1>1, <1>2, <1>3 DEF JournalInv, writerVars
<1> QED BY <1>1, <1>4 DEF IInv

\* A file can be opened when it has its header.
LEMMA OpenableIff ==
    ASSUME IInv, NEW i \in 1 .. Len(segs)
    PROVE  /\ Openable(i) <=> segs[i].header = 1
           /\ segs[i].header = 1 => segs[i].counter = i - 1
           /\ i < Len(segs) => segs[i].header = 1
<1>1. FileInv(i) /\ segs[i] \in Segment /\ JournalInv /\ Len(segs) \in Nat
    BY DEF IInv, JournalInv, TailType
<1>2. Len(segs[i].records) \in Nat /\ segs[i].header \in 0 .. 1 /\ segs[i].partial \in 0 .. 1
    BY <1>1 DEF Segment
<1>3. segs[i].header = 1 => segs[i].counter = i - 1
    BY <1>1 DEF FileInv
<1>4. i < Len(segs) => segs[i].header = 1
    BY <1>1, <1>2 DEF FileInv
<1>5. CASE segs[i].header = 1
    BY <1>2, <1>3, <1>4, <1>5 DEF Openable, Size, HeaderSize, RecordSize
<1>6. CASE segs[i].header = 0
    <2>1. Len(segs[i].records) = 0 /\ segs[i].partial = 0
        BY <1>1, <1>6 DEF FileInv
    <2>2. ~Openable(i)
        BY <1>6, <2>1 DEF Openable, Size, HeaderSize, RecordSize
    <2> QED BY <1>3, <1>4, <1>6, <2>2
<1> QED BY <1>2, <1>5, <1>6

\* The one number in a set of one.
LEMMA MinOne == \A n \in Nat : Min({n}) = n
BY DEF Min

\* Seeking to a position in a file that is known finds that file, and no other.
LEMMA SeekFinds ==
    ASSUME IInv, known' \in Nat, known' <= Len(segs), NEW cp \in Checkpoint, At(cp, segs),
           cp.counter + 1 <= known', SeekTo(cp)
    PROVE  /\ fd' = cp.counter + 1 /\ nextIdx' = fd' + 1 /\ pos' = cp
           /\ size' = Size(segs[fd'])
<1> DEFINE j == cp.counter + 1
           opened == {i \in 1 .. known' : Openable(i)}
           hits == {i \in opened : segs[i].counter = cp.counter}
<1>1. cp.counter \in Nat /\ Len(segs) \in Nat /\ j \in 1 .. Len(segs) /\ segs[j].header = 1
    BY DEF Checkpoint, At, IInv, TailType
<1>2. j \in 1 .. known' /\ j \in Nat
    BY <1>1
<1>3. \A i \in 1 .. known' : i \in 1 .. Len(segs)
    BY <1>1
<1>4. j \in hits
    <2>1. Openable(j) /\ segs[j].counter = j - 1
        BY <1>1, OpenableIff
    <2>2. j - 1 = cp.counter
        BY <1>1
    <2> QED BY <1>2, <2>1, <2>2
<1>5. ASSUME NEW i \in hits PROVE i = j
    <2>1. i \in 1 .. Len(segs) /\ Openable(i) /\ segs[i].counter = cp.counter
        BY <1>3, <1>5
    <2>2. segs[i].counter = i - 1
        BY <2>1, OpenableIff
    <2> QED BY <1>1, <2>1, <2>2
<1>6. hits = {j}
    BY <1>4, <1>5
<1>7. Min(hits) = j
    BY <1>2, <1>6, MinOne
<1>8. hits # {}
    BY <1>4
<1>9. [cp EXCEPT !.offset = SeekOffset(cp)] = cp
    BY DEF SeekOffset, Checkpoint
<1>10. fd' = j /\ size' = Size(segs[j]) /\ nextIdx' = j + 1
       /\ pos' = [cp EXCEPT !.offset = SeekOffset(cp)]
    BY <1>7, <1>8, ZenonT(60) DEF SeekTo
<1> QED BY <1>9, <1>10

\* A position is behind the header.
LEMMA AtOffset ==
    ASSUME TailType, NEW p \in Checkpoint, At(p, segs)
    PROVE  p.offset >= 1 /\ p.offset # 0
<1>0. segs[p.counter + 1] \in Segment
    BY DEF At, TailType
<1>1. PICK a \in Nat : a = segs[p.counter + 1].first
    BY <1>0 DEF Segment
<1>2. p.lastGood \in Nat /\ a <= p.lastGood + 1 /\ p.offset = 1 + 2 * (p.lastGood + 1 - a)
    BY <1>1 DEF At, Checkpoint
<1> QED BY <1>2

\* A tailer that has just found the file of its position stands right.
LEMMA SeekStands ==
    ASSUME IInv, UNCHANGED segs, known' \in Nat, known' <= Len(segs), tpc' # "seek",
           NEW cp \in Checkpoint, At(cp, segs), cp.counter + 1 <= known', SeekTo(cp)
    PROVE  TailerInv' /\ fd' \in Nat /\ nextIdx' \in Nat \ {0} /\ size' \in Nat /\ pos' \in Checkpoint
<1>1. fd' = cp.counter + 1 /\ nextIdx' = fd' + 1 /\ pos' = cp /\ size' = Size(segs[fd'])
    BY SeekFinds
<1>2. TailType /\ segs' = segs
    BY DEF IInv
<1>3. pos'.offset # 0
    BY <1>1, <1>2, AtOffset
<1>4. cp.counter \in Nat /\ fd' \in Nat /\ nextIdx' \in Nat \ {0} /\ fd' \in 1 .. Len(segs) /\ fd' # 0
    BY <1>1, SMTT(60) DEF Checkpoint, At
<1>5. size' \in Nat
    <2>1. segs[fd'] \in Segment
        BY <1>2, <1>4 DEF TailType
    <2>2. Size(segs[fd']) \in Nat
        BY <2>1 DEF Segment, Size, RecordSize
    <2> QED BY <1>1, <2>2
<1>6. TailerInv'
    BY <1>1, <1>2, <1>3, <1>4 DEF TailerInv
<1> QED BY <1>1, <1>4, <1>5, <1>6

\* A new tailer starts at a checkpoint of its journal, or before the first record of the first
\* file, whose header is there.
LEMMA ConstructInv ==
    ASSUME IInv, ~missed', NEW cp \in Checkpoint, cp.lastGood # 0 => At(cp, segs), Construct(cp)
    PROVE  IInv'
<1>1. /\ TailType /\ JournalInv /\ UNCHANGED writerVars /\ saved' = saved /\ segs' = segs
      /\ known' = Len(segs) /\ tpc' = "idle" /\ reseek' = FALSE /\ Len(segs) \in Nat
    BY DEF IInv, Construct, Newest, writerVars, TailType
<1>2. TailerInv' /\ fd' \in Nat /\ nextIdx' \in Nat \ {0} /\ size' \in Nat /\ pos' \in Checkpoint
    <2>1. CASE cp.lastGood # 0
        <3>1. SeekTo(cp) /\ At(cp, segs)
            BY <2>1 DEF Construct
        <3>2. known' \in Nat /\ known' <= Len(segs) /\ cp.counter + 1 <= known'
            BY <1>1, <3>1 DEF At
        <3> QED BY <1>1, <3>1, <3>2, SeekStands
    <2>2. CASE cp.lastGood = 0
        <3>1. fd' = 0 /\ size' = 0 /\ nextIdx' = 1 /\ pos' = NoCheckpoint
            BY <2>2 DEF Construct
        <3>2. pos'.offset = 0 /\ pos'.lastGood = 0 /\ pos' \in Checkpoint
            BY <3>1 DEF NoCheckpoint, Checkpoint
        <3>3. Len(segs) # 0 => segs[1].header = 1 /\ segs[1].first = 1
            <4> SUFFICES ASSUME Len(segs) # 0 PROVE segs[1].header = 1 /\ segs[1].first = 1
                OBVIOUS
            <4>1. segs # <<>> /\ 1 \in 1 .. Len(segs)
                BY <1>1
            <4>2. Openable(1)
                BY <4>1, Zenon DEF Construct
            <4> QED BY <1>1, <4>1, <4>2, OpenableIff DEF JournalInv
        <3>4. known' <= Len(segs')
            BY <1>1
        <3>5. 1 <= known' => Len(segs) # 0
            BY <1>1
        <3>6. TailerInv'
            BY <1>1, <3>1, <3>2, <3>3, <3>4, <3>5 DEF TailerInv
        <3> QED BY <3>1, <3>2, <3>6
    <2> QED BY <2>1, <2>2
<1>3. TailType'
    BY <1>1, <1>2, ZenonT(60) DEF TailType, writerVars
<1>4. NotCorrupt' /\ (saved'.lastGood # 0 => At(saved', segs))
    BY <1>1 DEF NotCorrupt, IInv
<1> QED BY <1>1, <1>2, <1>3, <1>4, TailerStep

\* Looking at the directory again adds files that have their headers.
LEMMA RescanFacts ==
    ASSUME IInv, TailerInv, Rescan
    PROVE  /\ known' \in Nat /\ known <= known' /\ known' <= Len(segs)
           /\ known' # 0 => known # 0 \/ segs[1].header = 1
<1> DEFINE T == {known} \cup {i \in 1 .. Len(segs) : Listed(i)}
<1>1. Len(segs) \in Nat /\ known \in 0 .. Len(segs)
    BY DEF IInv, TailType, TailerInv
<1>2. \A y : y \in T <=> y = known \/ (y \in 1 .. Len(segs) /\ Listed(y))
    OBVIOUS
<1>3. known' = Max(T)
    BY DEF Rescan, Newest
<1> HIDE DEF T
<1>4. \E x \in T : \A y \in T : x >= y
    <2> DEFINE n == Len(segs)
    <2>0. n \in Nat
        BY <1>1
    <2>1. \A y \in T : y \in 0 .. n
        BY <1>1, <1>2
    <2>2. CASE n \in T
        BY <1>1, <2>1, <2>2
    <2>3. CASE n \notin T
        <3>1. known \in 0 .. n - 1 /\ \A y \in T : y \in 0 .. n - 1
            BY <1>1, <1>2, <2>1, <2>3
        <3>2. CASE n - 1 = 0
            <4> HIDE DEF n
            <4>1. \A y \in T : y = 0
                BY <2>0, <3>1, <3>2
            <4>2. known \in T
                BY <1>2
            <4> QED BY <4>1, <4>2
        <3>3. CASE n - 1 # 0
            <4>1. n - 1 \in 1 .. n /\ n - 1 < n
                <5>1. n \in Nat /\ n # 0
                    BY <2>0, <3>1
                <5> HIDE DEF n
                <5> QED BY <3>3, <5>1
            <4>2. Listed(n - 1)
                BY <4>1, OpenableIff DEF Listed, Openable
            <4>3. n - 1 \in T
                BY <1>2, <4>1, <4>2
            <4> QED BY <1>1, <3>1, <4>3
        <3> QED BY <3>2, <3>3
    <2> QED BY <2>2, <2>3
<1>max. Max(T) \in T /\ \A x \in T : Max(T) >= x
    BY <1>4, Zenon DEF Max
<1>5. known' \in 0 .. Len(segs) /\ known' >= known /\ known' \in T
    BY <1>1, <1>2, <1>max, <1>3
<1>6. ASSUME known' # 0, known = 0 PROVE segs[1].header = 1
    <2>1. known' \in 1 .. Len(segs) /\ Listed(known')
        BY <1>2, <1>5, <1>6
    <2>2. known' \in 1 .. Len(segs) /\ Openable(known')
        BY <2>1 DEF Listed, Openable
    <2>3. segs[known'].header = 1
        BY <2>2, OpenableIff
    <2>4. 1 \in 1 .. Len(segs) /\ (1 < Len(segs) \/ known' = 1)
        BY <1>1, <2>2
    <2> QED BY <2>3, <2>4, OpenableIff
<1> QED BY <1>1, <1>5, <1>6

\* next() reopening the file of its position preserves the invariant.
LEMMA ReseekInv == ASSUME IInv, Next1Reseek PROVE IInv'
<1>1. /\ TailType /\ TailerInv /\ UNCHANGED writerVars /\ saved' = saved /\ segs' = segs
      /\ tpc' = "seek" /\ UNCHANGED <<nextIdx, fd, size, pos, reseek>> /\ Rescan
    BY DEF IInv, Next1Reseek, writerVars
<1>2. /\ known' \in Nat /\ known <= known' /\ known' <= Len(segs)
      /\ known' # 0 => known # 0 \/ segs[1].header = 1
    BY <1>1, RescanFacts
<1>3. TailType'
    BY <1>1, <1>2 DEF TailType, writerVars
<1>4. pos.offset # 0 => pos.counter + 1 <= known'
    <2>1. pos.counter \in Nat /\ known \in Nat
        BY <1>1 DEF TailType, Checkpoint
    <2> QED BY <1>1, <1>2, <2>1 DEF TailerInv
<1>5. pos.offset = 0 => (known' # 0 => segs[1].header = 1)
    BY <1>1, <1>2 DEF TailerInv
<1>6. TailerInv'
    BY <1>1, <1>2, <1>4, <1>5 DEF TailerInv
<1>7. NotCorrupt' /\ (saved'.lastGood # 0 => At(saved', segs))
    BY <1>1 DEF NotCorrupt, IInv
<1> QED BY <1>1, <1>3, <1>6, <1>7, TailerStep

\* next() looking for the next file preserves the invariant.
LEMMA SeekInv == ASSUME IInv, Next2Seek PROVE IInv'
<1>1. /\ TailType /\ JournalInv /\ TailerInv /\ UNCHANGED writerVars /\ saved' = saved /\ segs' = segs
      /\ tpc' = "read" /\ known' = known /\ reseek' = FALSE /\ pos \in Checkpoint
      /\ known \in Nat /\ known <= Len(segs)
    BY DEF IInv, Next2Seek, writerVars, TailType, TailerInv
<1>2. TailerInv' /\ fd' \in Nat /\ nextIdx' \in Nat \ {0} /\ size' \in Nat /\ pos' \in Checkpoint
    <2>1. CASE pos.offset # 0
        <3>1. At(pos, segs) /\ pos.counter + 1 <= known
            BY <1>1, <2>1 DEF TailerInv
        <3>2. pos.offset >= HeaderSize
            BY <1>1, <3>1, AtOffset DEF HeaderSize
        <3>3. PICK cp \in Checkpoint : cp = pos
            BY <1>1
        <3>4. SeekTo(cp)
            BY <3>2, <3>3 DEF Next2Seek, SeekTo
        <3>5. At(cp, segs) /\ cp.counter + 1 <= known'
            BY <1>1, <3>1, <3>3
        <3> QED BY <1>1, <3>4, <3>5, SeekStands
    <2>2. CASE pos.offset = 0
        <3>1. UNCHANGED <<nextIdx, fd, size, pos>>
            BY <2>2 DEF Next2Seek, HeaderSize
        <3>2. nextIdx = 1 /\ fd = 0 /\ pos.lastGood = 0
            BY <1>1, <2>2 DEF TailerInv
        <3>3. 1 <= known => segs[1].first = 1
            <4>1. 1 <= known => segs # <<>>
                BY <1>1
            <4> QED BY <1>1, <4>1 DEF JournalInv
        <3>4. TailerInv'
            BY <1>1, <2>2, <3>1, <3>2, <3>3 DEF TailerInv
        <3> QED BY <1>1, <3>1, <3>4 DEF TailType
    <2> QED BY <2>1, <2>2
<1>3. TailType'
    BY <1>1, <1>2, ZenonT(60) DEF TailType, writerVars
<1>4. NotCorrupt' /\ (saved'.lastGood # 0 => At(saved', segs))
    BY <1>1 DEF NotCorrupt, IInv
<1> QED BY <1>1, <1>2, <1>3, <1>4, TailerStep

\* Looking at the size of the open file brings it up to date.
LEMMA RefreshInv == ASSUME IInv, Next1Refresh PROVE IInv'
<1>1. /\ TailType /\ TailerInv /\ UNCHANGED writerVars /\ saved' = saved /\ segs' = segs
      /\ tpc' = "read" /\ UNCHANGED <<known, nextIdx, fd, pos, reseek>>
      /\ size' = IF fd # 0 THEN Size(segs[fd]) ELSE size
    BY DEF IInv, Next1Refresh, writerVars
<1>2. size' \in Nat
    <2>1. CASE fd # 0
        <3>1. pos.offset # 0 /\ fd = pos.counter + 1
            BY <1>1, <2>1 DEF TailerInv
        <3>2. segs[fd] \in Segment
            BY <1>1, <3>1, SMTT(60) DEF TailerInv, At, TailType
        <3>3. Size(segs[fd]) \in Nat
            BY <3>2 DEF Segment, Size, RecordSize
        <3> QED BY <1>1, <2>1, <3>3
    <2>2. CASE fd = 0
        BY <1>1, <2>2 DEF TailType
    <2> QED BY <2>1, <2>2
<1>3. TailType'
    BY <1>1, <1>2 DEF TailType, writerVars
<1>4. tpc # "seek"
    BY DEF Next1Refresh
<1>5. TailerInv'
    BY <1>1, <1>4 DEF TailerInv
<1>6. NotCorrupt' /\ (saved'.lastGood # 0 => At(saved', segs))
    BY <1>1 DEF NotCorrupt, IInv
<1> QED BY <1>1, <1>3, <1>5, <1>6, TailerStep

\* The next file starts with the record after the last; a file without a header is passed over
\* only when it is the newest, and is found again.
LEMMA OpenNextInv == ASSUME IInv, OpenNext PROVE IInv'
<1>1. /\ TailType /\ TailerInv /\ UNCHANGED writerVars /\ saved' = saved /\ segs' = segs
      /\ tpc' = tpc /\ tpc = "read" /\ UNCHANGED <<known, reseek>> /\ nextIdx' = nextIdx + 1
      /\ fd = 0 /\ nextIdx <= known /\ nextIdx \in Nat \ {0} /\ known \in Nat
      /\ known <= Len(segs) /\ Len(segs) \in Nat /\ pos \in Checkpoint
    BY DEF IInv, OpenNext, writerVars, TailType, TailerInv
<1>2. nextIdx \in 1 .. Len(segs)
    BY <1>1
<1>3. PICK i \in 1 .. Len(segs) : i = nextIdx
    BY <1>2
<1>4. /\ Openable(i) <=> segs[i].header = 1
      /\ segs[i].header = 1 => segs[i].counter = i - 1
      /\ i < Len(segs) => segs[i].header = 1
    BY OpenableIff
<1>5. segs[i] \in Segment /\ segs[i].first = pos.lastGood + 1
    BY <1>1, <1>3 DEF TailType, TailerInv
<1>6. TailerInv' /\ fd' \in Nat /\ nextIdx' \in Nat \ {0} /\ size' \in Nat /\ pos' \in Checkpoint
    <2>1. CASE Openable(i)
        <3>1. fd' = i /\ size' = Size(segs[i])
              /\ pos' = [pos EXCEPT !.counter = segs[i].counter, !.offset = 1]
            BY <1>3, <2>1 DEF OpenNext, HeaderSize
        <3>2. PICK c \in Nat : c = i - 1 /\ segs[i].counter = c
            BY <1>4, <2>1
        <3>3. pos' = [counter |-> c, offset |-> 1, lastGood |-> pos.lastGood]
            BY <1>1, <3>1, <3>2, ZenonT(60) DEF Checkpoint
        <3>4. pos' \in Checkpoint /\ pos'.offset = 1 /\ pos'.counter + 1 = i
              /\ pos'.lastGood = pos.lastGood /\ pos.lastGood \in Nat
            BY <1>1, <3>2, <3>3 DEF Checkpoint
        <3>5. Size(segs[i]) \in Nat /\ Len(segs[i].records) \in Nat
            BY <1>5 DEF Segment, Size, RecordSize
        <3>6. At(pos', segs)
            <4>1. PICK g \in Nat, f \in Segment, n \in Nat :
                      g = pos.lastGood /\ f = segs[i] /\ n = Len(f.records)
                BY <1>5, <3>4, <3>5
            <4>2. f.header = 1 /\ f.first = g + 1
                BY <1>4, <1>5, <2>1, <4>1
            <4>3. f.first <= g + 1 /\ g + 1 <= f.first + n /\ 1 = 1 + 2 * (g + 1 - f.first)
                <5>1. \A a, b, m \in Nat : a = b => a <= b /\ b <= a + m /\ 1 = 1 + 2 * (b - a)
                    OBVIOUS
                <5>2. PICK b \in Nat : b = g + 1
                    OBVIOUS
                <5>3. b <= b /\ b <= b + n /\ 1 = 1 + 2 * (b - b)
                    BY <5>1
                <5>4. f.first = b /\ g + 1 = b
                    BY <4>2, <5>2
                <5>5. f.first <= g + 1
                    BY <5>3, <5>4, Zenon
                <5>6. g + 1 <= f.first + n
                    BY <5>3, <5>4, Zenon
                <5>7. 1 = 1 + 2 * (g + 1 - f.first)
                    BY <4>2
                <5> QED BY <5>5, <5>6, <5>7
            <4>4. g + 1 <= After(f)
                BY <4>1, <4>3, Zenon DEF After
            <4> QED BY <1>3, <3>4, <4>1, <4>2, <4>3, <4>4, Zenon DEF At
        <3>7. fd' \in Nat /\ fd' # 0 /\ i <= known' /\ nextIdx' = fd' + 1
            BY <1>1, <1>3, <3>1
        <3>8. TailerInv'
            BY <1>1, <3>1, <3>4, <3>6, <3>7 DEF TailerInv
        <3> QED BY <1>1, <3>1, <3>4, <3>5, <3>7, <3>8
    <2>2. CASE ~Openable(i)
        <3>1. UNCHANGED <<fd, size, pos>>
            BY <1>3, <2>2 DEF OpenNext
        <3>2. i = Len(segs) /\ segs[i].header # 1
            BY <1>4, <2>2
        <3>3. ~(nextIdx' <= known')
            BY <1>1, <1>3, <3>2
        <3>4. pos.offset # 0
            <4>1. known # 0
                BY <1>1
            <4> QED BY <1>1, <1>3, <3>2, <4>1 DEF TailerInv
        <3>5. TailerInv'
            BY <1>1, <3>1, <3>3, <3>4 DEF TailerInv
        <3> QED BY <1>1, <3>1, <3>5 DEF TailType
    <2> QED BY <2>1, <2>2
<1>7. TailType'
    BY <1>1, <1>6 DEF TailType, writerVars
<1>8. NotCorrupt' /\ (saved'.lastGood # 0 => At(saved', segs))
    BY <1>1 DEF NotCorrupt, IInv
<1> QED BY <1>1, <1>6, <1>7, <1>8, TailerStep

\* Coming back later, or being asked again, moves nothing.
LEMMA AnswerInv ==
    ASSUME IInv, tpc # "off", tpc # "seek", UNCHANGED <<writerVars, known, nextIdx, fd, size, pos, saved>>,
           reseek' \in BOOLEAN, tpc' \in {"off", "idle", "notyet"}
    PROVE  IInv'
<1>1. TailType /\ TailerInv /\ segs' = segs
    BY DEF IInv, writerVars
<1>2. TailType'
    BY <1>1 DEF TailType, writerVars
<1>3. TailerInv'
    BY <1>1 DEF TailerInv
<1>4. NotCorrupt' /\ (saved'.lastGood # 0 => At(saved', segs))
    BY DEF NotCorrupt, IInv
<1> QED BY <1>1, <1>2, <1>3, <1>4, TailerStep

\* The end of a sealed file is the end of its records.
LEMMA EndOfSegmentInv == ASSUME IInv, EndOfSegment PROVE IInv'
<1>1. /\ TailType /\ TailerInv /\ JournalInv /\ UNCHANGED writerVars /\ saved' = saved /\ segs' = segs
      /\ tpc' = tpc /\ tpc = "read" /\ UNCHANGED <<known, nextIdx, size, pos, reseek>> /\ fd' = 0
      /\ fd # 0 /\ pos.offset = size /\ fd \in Nat /\ known \in Nat
      /\ known <= Len(segs) /\ Len(segs) \in Nat /\ pos \in Checkpoint
    BY DEF IInv, EndOfSegment, writerVars, TailType, TailerInv
<1>2. pos.offset # 0 /\ fd = pos.counter + 1 /\ nextIdx = fd + 1 /\ At(pos, segs)
    BY <1>1 DEF TailerInv
<1>3. ASSUME nextIdx <= known PROVE segs[nextIdx].first = pos.lastGood + 1
    <2>1. fd \in 1 .. Len(segs) /\ fd < Len(segs)
        BY <1>1, <1>2, <1>3
    <2>2. FileInv(fd) /\ segs[fd] \in Segment
        BY <1>1, <2>1 DEF JournalInv, TailType
    <2>3. PICK f \in Segment : f = segs[fd]
        BY <2>2
    <2>4. f.partial # 1 /\ segs[fd + 1].first = After(f)
        BY <2>1, <2>2, <2>3 DEF FileInv
    <2>5. f.header = 1 /\ pos.offset = 1 + 2 * (pos.lastGood + 1 - f.first)
        BY <1>2, <2>3 DEF At
    <2>6. pos.offset = f.header + 2 * Len(f.records) + f.partial
        BY <1>1, <1>3, <2>3, SMTT(60) DEF TailerInv, Size, RecordSize
    <2>7. Len(f.records) \in Nat /\ f.partial = 0 /\ f.first \in Nat /\ pos.lastGood \in Nat
        BY <1>1, <2>4 DEF Segment, Checkpoint
    <2>8. f.first + Len(f.records) = pos.lastGood + 1
        BY <2>5, <2>6, <2>7, SMTT(60)
    <2> QED BY <1>2, <2>4, <2>8 DEF After
<1>4. TailType'
    BY <1>1 DEF TailType, writerVars
<1>5. TailerInv'
    BY <1>1, <1>2, <1>3 DEF TailerInv
<1>6. NotCorrupt' /\ (saved'.lastGood # 0 => At(saved', segs))
    BY <1>1 DEF NotCorrupt, IInv
<1> QED BY <1>1, <1>4, <1>5, <1>6, TailerStep

\* Two bytes a record.
LEMMA Halve == \A n \in Nat : (2 * n) \div 2 = n
OBVIOUS

\* The record at the position has the number after the last.
LEMMA ReadRecordInv == ASSUME IInv, ReadRecord PROVE IInv'
<1>1. /\ TailType /\ TailerInv /\ JournalInv /\ UNCHANGED writerVars /\ saved' = saved /\ segs' = segs
      /\ tpc = "read" /\ UNCHANGED <<known, nextIdx, fd, size, reseek>>
      /\ fd # 0 /\ fd \in Nat /\ pos \in Checkpoint
      /\ pos.offset + 2 <= Size(segs[fd])
    BY DEF IInv, ReadRecord, writerVars, TailType, TailerInv, RecordSize
<1>2. /\ pos.offset # 0 /\ fd = pos.counter + 1 /\ nextIdx = fd + 1 /\ At(pos, segs)
      /\ pos.counter + 1 <= known
    BY <1>1 DEF TailerInv
<1>3. fd \in 1 .. Len(segs) /\ segs[fd] \in Segment /\ FileInv(fd)
    BY <1>1, <1>2, SMTT(60) DEF At, TailType, JournalInv
<1>4. PICK f \in Segment : f = segs[fd]
    BY <1>3
<1>5. PICK g \in Nat, a \in Nat, n \in Nat, o \in Nat, q \in 0 .. 1 :
          g = pos.lastGood /\ a = f.first /\ n = Len(f.records) /\ o = pos.offset /\ q = f.partial
    BY <1>1, SMTT(60) DEF Checkpoint, Segment
<1>6. f.header = 1 /\ a <= g + 1 /\ g + 1 <= a + n /\ o = 1 + 2 * (g + 1 - a)
    BY <1>2, <1>4, <1>5, SMTT(60) DEF At, After
<1>7. Size(f) = 1 + 2 * n + q
    BY <1>5, <1>6 DEF Size, RecordSize
<1>8. o + 2 <= 1 + 2 * n + q
    BY <1>1, <1>4, <1>5, <1>7
<1>9. PICK x \in Nat : x = g + 1 - a
    BY <1>6
<1>10. o = 1 + 2 * x /\ x + 1 \in 1 .. n /\ a + (x + 1) - 1 = g + 1 /\ g + 2 <= a + n /\ a <= g + 2
       /\ o + 2 = 1 + 2 * (g + 2 - a)
    BY <1>6, <1>8, <1>9
<1>11. (o - 1) \div 2 + 1 = x + 1
    <2>1. o - 1 = 2 * x
        BY <1>10
    <2> QED BY <2>1, Halve
<1>12. RecordAt = f.records[x + 1]
    BY <1>4, <1>5, <1>11 DEF RecordAt, HeaderSize, RecordSize
<1>13. f.records[x + 1] = a + (x + 1) - 1
    BY <1>3, <1>4, <1>5, <1>10, ZenonT(60) DEF FileInv
<1>14. RecordAt = pos.lastGood + 1
    BY <1>5, <1>10, <1>12, <1>13
<1>15. tpc' = "ok" /\ pos' = [pos EXCEPT !.offset = pos.offset + 2, !.lastGood = pos.lastGood + 1]
    BY <1>14 DEF ReadRecord, RecordSize
<1>16. pos' = [counter |-> pos.counter, offset |-> o + 2, lastGood |-> g + 1]
    BY <1>1, <1>5, <1>15, ZenonT(60) DEF Checkpoint
<1>17. pos' \in Checkpoint /\ pos'.counter = pos.counter /\ pos'.offset = o + 2
       /\ pos'.lastGood = g + 1 /\ pos'.offset # 0
    BY <1>1, <1>5, <1>16, SMTT(60) DEF Checkpoint
<1>18. At(pos', segs)
    <2>1. f.first <= g + 1 + 1 /\ g + 1 + 1 <= After(f) /\ o + 2 = 1 + 2 * (g + 1 + 1 - f.first)
        <3>1. a <= g + 1 + 1 /\ g + 1 + 1 <= a + n /\ o + 2 = 1 + 2 * (g + 1 + 1 - a)
            BY <1>10
        <3> QED BY <1>5, <3>1, Zenon DEF After
    <2> QED BY <1>2, <1>3, <1>4, <1>6, <1>17, <2>1, Zenon DEF At
<1>19. TailType'
    BY <1>1, <1>15, <1>17 DEF TailType, writerVars
<1>20. TailerInv'
    BY <1>1, <1>2, <1>15, <1>17, <1>18 DEF TailerInv
<1>21. NotCorrupt' /\ (saved'.lastGood # 0 => At(saved', segs))
    BY <1>1, <1>15 DEF NotCorrupt, IInv
<1> QED BY <1>1, <1>19, <1>20, <1>21, TailerStep

\* What a later tailer is given is a position of this one.
LEMMA SaveInv == ASSUME IInv, Save PROVE IInv'
<1>1. TailType /\ tpc # "off" /\ TailerInv /\ UNCHANGED <<writerVars, tailerVars>> /\ saved' = pos
    BY DEF IInv, Save
<1>2. TailType'
    BY <1>1 DEF TailType, writerVars, tailerVars
<1>3. TailerInv'
    BY <1>1 DEF TailerInv, writerVars, tailerVars
<1>4. saved'.lastGood # 0 => At(saved', segs)
    BY <1>1, SMTT(60) DEF TailerInv
<1>5. NotCorrupt'
    BY <1>1 DEF NotCorrupt, IInv, tailerVars
<1> QED BY <1>1, <1>2, <1>3, <1>4, <1>5, TailerStep

\* An empty journal and a tailer not started satisfy the invariant.
LEMMA TailInitInv == TailInit => IInv
<1> SUFFICES ASSUME TailInit PROVE IInv
    OBVIOUS
<1>1. NoCheckpoint \in Checkpoint /\ NoCheckpoint.lastGood = 0 /\ NoCheckpoint.offset = 0
    BY DEF NoCheckpoint, Checkpoint
<1>2. TailType
    <2>1. script \in Seq(Commands)
        BY TailerAssumption DEF TailInit
    <2>2. segs \in Seq(Segment)
        BY DEF TailInit
    <2>3. pos \in Checkpoint /\ saved \in Checkpoint
        BY <1>1 DEF TailInit
    <2>4. /\ wpc = "idle" /\ wseq = 0 /\ open = FALSE /\ counter = 0 /\ restarts = 0
          /\ tpc = "off" /\ known = 0 /\ nextIdx = 1 /\ fd = 0 /\ size = 0 /\ reseek = FALSE
        BY Zenon DEF TailInit
    <2>5. 0 \in Nat /\ 1 \in Nat \ {0} /\ FALSE \in BOOLEAN
        OBVIOUS
    <2> QED BY <2>1, <2>2, <2>3, <2>4, <2>5, Zenon DEF TailType
<1>3. Len(segs) = 0
    BY DEF TailInit
<1>4. JournalInv
    BY <1>3 DEF TailInit, JournalInv, WriterInv
<1> QED BY <1>1, <1>2, <1>4 DEF TailInit, IInv, NotCorrupt

\* Every step of writer and tailer preserves the invariant, but for the two that are remembered.
LEMMA TailNextInv ==
    ASSUME IInv, [TailNext]_tailVars, ~reused', ~missed'
    PROVE  IInv'
<1>1. CASE Writer
    BY <1>1, CreateSegmentInv, WriteHeaderInv, BeginRecordInv, EndRecordInv, WriterEndsInv,
       WriterRecoversInv DEF Writer
<1>2. CASE Construct(saved)
    <2>1. PICK cp \in Checkpoint : cp = saved
        BY DEF IInv, TailType
    <2>2. Construct(cp)
        BY <1>2, <2>1
    <2> QED BY <2>1, <2>2, ConstructInv DEF IInv
<1>3. CASE Construct(NoCheckpoint)
    <2>1. NoCheckpoint \in Checkpoint /\ NoCheckpoint.lastGood = 0
        BY DEF NoCheckpoint, Checkpoint
    <2> QED BY <1>3, <2>1, ConstructInv
<1>4. CASE Reading
    <2>1. CASE EndOfJournal
        BY <2>1, AnswerInv DEF EndOfJournal, NotYet, ReseekAfter
    <2>2. CASE TornRecord
        BY <2>2, AnswerInv DEF TornRecord, NotYet, ReseekAfter
    <2> QED BY <1>4, <2>1, <2>2, ReseekInv, RefreshInv, SeekInv, OpenNextInv, EndOfSegmentInv,
               ReadRecordInv DEF Reading
<1>5. CASE Return
    BY <1>5, AnswerInv, SMTT(60) DEF Return, IInv, TailType
<1>6. CASE Save
    BY <1>6, SaveInv
<1>7. CASE Drop
    <2>1. TailType' /\ NotCorrupt' /\ UNCHANGED writerVars /\ tpc' = "off"
        BY <1>7, SMTT(60) DEF Drop, IInv, TailType, NotCorrupt, writerVars
    <2>2. saved'.lastGood # 0 => At(saved', segs)
        BY <1>7 DEF Drop, IInv
    <2> QED BY <2>1, <2>2, TailerStep
<1>8. CASE UNCHANGED tailVars
    <2>1. UNCHANGED writerVars /\ UNCHANGED tailerVars /\ saved' = saved
        BY <1>8 DEF tailVars
    <2>2. TailType' /\ NotCorrupt'
        BY <2>1 DEF IInv, TailType, NotCorrupt, writerVars, tailerVars
    <2>3. tpc' # "off" => TailerInv'
        BY <2>1, SMTT(60) DEF IInv, TailerInv, writerVars, tailerVars
    <2>4. saved'.lastGood # 0 => At(saved', segs)
        BY <2>1 DEF IInv
    <2> QED BY <2>1, <2>2, <2>3, <2>4, TailerStep
<1> QED BY <1>1, <1>2, <1>3, <1>4, <1>5, <1>6, <1>7, <1>8 DEF TailNext

\* A number given again and a first segment missed stay so.
LEMMA Remembered ==
    ASSUME reused \/ missed, [TailNext]_tailVars
    PROVE  reused' \/ missed'
<1> USE DEF tailVars, writerVars, tailerVars
<1>1. CASE Writer
    BY <1>1, Zenon DEF Writer, CreateSegment, WriteHeader, BeginRecord, EndRecord, WriterEnds, WriterRecovers
<1>2. ASSUME NEW cp, Construct(cp) PROVE reused' \/ missed'
    BY <1>2, Zenon DEF Construct
<1>3. CASE Reading
    BY <1>3, Zenon DEF Reading, Next1Reseek, Next1Refresh, Next2Seek, OpenNext, EndOfJournal, EndOfSegment,
               TornRecord, NotYet, ReadRecord
<1>4. CASE Return \/ Save \/ Drop
    BY <1>4, Zenon DEF Return, Save, Drop
<1>5. CASE UNCHANGED tailVars
    BY <1>5, Zenon
<1> QED BY <1>1, <1>2, <1>3, <1>4, <1>5, Zenon DEF TailNext

\* For every journal, roll size and number of restarts, whatever ends the writer's process and
\* whether or not its successor continues a torn segment: a tailer takes the journal for corrupt
\* only after a creation number has been given a second time, or after a tailer was constructed
\* while the first segment had no header, however its reads interleave with the writer's appends
\* and rolls, and from whatever checkpoint of its own it starts again.
THEOREM NeverCorruptHolds == TailSpec => []NeverCorrupt
<1> DEFINE Safe == reused \/ missed \/ IInv
<1>1. TailInit => Safe
    BY TailInitInv
<1>2. Safe /\ [TailNext]_tailVars => Safe'
    BY TailNextInv, Remembered
<1>3. Safe => NeverCorrupt
    BY DEF IInv, NotCorrupt, NeverCorrupt
<1> HIDE DEF Safe
<1> QED BY <1>1, <1>2, <1>3, PTL DEF TailSpec
=============================================================================
