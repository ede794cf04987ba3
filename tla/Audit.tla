-------------------------------- MODULE Audit --------------------------------
(***************************************************************************)
(* A shard of velox_auditd: runShard() drives a JournalTailer over the     *)
(* live journal (module Tailer), replays every record into a shadow book   *)
(* (module Engine), and writes the rows in batches, with the position they *)
(* belong to, in one Postgres transaction each.                            *)
(*                                                                         *)
(* Postgres is its four tables and the effect of a transaction; a          *)
(* transaction that does not commit has none.                              *)
(***************************************************************************)
EXTENDS Tailer, Engine

CONSTANTS BatchSize,    \* --batch
          FromScratch,  \* the values of --from-scratch
          MaxFaults     \* bound on signals, kills, lost replies and a database away at start

ASSUME AuditAssumption == BatchSize \in Nat \ {0} /\ FromScratch \subseteq BOOLEAN /\ MaxFaults \in Nat

VARIABLES
    fromScratch,
    dpc,          \* "down", "run", "flush" before and "committed" after a COMMIT takes effect
    stop,         \* g_stop
    shadow,       \* AuditReplayer::book_
    evBatch, trBatch,
    orderEvents, tradeRows, participants, instruments,    \* the tables
    faults

batches == <<evBatch, trBatch>>
tables == <<orderEvents, tradeRows, participants, instruments>>
vars == <<tailVars, fromScratch, dpc, stop, shadow, batches, tables, faults>>

Init ==
    /\ TailInit
    /\ fromScratch \in FromScratch
    /\ dpc = "down" /\ stop = FALSE /\ shadow = EmptyBook /\ evBatch = <<>> /\ trBatch = <<>>
    /\ orderEvents = {} /\ tradeRows = {} /\ participants = {} /\ instruments = {}
    /\ faults = 0

Fault == faults < MaxFaults /\ faults' = faults + 1
-----------------------------------------------------------------------------
(* AuditReplayer. *)

\* new_order_id is NULL, here 0, for anything but a replace. The shard is the one modelled.
OrderEventRow(n, c) ==
    [globalSeq |-> n, shardId |-> 0, kind |-> c.kind, orderId |-> c.id,
     newOrderId |-> IF c.kind = "Replace" THEN c.newId ELSE 0, participant |-> c.participant,
     side |-> c.side, orderType |-> c.type, price |-> c.price, quantity |-> c.quantity]

TradesOf(bk, c) ==
    CASE c.kind = "New" -> SubmitEx(bk, ToNewOrder(c, c.id)).trades
      [] c.kind = "Cancel" -> <<>>
      [] c.kind = "Replace" -> Replace(bk, c.id, ToNewOrder(c, c.newId)).trades

\* Wrong: room for one trade of a sweep.
TradeRowsOfFirst(n, bk, c) ==
    LET ts == TradesOf(bk, c) IN [k \in DOMAIN ts \cap {1} |-> ts[k] @@ [globalSeq |-> n]]

TradeRowsOf(n, bk, c) ==
    LET ts == TradesOf(bk, c) IN [k \in DOMAIN ts |-> ts[k] @@ [globalSeq |-> n]]

\* apply().
Apply(n, c) ==
    /\ evBatch' = Append(evBatch, OrderEventRow(n, c))
    /\ trBatch' = trBatch \o TradeRowsOf(n, shadow, c)
    /\ shadow' = Execute(shadow, c)
-----------------------------------------------------------------------------
(* PgWriter::writeBatch. *)

\* INSERT ... ON CONFLICT DO NOTHING, the conflict being on the table's key column.
Insert(table, rows, key) == table \cup {r \in rows : \A t \in table : t[key] # r[key]}

\* The staged rows' smallest sequence number for each value of a column.
FirstSeen(rows, column) ==
    {[key |-> r[column], firstSeen |-> Min({q.globalSeq : q \in {q \in rows : q[column] = r[column]}})]
       : r \in rows}

CopyOrderEvents(rows) ==
    /\ orderEvents' = Insert(orderEvents, rows, "globalSeq")
    /\ participants' = Insert(participants, FirstSeen(rows, "participant"), "key")
    /\ instruments' = Insert(instruments, FirstSeen(rows, "shardId"), "key")

CopyTrades(rows) == tradeRows' = Insert(tradeRows, rows, "id")

\* Wrong: the checkpoint is where the next batch will start.
UpsertCheckpointAhead == saved' = [pos EXCEPT !.lastGood = @ + 1]

UpsertCheckpoint == saved' = pos

\* The transaction commits ...
WriteBatch ==
    /\ dpc = "flush"
    /\ CopyOrderEvents(Range(evBatch))
    /\ CopyTrades(Range(trBatch))
    /\ UpsertCheckpoint
    /\ dpc' = "committed"
    /\ UNCHANGED <<writerVars, tailerVars, fromScratch, stop, shadow, batches, faults>>
-----------------------------------------------------------------------------
(* runShard() and flush(). *)

\* What flush() returns to: the loop, or the end of the thread.
AfterFlush == IF tpc \in {"ok", "notyet"} THEN dpc' = "run" /\ Return ELSE dpc' = "down" /\ Drop

\* ... and execOk("COMMIT") says so, ...
FlushDone ==
    /\ dpc = "committed"
    /\ evBatch' = <<>> /\ trBatch' = <<>>
    /\ AfterFlush
    /\ UNCHANGED <<fromScratch, stop, shadow, tables, faults>>

\* ... or the connection is gone before the answer: a failure, tried again ...
ReplyLost ==
    /\ dpc = "committed"
    /\ Fault
    /\ dpc' = "flush"
    /\ UNCHANGED <<tailVars, fromScratch, stop, shadow, batches, tables>>

\* ... until the daemon is told to stop.
FlushGivesUp ==
    /\ dpc = "flush" /\ stop
    /\ AfterFlush
    /\ UNCHANGED <<fromScratch, stop, shadow, batches, tables, faults>>

\* flush() does nothing with empty batches.
Flush ==
    /\ UNCHANGED <<fromScratch, stop, tables, faults>>
    /\ IF evBatch' = <<>> /\ trBatch' = <<>> THEN AfterFlush ELSE dpc' = "flush" /\ UNCHANGED tailVars

\* loadCheckpoint() finds no row or no connection, or is not asked: from the start.
Start ==
    /\ dpc = "down"
    /\ \/ ~fromScratch /\ Construct(saved) /\ UNCHANGED faults
       \/ fromScratch /\ Construct(NoCheckpoint) /\ UNCHANGED faults
       \/ ~fromScratch /\ Construct(NoCheckpoint) /\ Fault
    /\ dpc' = "run" /\ stop' = FALSE
    /\ shadow' = EmptyBook /\ evBatch' = <<>> /\ trBatch' = <<>>
    /\ UNCHANGED <<fromScratch, tables>>

\* tailer.next(); the loop looks at g_stop first.
TailerNext ==
    /\ dpc = "run" /\ (tpc = "idle" => ~stop)
    /\ Reading
    /\ UNCHANGED <<fromScratch, dpc, stop, shadow, batches, tables, faults>>

OnOk ==
    /\ dpc = "run" /\ tpc = "ok"
    /\ Apply(pos.lastGood, script[pos.lastGood])
    /\ IF Len(evBatch') >= BatchSize THEN Flush
       ELSE dpc' = "run" /\ Return /\ UNCHANGED <<fromScratch, stop, tables, faults>>

OnNotYet ==
    /\ dpc = "run" /\ tpc = "notyet"
    /\ UNCHANGED <<shadow, batches>>
    /\ Flush

\* The loop is left, for a corrupt journal or for g_stop.
LeaveLoop ==
    /\ dpc = "run"
    /\ tpc = "corrupt" \/ (tpc = "idle" /\ stop)
    /\ UNCHANGED <<shadow, batches>>
    /\ Flush

Signal ==
    /\ dpc # "down" /\ ~stop
    /\ Fault
    /\ stop' = TRUE
    /\ UNCHANGED <<tailVars, fromScratch, dpc, shadow, batches, tables>>

Kill ==
    /\ dpc # "down"
    /\ Fault
    /\ dpc' = "down" /\ stop' = FALSE
    /\ Drop
    /\ shadow' = EmptyBook /\ evBatch' = <<>> /\ trBatch' = <<>>
    /\ UNCHANGED <<fromScratch, tables>>

Daemon == TailerNext \/ OnOk \/ OnNotYet \/ LeaveLoop \/ WriteBatch \/ FlushDone

Next ==
    \/ Writer /\ UNCHANGED <<fromScratch, dpc, stop, shadow, batches, tables, faults>>
    \/ Start \/ Daemon \/ FlushGivesUp \/ ReplyLost \/ Signal \/ Kill

\* Weak fairness of the daemon's thread, which has a step to take whenever it runs; written out,
\* since its enabling condition is so simple.
DaemonFairness == []<>(dpc = "down") \/ []<><<Daemon>>_vars

Spec == Init /\ [][Next]_vars /\ DaemonFairness
-----------------------------------------------------------------------------
(* Properties. *)

Ingested == Cardinality(orderEvents)

\* What the order_event, participant and instrument tables should say after k commands.
EventsUpTo(k) == {OrderEventRow(n, script[n]) : n \in 1 .. k}

\* However often the daemon or the gateway is killed, whatever replies are lost and wherever it
\* resumes, the event table is a prefix of the journal, each record once, and reaches at least
\* to the checkpoint, which never promises a row that is not there.
EventsExact ==
    /\ saved.lastGood <= Ingested /\ Ingested <= wseq
    /\ orderEvents = EventsUpTo(Ingested)
    /\ participants = FirstSeen(orderEvents, "participant")
    /\ instruments = FirstSeen(orderEvents, "shardId")

\* The trades the live book made of the first k commands of a journal.
LiveTrades ==
    [j \in Journals |->
        [k \in 0 .. Len(j) |->
            UNION {{t @@ [globalSeq |-> n] : t \in Range(TradesOf(Replay(SubSeq(j, 1, n - 1)), j[n]))}
                     : n \in 1 .. k}]]

\* The trade table holds the live book's trades, "byte-identical in behavior"
\* (audit_replayer.hpp).
TradeRowsExact == tradeRows = LiveTrades[script][Ingested]

\* That holds of a daemon that replays from the first record.
TradesExact == fromScratch => TradeRowsExact

\* A record in the journal reaches the table while the daemon lives, however the writer goes on,
\* rolls, is killed or stalls in the middle of the next record; the two causes that NeverCorrupt
\* names can also leave a tailer where no record is found.
EventuallyIngested ==
    \A n \in 1 .. Max({Len(j) : j \in Journals}) :
        (dpc # "down" /\ n <= wseq) ~> (dpc = "down" \/ n <= Ingested \/ reused \/ missed)
=============================================================================
