----------------------------- MODULE MarketData -----------------------------
(***************************************************************************)
(* Market data, from the journal to a ladder on a screen: the sequencer    *)
(* appends to the journal and feeds the matching thread; the matching      *)
(* thread publishes the events of each command to the outbound ring; the   *)
(* publisher thread, which the ring never waits for, keeps a mirror of the *)
(* book and turns each event into frames; the io thread of the feed server *)
(* fans them out to the sessions; a client builds a ladder from them.      *)
(*                                                                         *)
(* The wiring is velox_gateway's, where a mirror that has to be rebuilt,   *)
(* and the snapshot of a new subscriber, are read from the journal.        *)
(*                                                                         *)
(* The outbound ring is the sequence of all its events with the            *)
(* publisher's cursor (module MulticastRing has the slots and the copying, *)
(* and the consumer that does hold the producer back).  Frames count one   *)
(* each towards a session's budget of bytes.                               *)
(***************************************************************************)
EXTENDS BookMirror

CONSTANTS
    Commands,      \* the commands sessions submit
    Recovered,     \* the journals the process may find when it starts
    MaxJournal,    \* bound on the length of the journal
    RingCapacity,
    MaxQueue,      \* maxQueueBytes_, in frames
    Subscribers,
    MaxConnects    \* bound on the connections each client makes

ASSUME MarketDataAssumption ==
    /\ MinPrice \in Int /\ MaxPrice \in Int /\ MinPrice <= MaxPrice
    /\ Stp \in {"CancelAggressor", "CancelPassive", "CancelBoth"}
    /\ {RingCapacity, MaxOrders, MaxQueue, MaxConnects, MaxJournal} \subseteq Nat

Ids == {c.id : c \in Commands} \cup {c.newId : c \in Commands}

VARIABLES
    journal,     \* the commands sequenced so far
    executed,    \* how many of them the matching thread has executed
    book,        \* the matching thread's book
    outbox,      \* events of the running dispatch that are not yet in the ring
    ring,        \* every event published so far
    tail,        \* the publisher's cursor
    lapped,      \* the publisher has found itself lapped and has yet to resync
    mirror,      \* Publisher::mirror_
    totals,      \* Publisher::bidTotals_ and askTotals_, 0 for no entry
    exact,       \* history: what the mirror was last built from is what the cursor stands for
    wire,        \* frames posted to the io thread
    pending,     \* FeedSession::pending_
    conn,        \* "off", "open", or "closed" by the server
    connects,    \* connections made so far
    ladder       \* the client's Ladder

engineVars == <<journal, executed, book, outbox, ring>>
publisherVars == <<tail, lapped, mirror, totals, exact>>
feedVars == <<wire, pending, conn, connects, ladder>>
vars == <<engineVars, publisherVars, feedVars>>

NoLevel == [qty |-> 0, orders |-> 0]
EmptyLadder == [levels |-> [s \in Sides |-> [p \in Prices |-> NoLevel]], inBurst |-> FALSE,
                tradeCount |-> 0]

Init ==
    /\ journal \in Recovered
    /\ executed = Len(journal)
    /\ book = Replay(journal)
    /\ outbox = <<>>
    /\ ring = <<>>
    /\ tail = 0
    /\ lapped = FALSE
    /\ mirror = EmptyMirror(Ids)
    /\ totals = [s \in Sides |-> [p \in Prices |-> 0]]
    /\ exact = TRUE
    /\ wire = <<>>
    /\ pending = [c \in Subscribers |-> <<>>]
    /\ conn = [c \in Subscribers |-> "off"]
    /\ connects = [c \in Subscribers |-> 0]
    /\ ladder = [c \in Subscribers |-> EmptyLadder]
-----------------------------------------------------------------------------
(***************************************************************************)
(* The sequencer and the matching thread.  The journal runs ahead of the   *)
(* book, and the book ahead of the ring.                                   *)
(***************************************************************************)
Sequence(c) ==
    /\ Len(journal) < MaxJournal
    /\ journal' = Append(journal, c)
    /\ UNCHANGED <<executed, book, outbox, ring, publisherVars, feedVars>>

Run ==
    /\ outbox = <<>>
    /\ executed < Len(journal)
    /\ executed' = executed + 1
    /\ book' = Execute(book, journal[executed'])
    /\ outbox' = Dispatch(book, journal[executed'], executed')
    /\ UNCHANGED <<journal, ring, publisherVars, feedVars>>

PublishOutbound ==
    /\ outbox # <<>>
    /\ ring' = Append(ring, Head(outbox))
    /\ outbox' = Tail(outbox)
    /\ UNCHANGED <<journal, executed, book, publisherVars, feedVars>>
-----------------------------------------------------------------------------
(***************************************************************************)
(* The publisher.                                                          *)
(***************************************************************************)
L3Order(action, s, u) == [type |-> "L3Order", action |-> action, side |-> s, order |-> u]
L2Delta(m, s, p) == [type |-> "L2Delta", side |-> s, price |-> p,
                     level |-> [qty |-> LevelTotal(m, s, p), orders |-> LevelOrderCount(m, s, p)]]

Snapshot(m) ==
    LET side(s) == LET w == ForEachOrder(m, s) IN [k \in DOMAIN w |-> L3Order("Rested", s, w[k])]
    IN  <<[type |-> "SnapshotStart"]>> \o side("Buy") \o side("Sell")
        \o <<[type |-> "SnapshotEnd"]>>

\* diffLevel(): a frame if the level's total has changed.
DiffLevel(m, s, p) ==
    IF LevelTotal(m, s, p) = totals[s][p] THEN <<>> ELSE <<L2Delta(m, s, p)>>

\* The level an event concerns; wrong, the aggressor's side.
TouchedSideAggressor(e) == IF e.kind = "TradeEvent" THEN e.trade.aggressorSide ELSE e.side
TouchedSide(e) == IF e.kind = "TradeEvent" THEN Opposite(e.trade.aggressorSide) ELSE e.side
TouchedPrice(e) == IF e.kind = "TradeEvent" THEN e.trade.price ELSE e.order.price

Silent(e) == e.kind = "StatusEvent" \/ (e.kind = "OrderUpdate" /\ e.action = "Rejected")

Frames(m, e) ==
    IF Silent(e) THEN <<>>
    ELSE (IF e.kind = "TradeEvent"
          THEN <<[type |-> "TradeTick"],
                 [type |-> "L3Fill", id |-> e.trade.passiveId,
                  remaining |-> RemainingOf(m, e.trade.passiveId)]>>
          ELSE <<L3Order(e.action, e.side, e.order)>>)
         \o DiffLevel(m, TouchedSide(e), TouchedPrice(e))

Lapped == Len(ring) - tail >= RingCapacity

\* pump(): one event is taken from the ring, applied and published.
ApplyAndPublish ==
    /\ ~lapped
    /\ tail < Len(ring)
    /\ ~Lapped
    /\ LET e == ring[tail + 1]
           m == Apply(mirror, e)
       IN  /\ mirror' = m
           /\ wire' = wire \o Frames(m, e)
           /\ totals' = IF Silent(e) THEN totals
                        ELSE [totals EXCEPT ![TouchedSide(e)][TouchedPrice(e)] =
                                LevelTotal(m, TouchedSide(e), TouchedPrice(e))]
    /\ tail' = tail + 1
    /\ UNCHANGED <<engineVars, lapped, exact, pending, conn, connects, ladder>>

\* tryPeekChecked() returns Lapped: the cursor is already at the head.
FindLapped ==
    /\ ~lapped
    /\ tail < Len(ring)
    /\ Lapped
    /\ tail' = Len(ring)
    /\ lapped' = TRUE
    /\ UNCHANGED <<engineVars, mirror, totals, exact, feedVars>>

\* The events that are still ahead of the cursor are those of the commands after the k-th.
Covered(k) ==
    LET ahead == SubSeq(ring, tail + 1, Len(ring)) \o outbox
    IN  /\ k <= executed
        /\ \A i \in 1 .. tail : ring[i].globalSeq <= k
        /\ {e.globalSeq : e \in ToSet(ahead)} = k + 1 .. executed

\* resync(): the journal is replayed into a new book, and that book's mirror published.
Resync ==
    /\ lapped
    /\ lapped' = FALSE
    /\ LET m == LoadMirrorFromBook(Replay(journal), Ids)
       IN  /\ mirror' = m
           /\ totals' = [s \in Sides |-> [p \in Prices |-> LevelTotal(m, s, p)]]
           /\ wire' = wire \o Snapshot(m)
    /\ exact' = Covered(Len(journal))
    /\ UNCHANGED <<engineVars, tail, pending, conn, connects, ladder>>
-----------------------------------------------------------------------------
(***************************************************************************)
(* The feed server's io thread.                                            *)
(***************************************************************************)
\* Wrong: a frame that does not fit is dropped and the session stays open.
EnqueueDrop(sn, frame) ==
    IF sn.conn = "closed" \/ Len(sn.pending) + 1 > MaxQueue THEN sn
    ELSE [sn EXCEPT !.pending = Append(@, frame)]

\* A session's queue and state after enqueue() of one more frame.
Enqueue(sn, frame) ==
    IF sn.conn = "closed" THEN sn
    ELSE IF Len(sn.pending) + 1 > MaxQueue THEN [pending |-> <<>>, conn |-> "closed"]
    ELSE [sn EXCEPT !.pending = Append(@, frame)]

\* The snapshot burst a new subscriber is given, from the journal as it is now.
Burst == Snapshot(LoadMirrorFromBook(Replay(journal), Ids))

\* doAccept(): the burst goes into the session's queue before the session joins the broadcast.
Accept(c) ==
    /\ conn[c] = "off"
    /\ connects[c] < MaxConnects
    /\ connects' = [connects EXCEPT ![c] = @ + 1]
    /\ LET sn == FoldLeft(Enqueue, [pending |-> <<>>, conn |-> "open"], Burst)
       IN  /\ pending' = [pending EXCEPT ![c] = sn.pending]
           /\ conn' = [conn EXCEPT ![c] = sn.conn]
    /\ UNCHANGED <<engineVars, publisherVars, wire, ladder>>

\* broadcast(): a frame goes to every session that is not closed.
Broadcast ==
    /\ wire # <<>>
    /\ wire' = Tail(wire)
    /\ LET sn == [c \in Subscribers |->
                    IF conn[c] = "open"
                    THEN Enqueue([pending |-> pending[c], conn |-> conn[c]], Head(wire))
                    ELSE [pending |-> pending[c], conn |-> conn[c]]]
       IN  /\ pending' = [c \in Subscribers |-> sn[c].pending]
           /\ conn' = [c \in Subscribers |-> sn[c].conn]
    /\ UNCHANGED <<engineVars, publisherVars, connects, ladder>>
-----------------------------------------------------------------------------
(***************************************************************************)
(* The client: MdClient and its Ladder.                                    *)
(***************************************************************************)
OnFrame(l, f) ==
    CASE f.type = "SnapshotStart" ->
            [l EXCEPT !.inBurst = TRUE, !.levels = EmptyLadder.levels]
      [] f.type = "SnapshotEnd" -> [l EXCEPT !.inBurst = FALSE]
      [] f.type = "L3Order" ->
            IF l.inBurst /\ f.action = "Rested"
            THEN [l EXCEPT !.levels[f.side][f.order.price] =
                    [qty |-> @.qty + f.order.remaining, orders |-> @.orders + 1]]
            ELSE l
      [] f.type = "L2Delta" -> [l EXCEPT !.levels[f.side][f.price] = f.level]
      [] f.type = "TradeTick" -> [l EXCEPT !.tradeCount = @ + 1]
      [] f.type = "L3Fill" -> l

\* A frame is written to the socket, read, decoded and dispatched.
Deliver(c) ==
    /\ conn[c] = "open"
    /\ pending[c] # <<>>
    /\ pending' = [pending EXCEPT ![c] = Tail(@)]
    /\ ladder' = [ladder EXCEPT ![c] = OnFrame(@, Head(pending[c]))]
    /\ UNCHANGED <<engineVars, publisherVars, wire, conn, connects>>

\* fail(): the client notices that the server has closed the connection, and will reconnect.
Fail(c) ==
    /\ conn[c] = "closed"
    /\ conn' = [conn EXCEPT ![c] = "off"]
    /\ UNCHANGED <<engineVars, publisherVars, wire, pending, connects, ladder>>
-----------------------------------------------------------------------------
MatchingThread == Run \/ PublishOutbound
Publisher == ApplyAndPublish \/ FindLapped \/ Resync
Client(c) == Accept(c) \/ Deliver(c) \/ Fail(c)

Next ==
    \/ \E c \in Commands : Sequence(c)
    \/ MatchingThread
    \/ Publisher
    \/ Broadcast
    \/ \E c \in Subscribers : Client(c)

Spec == Init /\ [][Next]_vars
-----------------------------------------------------------------------------
SameBook(m, bk) ==
    /\ \A s \in Sides : ForEachOrder(m, s) = BookWalk(bk, s)
    /\ m.lastSeq = bk.seq
    /\ m.tradeCount = bk.nextTradeId

Levels(bk) ==
    [s \in Sides |-> [p \in Prices |->
        LET at == {o \in OnSide(bk, s) : o.price = p}
        IN  [qty |-> MapThenSumSet(LAMBDA o : o.remaining, at), orders |-> Cardinality(at)]]]

\* Whenever the publisher has consumed all the events of the first k commands, its mirror is the
\* book those commands make: every order, its place in its queue, the last seq and the number of
\* trades.  Cancels, replaces that reuse an id, partial fills and self-trade victims included;
\* and after a resync, provided the journal held nothing the cursor had not passed.
MirrorExact ==
    \A k \in 0 .. Len(journal) :
        exact /\ ~lapped /\ Covered(k) => SameBook(mirror, Replay(SubSeq(journal, 1, k)))

\* The level totals that L2 deltas are computed from agree with the mirror after every event,
\* also between the events of one command, so that no change of a level is left unreported.  As
\* for MirrorExact, after a resync the journal must have held nothing the cursor had not passed:
\* an event applied twice erases an order at one price while diffLevel() looks at another.
TotalsExact ==
    exact /\ ~lapped => \A s \in Sides, p \in Prices : totals[s][p] = LevelTotal(mirror, s, p)

\* When everything has been delivered, a client's ladder is the book, level by level, however
\* the snapshot it began with and the frames under way then overlapped.
Quiet(c) ==
    /\ executed = Len(journal) /\ outbox = <<>> /\ tail = Len(ring) /\ ~lapped
    /\ wire = <<>> /\ conn[c] = "open" /\ pending[c] = <<>>
LadderConverges ==
    \A c \in Subscribers : exact /\ Quiet(c) => ladder[c].levels = Levels(book)
=============================================================================
