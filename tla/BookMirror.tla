----------------------------- MODULE BookMirror -----------------------------
(***************************************************************************)
(* The market data publisher's copy of the book: class BookMirror, a deque *)
(* of orders per side and price, and an index from an order id to where    *)
(* the order is.  Nothing ties the two together but the order of the       *)
(* events: an insert does not look whether the id is there already.        *)
(***************************************************************************)
EXTENDS Engine

Nowhere == [side |-> "None", price |-> 0]

\* levels[s][p] is the deque at a price; a price whose deque is empty has no map entry.
EmptyMirror(ids) ==
    [levels |-> [s \in Sides |-> [p \in Prices |-> <<>>]],
     index |-> [id \in ids |-> Nowhere], lastSeq |-> 0, tradeCount |-> 0]

LevelTotal(m, s, p) ==
    MapThenSumSet(LAMBDA k : m.levels[s][p][k].remaining, DOMAIN m.levels[s][p])
LevelOrderCount(m, s, p) == Len(m.levels[s][p])

\* Where the first order with that id is in a deque, 0 if it is not there.
Position(deque, id) == SelectInSeq(deque, LAMBDA o : o.id = id)

Insert(m, s, u) ==
    [m EXCEPT !.levels[s][u.price] = Append(@, u),
              !.index[u.id] = [side |-> s, price |-> u.price]]

EraseFrom(m, loc, id) ==
    LET k == Position(m.levels[loc.side][loc.price], id)
    IN  IF k = 0 THEN m ELSE [m EXCEPT !.levels[loc.side][loc.price] = RemoveAt(@, k)]

Erase(m, id) ==
    IF m.index[id] = Nowhere THEN m
    ELSE [EraseFrom(m, m.index[id], id) EXCEPT !.index[id] = Nowhere]

\* A fill: the passive order keeps its place unless it has nothing left.
Reduce(m, id, qty) ==
    LET loc == m.index[id]
        k == Position(m.levels[loc.side][loc.price], id)
        left == m.levels[loc.side][loc.price][k].remaining - qty
    IN  IF loc = Nowhere THEN m
        ELSE IF k = 0 THEN m
        ELSE IF left <= 0 THEN Erase(m, id)
        ELSE [m EXCEPT !.levels[loc.side][loc.price][k].remaining = left]

RemainingOf(m, id) ==
    LET loc == m.index[id]
        k == Position(m.levels[loc.side][loc.price], id)
    IN  IF loc = Nowhere THEN 0
        ELSE IF k = 0 THEN 0
        ELSE m.levels[loc.side][loc.price][k].remaining

ApplyTrade(m, t) == [Reduce(m, t.passiveId, t.quantity) EXCEPT !.tradeCount = @ + 1]

ApplyOrderUpdate(m, action, s, u) ==
    LET seen == [m EXCEPT !.lastSeq = IF u.seq > @ THEN u.seq ELSE @]
    IN  CASE action = "Rested" -> Insert(seen, s, u)
          [] action \in {"Cancelled", "Replaced"} -> Erase(seen, u.id)
          [] action = "Rejected" -> seen

Apply(m, e) ==
    CASE e.kind = "TradeEvent" -> ApplyTrade(m, e.trade)
      [] e.kind = "OrderUpdate" -> ApplyOrderUpdate(m, e.action, e.side, e.order)
      [] e.kind = "StatusEvent" -> m

\* The resting orders of one side of a book or a mirror, best level first, FIFO within a level.
WithoutSide(o) == [id |-> o.id, price |-> o.price, quantity |-> o.quantity,
                   remaining |-> o.remaining, participant |-> o.participant, seq |-> o.seq]

BookWalk(bk, s) ==
    LET w == InPriority(OnSide(bk, s)) IN [k \in DOMAIN w |-> WithoutSide(w[k])]

ForEachOrder(m, s) ==
    LET prices == IF s = "Buy" THEN [k \in 1 .. Cardinality(Prices) |-> MaxPrice + 1 - k]
                  ELSE [k \in 1 .. Cardinality(Prices) |-> MinPrice - 1 + k]
    IN  FlattenSeq([k \in DOMAIN prices |-> m.levels[s][prices[k]]])

\* loadMirrorFromBook(): a mirror built anew from a walk over a book.
LoadMirrorFromBook(bk, ids) ==
    LET load(m, s) ==
            FoldLeft(LAMBDA x, u : ApplyOrderUpdate(x, "Rested", s, u), m, BookWalk(bk, s))
    IN  [load(load(EmptyMirror(ids), "Buy"), "Sell")
            EXCEPT !.lastSeq = bk.seq, !.tradeCount = bk.nextTradeId]
=============================================================================
