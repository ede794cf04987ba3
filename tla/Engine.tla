------------------------------- MODULE Engine -------------------------------
(***************************************************************************)
(* The matching engine as a function from a book and a command to the next *)
(* book and what the call returns, and the events the matching thread      *)
(* publishes for it.  Module OrderBook has the same engine step by step,   *)
(* with its data structures; here a book is the set of its resting orders, *)
(* time priority being the order of their seq (OrderBook's TimePriority),  *)
(* and every price is a multiple of the tick.                              *)
(***************************************************************************)
EXTENDS Integers, Sequences, FiniteSets, SequencesExt

CONSTANTS MinPrice, MaxPrice, MaxOrders, Stp

Sides == {"Buy", "Sell"}
Prices == MinPrice .. MaxPrice
InRange(p) == p \in Prices
Opposite(s) == IF s = "Buy" THEN "Sell" ELSE "Buy"

EmptyBook == [resting |-> {}, seq |-> 0, nextTradeId |-> 0]

OnSide(bk, s) == {o \in bk.resting : o.side = s}
Has(bk, id) == \E o \in bk.resting : o.id = id
OrderOf(bk, id) == CHOOSE o \in bk.resting : o.id = id

\* Price, then time.
Before(a, b) ==
    \/ IF a.side = "Buy" THEN a.price > b.price ELSE a.price < b.price
    \/ a.price = b.price /\ a.seq < b.seq

InPriority(S) == SetToSortSeq(S, Before)
First(S) == CHOOSE o \in S : \A x \in S \ {o} : Before(o, x)

Crosses(in, p) ==
    \/ in.type = "Market"
    \/ IF in.side = "Buy" THEN in.price >= p ELSE in.price <= p

AvailableAgainst(bk, in) ==
    LET w == InPriority({o \in OnSide(bk, Opposite(in.side)) : Crosses(in, o.price)})
        own == {k \in DOMAIN w : w[k].participant = in.participant}
        counted == IF Stp = "CancelPassive" THEN DOMAIN w \ own
                   ELSE {k \in DOMAIN w : \A j \in own : k < j}
    IN  MapThenSumSet(LAMBDA k : w[k].remaining, counted)
-----------------------------------------------------------------------------
\* A call under way: the book, what is left of the arrival, the buffers of the caller.
Started(bk, in) ==
    [bk |-> [bk EXCEPT !.seq = @ + 1], left |-> in.quantity, trades |-> <<>>, victims |-> <<>>,
     stpFired |-> FALSE]

Fill(m, in, o) ==
    LET qty == IF m.left < o.remaining THEN m.left ELSE o.remaining
        kept == IF qty = o.remaining THEN {} ELSE {[o EXCEPT !.remaining = @ - qty]}
    IN  [m EXCEPT !.bk.resting = (@ \ {o}) \cup kept,
                  !.bk.nextTradeId = @ + 1,
                  !.left = @ - qty,
                  !.trades = Append(@, [id |-> m.bk.nextTradeId, aggressorId |-> in.id,
                                        passiveId |-> o.id, price |-> o.price, quantity |-> qty,
                                        aggressorSide |-> in.side])]

SelfTrade(m, o) ==
    LET fired == [m EXCEPT !.stpFired = Stp # "CancelPassive"]
    IN  IF Stp = "CancelAggressor" THEN fired
        ELSE [fired EXCEPT !.bk.resting = @ \ {o}, !.victims = Append(@, o)]

\* matchInto(): fills until the arrival is filled, nothing crosses, or self-trade prevention
\* stops it.
RECURSIVE MatchInto(_, _)
MatchInto(m, in) ==
    LET opp == OnSide(m.bk, Opposite(in.side))
        o == First(opp)
    IN  IF m.left = 0 \/ m.stpFired \/ opp = {} THEN m
        ELSE IF ~Crosses(in, o.price) THEN m
        ELSE MatchInto(IF o.participant = in.participant THEN SelfTrade(m, o)
                       ELSE Fill(m, in, o), in)

RejectReason(bk, in) ==
    IF in.quantity <= 0 THEN "RejectedInvalidQuantity"
    ELSE IF in.type # "Market" /\ ~InRange(in.price) THEN "RejectedPriceOutOfRange"
    ELSE IF Has(bk, in.id) THEN "RejectedDuplicateId"
    ELSE IF in.type = "Market" /\ OnSide(bk, Opposite(in.side)) = {}
         THEN "RejectedMarketIntoEmptyBook"
    ELSE IF in.type = "Fok" /\ AvailableAgainst(bk, in) < in.quantity
         THEN "RejectedFokUnfillable"
    ELSE "Ok"

EndStatus(m, in) ==
    IF m.stpFired THEN "CancelledBySelfTradePrevention"
    ELSE IF m.left = 0 THEN "Ok"
    ELSE IF in.type = "Fok" THEN "RejectedFokUnfillable"
    ELSE IF in.type # "Limit" THEN "CancelledResidual"
    ELSE IF Cardinality(m.bk.resting) = MaxOrders THEN "RejectedPoolExhausted"
    ELSE "Ok"

\* struct OrderResult, with the buffers.
ResultOf(in, status, mySeq, left, rested) ==
    [status |-> status, side |-> in.side, price |-> in.price, quantity |-> in.quantity,
     remaining |-> left, participant |-> in.participant, seq |-> mySeq, rested |-> rested]

\* What a call that finds nothing to do leaves in its OrderResult.
NoResult == [status |-> "RejectedUnknownOrder", side |-> "Buy", price |-> 0, quantity |-> 0,
             remaining |-> 0, participant |-> 0, seq |-> 0, rested |-> FALSE]

Residual(bk, in, left) ==
    [id |-> in.id, side |-> in.side, price |-> in.price, quantity |-> in.quantity,
     remaining |-> left, participant |-> in.participant, seq |-> bk.seq]

SubmitEx(bk, in) ==
    LET m == MatchInto(Started(bk, in), in)
        status == EndStatus(m, in)
        rests == status = "Ok" /\ m.left > 0
    IN  IF RejectReason(bk, in) # "Ok"
        THEN [bk |-> bk, result |-> ResultOf(in, RejectReason(bk, in), 0, 0, FALSE),
              trades |-> <<>>, victims |-> <<>>]
        ELSE [bk |-> IF rests
                     THEN [m.bk EXCEPT !.resting = @ \cup {Residual(m.bk, in, m.left)}]
                     ELSE m.bk,
              result |-> ResultOf(in, status, m.bk.seq, m.left, rests),
              trades |-> m.trades, victims |-> m.victims]

Removed(bk, id) == [bk EXCEPT !.resting = @ \ {OrderOf(bk, id)}]

CancelledResult(o) == ResultOf(o, "Ok", o.seq, o.remaining, FALSE)

Cancel(bk, id) ==
    IF Has(bk, id) THEN [bk |-> Removed(bk, id), result |-> CancelledResult(OrderOf(bk, id))]
    ELSE [bk |-> bk, result |-> NoResult]

ReplaceRejectReason(bk, id, fresh) ==
    IF ~Has(bk, id) THEN "RejectedUnknownOrder"
    ELSE IF fresh.quantity <= 0 THEN "RejectedInvalidQuantity"
    ELSE IF fresh.type # "Market" /\ ~InRange(fresh.price) THEN "RejectedPriceOutOfRange"
    ELSE IF fresh.id # id /\ Has(bk, fresh.id) THEN "RejectedDuplicateId"
    ELSE "Ok"

Replace(bk, id, fresh) ==
    IF ReplaceRejectReason(bk, id, fresh) = "Ok" THEN SubmitEx(Removed(bk, id), fresh)
    ELSE [bk |-> bk, trades |-> <<>>, victims |-> <<>>,
          result |-> [NoResult EXCEPT !.status = ReplaceRejectReason(bk, id, fresh)]]
-----------------------------------------------------------------------------
(***************************************************************************)
(* MatchingThread::dispatch(): the call a command makes and the outbound   *)
(* events it publishes, in order, each stamped with the dispatch's number. *)
(***************************************************************************)
ToNewOrder(c, id) == [id |-> id, price |-> c.price, quantity |-> c.quantity,
                      participant |-> c.participant, side |-> c.side, type |-> c.type]

Update(action, id, r) ==
    [kind |-> "OrderUpdate", action |-> action, side |-> r.side,
     order |-> [id |-> id, price |-> r.price, quantity |-> r.quantity,
                remaining |-> r.remaining, participant |-> r.participant, seq |-> r.seq]]
Status(id, st) == [kind |-> "StatusEvent", id |-> id, status |-> st]

TradeEvents(call) ==
    [k \in DOMAIN call.trades |-> [kind |-> "TradeEvent", trade |-> call.trades[k]]]

\* publishStpVictims(): what self-trade prevention removed leaves the book; wrong, unannounced.
VictimEventsNone(call) == <<>>
VictimEvents(call) ==
    [k \in DOMAIN call.victims |-> Update("Cancelled", call.victims[k].id, call.victims[k])]

\* emitOrderUpdate(): the order joined the book or it did not.
TailEvent(id, r) == Update(IF r.rested THEN "Rested" ELSE "Rejected", id, r)

NewEvents(bk, c) ==
    LET call == SubmitEx(bk, ToNewOrder(c, c.id))
        st == call.result.status
    IN  TradeEvents(call) \o VictimEvents(call)
        \o (IF st = "Ok" THEN <<>> ELSE <<Status(c.id, st)>>)
        \o <<TailEvent(c.id, call.result)>>

CancelEvents(bk, c) ==
    LET r == Cancel(bk, c.id).result
    IN  <<Status(c.id, r.status)>>
        \o (IF r.status = "Ok" THEN <<Update("Cancelled", c.id, r)>> ELSE <<>>)

ReplaceEvents(bk, c) ==
    LET fresh == ToNewOrder(c, c.newId)
        call == Replace(bk, c.id, fresh)
        st == call.result.status
        rejectedBeforeDispatch == st \in {"RejectedUnknownOrder", "RejectedInvalidQuantity",
                                          "RejectedPriceOutOfRange", "RejectedDuplicateId"}
        old == CancelledResult(OrderOf(bk, c.id))
    IN  (IF rejectedBeforeDispatch THEN <<>> ELSE <<Update("Cancelled", c.id, old)>>)
        \o TradeEvents(call) \o VictimEvents(call) \o <<Status(c.newId, st)>>
        \o (IF rejectedBeforeDispatch THEN <<>> ELSE <<TailEvent(c.newId, call.result)>>)

Execute(bk, c) ==
    CASE c.kind = "New" -> SubmitEx(bk, ToNewOrder(c, c.id)).bk
      [] c.kind = "Cancel" -> Cancel(bk, c.id).bk
      [] c.kind = "Replace" -> Replace(bk, c.id, ToNewOrder(c, c.newId)).bk

EventsOf(bk, c) ==
    CASE c.kind = "New" -> NewEvents(bk, c)
      [] c.kind = "Cancel" -> CancelEvents(bk, c)
      [] c.kind = "Replace" -> ReplaceEvents(bk, c)

\* The events of the n-th dispatch.
Dispatch(bk, c, n) ==
    LET evs == EventsOf(bk, c)
    IN  [k \in DOMAIN evs |-> evs[k] @@ [globalSeq |-> n]]

\* A book that has executed the commands of a journal, as recover() rebuilds it.
Replay(journal) == FoldLeft(Execute, EmptyBook, journal)
=============================================================================
