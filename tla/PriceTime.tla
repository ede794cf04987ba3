------------------------------ MODULE PriceTime ------------------------------
(***************************************************************************)
(* What an order book promises, with no data structure in sight: a set of  *)
(* resting orders, at most one arrival being matched against it, and fills *)
(* that always take the resting order first in price-time priority.        *)
(* OrderBook is shown to implement this.                                   *)
(***************************************************************************)
EXTENDS Integers, Sequences, FiniteSets

CONSTANTS Arrivals, Capacity, Policies, NoOrder

VARIABLES
    stp,      \* the self-trade policy, fixed at the start
    resting,  \* the set of orders in the book
    arrival,  \* the arrival being matched, or NoOrder
    left,     \* what is left of it
    fills,    \* its fills so far
    clock     \* number of arrivals accepted

vars == <<stp, resting, arrival, left, fills, clock>>

Init ==
    /\ stp \in Policies
    /\ resting = {}
    /\ arrival = NoOrder
    /\ left = 0
    /\ fills = <<>>
    /\ clock = 0

\* a has priority over b: a better price, or the same price and an earlier arrival.
Before(a, b) ==
    \/ IF a.side = "Buy" THEN a.price > b.price ELSE a.price < b.price
    \/ a.price = b.price /\ a.seq < b.seq

Acceptable(o) ==
    /\ o.side # arrival.side
    /\ \/ arrival.type = "Market"
       \/ IF arrival.side = "Buy" THEN o.price <= arrival.price ELSE o.price >= arrival.price

\* o is the one order the arrival may deal with next.
IsNext(o) ==
    /\ Acceptable(o)
    /\ \A other \in resting : other.side = o.side /\ other # o => Before(o, other)

NothingAcceptable == \A o \in resting : ~Acceptable(o)

Accept ==
    /\ arrival = NoOrder
    /\ arrival' \in Arrivals
    /\ \A o \in resting : o.id # arrival'.id
    /\ left' = arrival'.quantity
    /\ fills' = <<>>
    /\ clock' = clock + 1
    /\ UNCHANGED resting

Fill ==
    /\ arrival # NoOrder
    /\ left > 0
    /\ \E o \in resting :
        LET qty == IF left < o.remaining THEN left ELSE o.remaining
        IN  /\ IsNext(o)
            /\ o.participant # arrival.participant
            /\ left' = left - qty
            /\ fills' = Append(fills, [passiveId |-> o.id, price |-> o.price, quantity |-> qty])
            /\ resting' = (resting \ {o}) \cup
                  (IF qty = o.remaining THEN {} ELSE {[o EXCEPT !.remaining = @ - qty]})
    /\ UNCHANGED <<arrival, clock>>

\* The arrival is over; its fills stay readable until the caller has used them.
Finish == arrival' = NoOrder /\ left' = 0 /\ UNCHANGED <<fills, clock>>

\* The next order belongs to the arrival's participant.
PreventSelfTrade ==
    /\ arrival # NoOrder
    /\ left > 0
    /\ \E o \in resting :
        /\ IsNext(o)
        /\ o.participant = arrival.participant
        /\ resting' = IF stp = "CancelAggressor" THEN resting ELSE resting \ {o}
    /\ IF stp = "CancelPassive" THEN UNCHANGED <<arrival, left, fills, clock>> ELSE Finish

Rest ==
    /\ arrival # NoOrder
    /\ arrival.type = "Limit"
    /\ left > 0
    /\ NothingAcceptable
    /\ resting' = resting \cup
          {[id |-> arrival.id, price |-> arrival.price, quantity |-> arrival.quantity,
            remaining |-> left, participant |-> arrival.participant, seq |-> clock,
            side |-> arrival.side]}
    /\ Finish

\* Nothing rests: all is filled, the type never rests (a FOK never ends like this with
\* something unfilled), or there is no room.
Leave ==
    /\ arrival # NoOrder
    /\ \/ left = 0
       \/ left > 0 /\ NothingAcceptable /\ arrival.type \in {"Market", "Ioc"}
       \/ left > 0 /\ NothingAcceptable /\ arrival.type = "Limit" /\ Cardinality(resting) = Capacity
    /\ Finish
    /\ UNCHANGED resting

Withdraw ==
    /\ arrival = NoOrder
    /\ \E o \in resting : resting' = resting \ {o}
    /\ UNCHANGED <<arrival, left, fills, clock>>

Forget ==
    /\ arrival = NoOrder
    /\ fills' = <<>>
    /\ UNCHANGED <<resting, arrival, left, clock>>

Step ==
    \/ Accept
    \/ Fill
    \/ PreventSelfTrade
    \/ Rest
    \/ Leave
    \/ Withdraw
    \/ Forget

Next == Step /\ UNCHANGED stp

Spec == Init /\ [][Next]_vars
=============================================================================
