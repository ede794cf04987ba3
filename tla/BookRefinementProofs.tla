------------------------ MODULE BookRefinementProofs ------------------------
(***************************************************************************)
(* The engine implements price-time priority (module PriceTime): with      *)
(* prices on the tick grid every step of OrderBook is a step of the        *)
(* abstract book, or changes nothing that the abstract book shows.         *)
(*                                                                         *)
(* There is one lemma per kind of step: a call accepts an arrival, a trade *)
(* fills the one order whose turn it is, a self-trade withdraws it, the    *)
(* rest of an order comes to rest or leaves, cancel and replace withdraw   *)
(* an order, and a restart with the restore behind it keeps every order.   *)
(***************************************************************************)
EXTENDS OrderBookAmounts, BookRefinement

\* The orders a pool holds.
HeldIn(p) == {p[n] : n \in {m \in Nodes : p[m] # NoOrder}}

\* A snapshot is there only while it is being restored.
SnapshotInv == pc # "restore" => TodoNodes = {}

\* Outside a restore the abstract book is what the pool holds.
LEMMA RestingIs ==
    ASSUME SnapshotInv, pc # "restore"
    PROVE  RestingOrders = HeldIn(pool)
<1>1. TodoNodes = {}
    BY DEF SnapshotInv
<1> QED BY <1>1 DEF RestingOrders, HeldIn, LiveNodes

\* An order is held by a live node, and a live node holds one.
LEMMA HeldAt ==
    /\ \A o \in HeldIn(pool) : \E n \in LiveNodes : o = pool[n]
    /\ \A n \in LiveNodes : pool[n] \in HeldIn(pool)
BY Zenon DEF HeldIn, LiveNodes

\* No two nodes hold the same order.
LEMMA HeldOnce ==
    ASSUME BookInv, NEW m \in LiveNodes, NEW n \in LiveNodes, pool[m] = pool[n]
    PROVE  m = n
<1>1. idMap[pool[m].id] = m /\ idMap[pool[n].id] = n
    BY LiveNode, Zenon
<1> QED BY <1>1, Zenon

\* What the abstract book loses and gains.
LEMMA HeldLess ==
    ASSUME BookInv, NEW n \in LiveNodes, NEW r, r[n] = NoOrder,
           \A m \in Nodes : m # n => r[m] = pool[m]
    PROVE  HeldIn(r) = HeldIn(pool) \ {pool[n]}
<1>1. n \in Nodes /\ pool[n] # NoOrder
    BY DEF LiveNodes
<1>2. r[n] = NoOrder /\ \A m \in Nodes : m # n => r[m] = pool[m]
    OBVIOUS
<1>3. \A m \in Nodes : pool[m] # NoOrder /\ pool[m] = pool[n] => m = n
    BY HeldOnce, Zenon DEF LiveNodes
<1>4. ASSUME NEW o \in HeldIn(r) PROVE o \in HeldIn(pool) /\ o # pool[n]
    <2>1. PICK m \in Nodes : r[m] # NoOrder /\ o = r[m]
        BY Zenon DEF HeldIn
    <2>2. m # n /\ o = pool[m] /\ pool[m] # NoOrder
        BY <1>2, <2>1, Zenon
    <2> QED BY <1>3, <2>2, Zenon DEF HeldIn
<1>5. ASSUME NEW o \in HeldIn(pool), o # pool[n] PROVE o \in HeldIn(r)
    <2>1. PICK m \in Nodes : pool[m] # NoOrder /\ o = pool[m]
        BY Zenon DEF HeldIn
    <2>2. r[m] = pool[m]
        BY <1>2, <1>5, <2>1, Zenon
    <2> QED BY <2>1, <2>2, Zenon DEF HeldIn
<1> QED BY <1>4, <1>5, Zenon

\* Filling an empty node adds one order.
LEMMA HeldMore ==
    ASSUME NEW p, NEW n \in Nodes, p[n] = NoOrder, NEW o, o # NoOrder, NEW r,
           r[n] = o, \A m \in Nodes : m # n => r[m] = p[m]
    PROVE  HeldIn(r) = HeldIn(p) \cup {o}
<1>1. r[n] = o /\ \A m \in Nodes : m # n => r[m] = p[m]
    OBVIOUS
<1>2. ASSUME NEW x \in HeldIn(r) PROVE x \in HeldIn(p) \cup {o}
    <2>1. PICK m \in Nodes : r[m] # NoOrder /\ x = r[m]
        BY Zenon DEF HeldIn
    <2>2. m = n \/ (p[m] # NoOrder /\ x = p[m])
        BY <1>1, <2>1, Zenon
    <2> QED BY <1>1, <2>1, <2>2, Zenon DEF HeldIn
<1>3. ASSUME NEW x \in HeldIn(p) PROVE x \in HeldIn(r)
    <2>1. PICK m \in Nodes : p[m] # NoOrder /\ x = p[m]
        BY Zenon DEF HeldIn
    <2> QED BY <1>1, <2>1, Zenon DEF HeldIn
<1>4. o \in HeldIn(r)
    BY <1>1, Zenon DEF HeldIn
<1> QED BY <1>2, <1>3, <1>4, Zenon

\* Changing the order of one node changes that order only.
LEMMA HeldChanged ==
    ASSUME BookInv, NEW n \in LiveNodes, NEW o, o # NoOrder, NEW r, r[n] = o,
           \A m \in Nodes : m # n => r[m] = pool[m]
    PROVE  HeldIn(r) = (HeldIn(pool) \ {pool[n]}) \cup {o}
<1> DEFINE p == [pool EXCEPT ![n] = NoOrder]
<1>1. n \in Nodes /\ DOMAIN pool = Nodes
    BY DEF BookInv, BookTypeOK, LiveNodes
<1>2. p[n] = NoOrder /\ \A m \in Nodes : m # n => p[m] = pool[m]
    BY <1>1
<1> HIDE DEF p
<1>3. HeldIn(p) = HeldIn(pool) \ {pool[n]}
    BY <1>2, HeldLess
<1>4. \A m \in Nodes : m # n => r[m] = p[m]
    BY <1>2, Zenon
<1>5. HeldIn(r) = HeldIn(p) \cup {o}
    BY <1>1, <1>2, <1>4, HeldMore
<1> QED BY <1>3, <1>5, Zenon

\* A full pool holds as many orders as it has nodes.
LEMMA HeldAll ==
    ASSUME BookInv, free = <<>>
    PROVE  Cardinality(HeldIn(pool)) = MaxOrders
<1>1. \A n \in Nodes : pool[n] # NoOrder
    <2>1. Range(free) = {}
        BY EmptyRange, Zenon DEF BookInv, BookTypeOK
    <2> QED BY <2>1 DEF BookInv, IndexConsistent, PoolExact
<1>2. HeldIn(pool) = {pool[n] : n \in Nodes}
    BY <1>1 DEF HeldIn
<1> DEFINE f == [n \in Nodes |-> pool[n]]
           H == HeldIn(pool)
<1>3. f \in [Nodes -> H]
    BY <1>2
<1>4. \A m, n \in Nodes : f[m] = f[n] => m = n
    BY <1>1, HeldOnce DEF LiveNodes
<1>5. \A o \in H : \E n \in Nodes : f[n] = o
    BY <1>2
<1>6. f \in Bijection(Nodes, H)
    <2> HIDE DEF f, H
    <2>1. DOMAIN f = Nodes
        BY <1>3
    <2>2. f \in Injection(Nodes, H)
        BY <1>3, <1>4, <2>1, Zenon DEF Injection, IsInjective
    <2>3. f \in Surjection(Nodes, H)
        BY <1>3, <1>5, Zenon DEF Surjection
    <2> QED BY <2>2, <2>3 DEF Bijection
<1>7. IsFiniteSet(Nodes) /\ Cardinality(Nodes) = MaxOrders
    BY ConfigAssumption, FS_Interval DEF Nodes
<1> HIDE DEF f, H
<1> QED BY <1>6, <1>7, FS_Bijection DEF ExistsBijection, H

\* The fills the caller sees.
LEMMA FillsNone ==
    ASSUME trades = <<>>
    PROVE  Fills = <<>>
BY DEF Fills

\* One more trade is one more fill at the end.
LEMMA FillsMore ==
    ASSUME trades \in Seq(TradeRecords), NEW t \in TradeRecords, trades' = Append(trades, t)
    PROVE  Fills' = Append(Fills, FillOf(t))
<1> DEFINE D == DOMAIN trades
           e == Len(trades) + 1
           G == Append(Fills, FillOf(t))
           T == [passiveId : OrderIds, price : Int, quantity : Nat]
<1>1. D = 1 .. Len(trades) /\ Len(trades) \in Nat
    OBVIOUS
<1>2. \A r \in TradeRecords : FillOf(r) \in T
    BY DEF TradeRecords, FillOf
<1>3. \A k \in D : trades[k] \in TradeRecords
    BY <1>1
<1> HIDE DEF T
<1>4. Fills \in [1 .. Len(trades) -> T]
    BY <1>1, <1>2, <1>3 DEF Fills
<1>5. Fills \in Seq(T) /\ Len(Fills) = Len(trades)
    BY <1>1, <1>4
<1>6. /\ G \in Seq(T) /\ Len(G) = e /\ G[e] = FillOf(t)
      /\ \A k \in 1 .. Len(trades) : G[k] = Fills[k]
    BY <1>2, <1>5, AppendIs
<1>7. /\ DOMAIN trades' = 1 .. e /\ trades'[e] = t
      /\ \A k \in 1 .. Len(trades) : trades'[k] = trades[k]
    BY <1>1
<1>8. Fills' = [k \in 1 .. e |-> FillOf(trades'[k])]
    BY <1>7, Zenon DEF Fills, FillOf
<1>9. \A k \in 1 .. e : FillOf(trades'[k]) = G[k]
    <2>1. \A k \in 1 .. Len(trades) : Fills[k] = FillOf(trades[k])
        BY <1>1 DEF Fills
    <2>2. \A k \in 1 .. e : k = e \/ k \in 1 .. Len(trades)
        BY <1>1
    <2> HIDE DEF G, e
    <2> QED BY <1>6, <1>7, <2>1, <2>2, Zenon
<1>10. G = [k \in 1 .. e |-> G[k]]
    <2> HIDE DEF G
    <2> QED BY <1>6
<1> HIDE DEF G, e
<1>11. Fills' = G
    BY <1>8, <1>9, <1>10, Zenon
<1> QED BY <1>11 DEF G

\* submitEx() accepts an arrival.
LEMMA AcceptStep ==
    ASSUME IInv, AccountInv, SnapshotInv, SnapshotInv', pc \in {"idle", "fresh"}, UNCHANGED stp,
           NEW in \in Arrivals, RejectReason(in) = "Ok", StartMatching(in)
    PROVE  PT!Next
<1>1. /\ pc' = "match" /\ incoming' = in /\ seq' = seq + 1 /\ remaining' = in.quantity
      /\ trades' = trades /\ pool' = pool /\ trades = <<>>
    BY Zenon DEF StartMatching, bookVars, AccountInv
<1>2. pc # "restore" /\ pc' # "restore" /\ pc # "match"
    BY <1>1
<1>3. Arrival = NoOrder /\ Arrival' = in /\ Left' = in.quantity /\ Clock = seq /\ Clock' = seq + 1
    BY <1>1, <1>2, Zenon DEF Arrival, Left, Clock
<1>4. Fills = <<>> /\ Fills' = Fills
    BY <1>1, FillsNone, Zenon DEF Fills
<1>5. RestingOrders = HeldIn(pool)
    BY <1>2, RestingIs, Zenon
<1>6. RestingOrders' = RestingOrders
    <2>1. TodoNodes = {} /\ TodoNodes' = {} /\ LiveNodes' = LiveNodes
        BY <1>1, <1>2, Zenon DEF SnapshotInv, LiveNodes
    <2> QED BY <1>1, <2>1 DEF RestingOrders
<1>7. \A o \in RestingOrders : o.id # in.id
    <2>1. idMap[in.id] = Null /\ BookInv
        BY IInvParts DEF RejectReason
    <2>2. \A n \in LiveNodes : n # Null /\ idMap[pool[n].id] = n
        <3>1. \A n \in LiveNodes : n \in Nodes /\ idMap[pool[n].id] = n
            BY <2>1, LiveNode, Zenon
        <3> QED BY <3>1 DEF Null, Nodes
    <2>3. \A n \in LiveNodes : pool[n].id # in.id
        BY <2>1, <2>2, Zenon
    <2> QED BY <1>5, <2>3, HeldAt, Zenon
<1>8. PT!Accept
    BY <1>3, <1>4, <1>6, <1>7, Zenon DEF PT!Accept
<1> QED BY <1>8, Zenon DEF PT!Next, PT!Step

\* In the middle of matchInto() the abstract book and its arrival are these.
LEMMA MatchView ==
    ASSUME IInv, SnapshotInv, pc = "match"
    PROVE  /\ RestingOrders = HeldIn(pool) /\ Arrival = incoming /\ Left = remaining
           /\ Clock = seq /\ Arrival # NoOrder
<1>1. incoming \in NewOrders
    BY MatchFacts, Zenon
<1>2. incoming # NoOrder
    BY <1>1, ArrivalsAssumption
<1>3. RestingOrders = HeldIn(pool)
    BY RestingIs
<1> QED BY <1>2, <1>3 DEF Arrival, Left, Clock

\* The arrival may deal with an order of the abstract book exactly when it crosses it.
LEMMA AcceptableIs ==
    ASSUME IInv, SnapshotInv, pc = "match", NEW n \in LiveNodes
    PROVE  PT!Acceptable(pool[n]) <=> n \in ReachedIn(pool, incoming)
<1>1. n \in Nodes /\ pool[n] # NoOrder /\ pool[n].side \in Sides /\ pool[n].price \in Int
    BY IInvParts, LiveNode, Zenon
<1>2. incoming.side \in Sides /\ incoming.price \in Int
    BY MatchFacts DEF NewOrders
<1>3. Arrival = incoming
    BY DEF Arrival
<1>4. pool[n].side # incoming.side <=> pool[n].side = Opposite(incoming.side)
    BY <1>1, <1>2 DEF Opposite, Sides
<1>5. Crosses(incoming, pool[n].price) <=>
         \/ incoming.type = "Market"
         \/ IF incoming.side = "Buy" THEN pool[n].price <= incoming.price
            ELSE pool[n].price >= incoming.price
    BY <1>1, <1>2 DEF Crosses
<1>6. n \in ReachedIn(pool, incoming) <=>
         pool[n].side = Opposite(incoming.side) /\ Crosses(incoming, pool[n].price)
    BY <1>1, Zenon DEF ReachedIn
<1> QED BY <1>3, <1>4, <1>5, <1>6, Zenon DEF PT!Acceptable

\* The order the loop stands at is the one whose turn it is.
LEMMA RestingIsNext ==
    ASSUME IInv, PriceInv, SnapshotInv, CanMatch
    PROVE  pool[Resting] \in RestingOrders /\ PT!IsNext(pool[Resting])
<1>1. pc = "match" /\ BestQueue # <<>>
    BY CanMatchFacts, BestLevelOccupied, Zenon
<1>2. Resting \in LiveNodes /\ pool[Resting].side = Opp
    BY <1>1, CanMatchFacts, Zenon
<1>3. RestingOrders = HeldIn(pool)
    BY <1>1, MatchView, Zenon
<1>4. pool[Resting] \in RestingOrders
    BY <1>2, <1>3, HeldAt, Zenon
<1>5. PT!Acceptable(pool[Resting])
    BY <1>1, <1>2, AcceptableIs, RestingCounts, Zenon
<1>6. ASSUME NEW other \in RestingOrders, other.side = pool[Resting].side, other # pool[Resting]
      PROVE  PT!Before(pool[Resting], other)
    <2>1. PICK m \in LiveNodes : other = pool[m]
        BY <1>3, <1>6, HeldAt, Zenon
    <2>2. Precedes(pool[Resting], pool[m])
        BY <1>2, <1>6, <2>1, RestingFirst, Zenon
    <2> QED BY <2>1, <2>2, Zenon DEF Precedes, IsBetter, PT!Before
<1> QED BY <1>4, <1>5, <1>6, Zenon DEF PT!IsNext

\* When the loop stops with something left, the arrival may deal with no resting order.
LEMMA NothingLeft ==
    ASSUME IInv, PriceInv, SnapshotInv, pc = "match", remaining > 0, ~CanMatch
    PROVE  PT!NothingAcceptable
<1>1. RestingOrders = HeldIn(pool)
    BY MatchView, Zenon
<1>2. ASSUME NEW o \in RestingOrders, PT!Acceptable(o) PROVE FALSE
    <2>1. PICK n \in LiveNodes : o = pool[n]
        BY <1>1, <1>2, HeldAt, Zenon
    <2>2. n \in ReachedIn(pool, incoming)
        BY <1>2, <2>1, AcceptableIs, Zenon
    <2> QED BY <2>2, ReachedMatches, Zenon
<1> QED BY <1>2, Zenon DEF PT!NothingAcceptable

\* One trade is one fill of the abstract book.
LEMMA FillStep ==
    ASSUME IInv, PriceInv, AccountInv, SnapshotInv, SnapshotInv', Trade, UNCHANGED stp
    PROVE  PT!Next
<1> DEFINE o == pool[Resting]
           qty == MinOf(remaining, o.remaining)
           t == [id |-> nextTradeId, aggressorId |-> incoming.id, passiveId |-> o.id,
                 price |-> o.price, quantity |-> qty, aggressorSide |-> incoming.side]
           u == [o EXCEPT !.remaining = @ - qty]
<1>1. CanMatch /\ BestQueue # <<>> /\ o.participant # incoming.participant /\ remaining > 0
    BY Zenon DEF Trade, CanMatch
<1>2. BookInv /\ CallTypeOK
    BY IInvParts
<1>3. pc = "match" /\ Resting \in LiveNodes /\ best[Opp] \in Int /\ InRange(best[Opp])
    BY <1>1, CanMatchFacts, Zenon
<1>4. /\ trades' = Append(trades, t) /\ remaining' = remaining - qty
      /\ pc' = pc /\ incoming' = incoming /\ seq' = seq
      /\ IF qty = o.remaining
         THEN LeaveBook(Resting, best[Opp])
         ELSE pool' = [pool EXCEPT ![Resting].remaining = @ - qty]
    BY Zenon DEF Trade
<1>5. /\ o.remaining \in Nat /\ o.id \in OrderIds /\ o.price \in Int /\ o \in Orders
      /\ remaining \in Nat /\ incoming.id \in OrderIds /\ incoming.side \in Sides
      /\ nextTradeId \in Nat
    BY <1>2, <1>3, LiveNode, MatchFacts, Zenon DEF CallTypeOK
<1>6. qty \in Nat /\ qty = IF remaining < o.remaining THEN remaining ELSE o.remaining
    BY <1>5 DEF MinOf
<1>7. /\ RestingOrders = HeldIn(pool) /\ Arrival = incoming /\ Left = remaining /\ Clock = seq
      /\ Arrival # NoOrder
    BY <1>3, MatchView, Zenon
<1>8. /\ Arrival' = incoming /\ Left' = remaining - qty /\ Clock' = seq
      /\ RestingOrders' = HeldIn(pool')
    <2>1. pc' = "match" /\ TodoNodes' = {}
        BY <1>3, <1>4 DEF SnapshotInv
    <2> HIDE DEF qty
    <2> QED BY <1>4, <2>1 DEF Arrival, Left, Clock, RestingOrders, HeldIn, LiveNodes
<1>9. o \in RestingOrders /\ PT!IsNext(o)
    BY <1>1, RestingIsNext, Zenon
<1>10. pool \in [Nodes -> Orders \cup {NoOrder}] /\ Resting \in Nodes
    BY <1>2, <1>3, Zenon DEF BookInv, BookTypeOK, LiveNodes
<1> HIDE DEF qty
<1>11. HeldIn(pool') = (HeldIn(pool) \ {o}) \cup (IF qty = o.remaining THEN {} ELSE {u})
    <2>1. CASE qty = o.remaining
        <3>1. pool' = [pool EXCEPT ![Resting] = NoOrder]
            BY <1>2, <1>3, <1>4, <2>1, LeaveBookInv, Zenon
        <3>2. pool'[Resting] = NoOrder /\ \A m \in Nodes : m # Resting => pool'[m] = pool[m]
            BY <1>10, <3>1
        <3>3. HeldIn(pool') = HeldIn(pool) \ {o}
            BY <1>2, <1>3, <3>2, HeldLess
        <3> HIDE DEF o, u
        <3> QED BY <2>1, <3>3
    <2>2. CASE qty # o.remaining
        <3>1. pool' = [pool EXCEPT ![Resting].remaining = @ - qty]
            BY <1>4, <2>2, Zenon
        <3>2. pool'[Resting] = u /\ \A m \in Nodes : m # Resting => pool'[m] = pool[m]
            BY <1>10, <3>1
        <3>3. u # NoOrder
            <4>1. qty < o.remaining
                BY <1>5, <1>6, <2>2
            <4> HIDE DEF o
            <4>2. u \in Orders
                BY <1>5, <1>6, <4>1 DEF Orders
            <4> QED BY <4>2, ArrivalsAssumption
        <3> HIDE DEF u
        <3>4. HeldIn(pool') = (HeldIn(pool) \ {o}) \cup {u}
            BY <1>2, <1>3, <3>2, <3>3, HeldChanged
        <3> HIDE DEF o
        <3> QED BY <2>2, <3>4
    <2> QED BY <2>1, <2>2
<1>12. /\ t \in TradeRecords
       /\ FillOf(t) = [passiveId |-> o.id, price |-> o.price, quantity |-> qty]
    <2> HIDE DEF o
    <2> QED BY <1>5, <1>6 DEF TradeRecords, FillOf
<1>13. Fills' = Append(Fills, FillOf(t))
    <2>1. trades \in Seq(TradeRecords)
        BY Zenon DEF AccountInv
    <2> HIDE DEF t
    <2> QED BY <1>4, <1>12, <2>1, FillsMore
<1> DEFINE q == IF Left < o.remaining THEN Left ELSE o.remaining
<1>14. qty = q
    BY <1>6, <1>7, Zenon
<1>15. /\ Left' = Left - q
       /\ Fills' = Append(Fills, [passiveId |-> o.id, price |-> o.price, quantity |-> q])
       /\ RestingOrders' = (RestingOrders \ {o}) \cup
             (IF q = o.remaining THEN {} ELSE {[o EXCEPT !.remaining = @ - q]})
    <2> HIDE DEF o, t, q
    <2> QED BY <1>7, <1>8, <1>11, <1>12, <1>13, <1>14, Zenon DEF u
<1>16. PT!Fill
    <2>1. /\ Arrival # NoOrder /\ Left > 0 /\ Arrival' = Arrival /\ Clock' = Clock
          /\ o.participant # Arrival.participant
        BY <1>1, <1>7, <1>8, Zenon
    <2> HIDE DEF o
    <2> QED BY <1>9, <1>15, <2>1, Zenon DEF PT!Fill
<1> QED BY <1>16, Zenon DEF PT!Next, PT!Step

\* A step that ends the call ends the arrival.
LEMMA FinishStep ==
    ASSUME pc = "match", pc' = "done", trades' = trades, seq' = seq
    PROVE  PT!Finish
<1>1. Arrival' = NoOrder /\ Left' = 0 /\ Fills' = Fills /\ Clock' = Clock
    BY DEF Arrival, Left, Fills, Clock, FillOf
<1> QED BY <1>1, Zenon DEF PT!Finish

\* What the abstract book is after a step that is not part of a restore.
LEMMA RestingAfter ==
    ASSUME SnapshotInv', pc' # "restore"
    PROVE  RestingOrders' = HeldIn(pool')
<1>1. TodoNodes' = {}
    BY DEF SnapshotInv
<1> QED BY <1>1 DEF RestingOrders, HeldIn, LiveNodes

\* Node n leaves the book: its order leaves the abstract one.
LEMMA LeaveHeld ==
    ASSUME BookInv, NEW n \in LiveNodes, NEW p \in Int, InRange(p), LeaveBook(n, p)
    PROVE  HeldIn(pool') = HeldIn(pool) \ {pool[n]}
<1>1. pool' = [pool EXCEPT ![n] = NoOrder]
    BY LeaveBookInv, Zenon
<1>2. pool \in [Nodes -> Orders \cup {NoOrder}] /\ n \in Nodes
    BY Zenon DEF BookInv, BookTypeOK, LiveNodes
<1>3. pool'[n] = NoOrder /\ \A m \in Nodes : m # n => pool'[m] = pool[m]
    BY <1>1, <1>2
<1> QED BY <1>3, HeldLess

\* Self-trade prevention is the abstract one.
LEMMA PreventStep ==
    ASSUME IInv, PriceInv, SnapshotInv, SnapshotInv', SelfTrade, UNCHANGED stp
    PROVE  PT!Next
<1> DEFINE o == pool[Resting]
<1>1. CanMatch /\ BestQueue # <<>> /\ o.participant = incoming.participant /\ remaining > 0
    BY Zenon DEF SelfTrade, CanMatch
<1>2. BookInv
    BY IInvParts
<1>3. pc = "match" /\ Resting \in LiveNodes /\ best[Opp] \in Int /\ InRange(best[Opp])
    BY <1>1, CanMatchFacts, Zenon
<1>4. /\ IF stp = "CancelAggressor" THEN pool' = pool ELSE LeaveBook(Resting, best[Opp])
      /\ IF stp = "CancelPassive" THEN pc' = pc ELSE pc' = "done"
      /\ seq' = seq /\ incoming' = incoming /\ remaining' = remaining /\ trades' = trades
    BY Zenon DEF SelfTrade, bookVars, counters
<1>5. /\ RestingOrders = HeldIn(pool) /\ Arrival = incoming /\ Left = remaining
      /\ Arrival # NoOrder
    BY <1>3, MatchView, Zenon
<1>6. pc' # "restore"
    BY <1>3, <1>4
<1>7. RestingOrders' = HeldIn(pool')
    BY <1>6, RestingAfter, Zenon
<1>8. RestingOrders' = IF stp = "CancelAggressor" THEN RestingOrders ELSE RestingOrders \ {o}
    BY <1>2, <1>3, <1>4, <1>5, <1>7, LeaveHeld, Zenon
<1>9. o \in RestingOrders /\ PT!IsNext(o)
    BY <1>1, RestingIsNext, Zenon
<1>10. IF stp = "CancelPassive"
       THEN Arrival' = Arrival /\ Left' = Left /\ Fills' = Fills /\ Clock' = Clock
       ELSE PT!Finish
    <2>1. CASE stp = "CancelPassive"
        BY <1>3, <1>4, <2>1, Zenon DEF Arrival, Left, Fills, Clock, FillOf
    <2>2. CASE stp # "CancelPassive"
        BY <1>3, <1>4, <2>2, FinishStep, Zenon
    <2> QED BY <2>1, <2>2
<1>11. o.participant = Arrival.participant /\ Left > 0
    BY <1>1, <1>5, Zenon
<1>12. PT!PreventSelfTrade
    <2> HIDE DEF o
    <2> QED BY <1>5, <1>8, <1>9, <1>10, <1>11, Zenon DEF PT!PreventSelfTrade
<1> QED BY <1>12, Zenon DEF PT!Next, PT!Step

\* restResidual(): the rest of the arrival joins the abstract book.
LEMMA RestStep ==
    ASSUME IInv, PriceInv, SnapshotInv, SnapshotInv', RestResidual, UNCHANGED stp
    PROVE  PT!Next
<1> DEFINE n == Head(free)
<1>1. /\ pc = "match" /\ incoming.type = "Limit" /\ remaining > 0 /\ free # <<>> /\ ~CanMatch
      /\ pc' = "done" /\ EnterBook(Residual) /\ seq' = seq /\ trades' = trades
    BY Zenon DEF RestResidual, EndMatching, counters
<1>2. BookInv
    BY IInvParts
<1>3. Residual \in Orders
    BY <1>1, ResidualType
<1>4. Residual # NoOrder
    BY <1>3, ArrivalsAssumption
<1>5. n \in Nodes /\ pool[n] = NoOrder
    BY <1>1, <1>2, FreeNode, Zenon
<1>6. pool' = [pool EXCEPT ![n] = Residual] /\ pool \in [Nodes -> Orders \cup {NoOrder}]
    BY <1>1, <1>2, Zenon DEF EnterBook, BookInv, BookTypeOK
<1> HIDE DEF n
<1>7. pool'[n] = Residual /\ \A m \in Nodes : m # n => pool'[m] = pool[m]
    BY <1>5, <1>6
<1>8. HeldIn(pool') = HeldIn(pool) \cup {Residual}
    BY <1>4, <1>5, <1>7, HeldMore
<1>9. /\ RestingOrders = HeldIn(pool) /\ Arrival = incoming /\ Left = remaining
      /\ Arrival # NoOrder /\ Clock = seq
    BY <1>1, MatchView, Zenon
<1>10. pc' # "restore"
    BY <1>1
<1>11. RestingOrders' = RestingOrders \cup {Residual}
    BY <1>8, <1>9, <1>10, RestingAfter, Zenon
<1>12. Residual = [id |-> Arrival.id, price |-> Arrival.price, quantity |-> Arrival.quantity,
                   remaining |-> Left, participant |-> Arrival.participant, seq |-> Clock,
                   side |-> Arrival.side]
    BY <1>9, Zenon DEF Residual
<1>13. PT!NothingAcceptable /\ PT!Finish
    BY <1>1, NothingLeft, FinishStep, Zenon
<1>14. PT!Rest
    BY <1>1, <1>9, <1>11, <1>12, <1>13, Zenon DEF PT!Rest
<1> QED BY <1>14, Zenon DEF PT!Next, PT!Step

\* The other ends of a call: nothing comes to rest.
LEMMA LeaveStep ==
    ASSUME IInv, PriceInv, FokInv, SnapshotInv, SnapshotInv', UNCHANGED stp,
           PoolExhausted \/ DropResidual \/ FullyFilled
    PROVE  PT!Next
<1>1. /\ pc = "match" /\ pc' = "done" /\ ~CanMatch /\ seq' = seq /\ trades' = trades
      /\ pool' = pool
    BY Zenon DEF PoolExhausted, DropResidual, FullyFilled, EndMatching, counters, bookVars
<1>2. BookInv /\ incoming.type \in OrderTypes
    BY <1>1, IInvParts, MatchFacts DEF NewOrders
<1>3. /\ RestingOrders = HeldIn(pool) /\ Arrival = incoming /\ Left = remaining
      /\ Arrival # NoOrder
    BY <1>1, MatchView, Zenon
<1>4. RestingOrders' = RestingOrders
    <2>1. pc' # "restore"
        BY <1>1
    <2> QED BY <1>1, <1>3, <2>1, RestingAfter, Zenon
<1>5. remaining > 0 => PT!NothingAcceptable
    BY <1>1, NothingLeft, Zenon
<1>6. \/ Left = 0
      \/ Left > 0 /\ PT!NothingAcceptable /\ Arrival.type \in {"Market", "Ioc"}
      \/ Left > 0 /\ PT!NothingAcceptable /\ Arrival.type = "Limit"
           /\ Cardinality(RestingOrders) = MaxOrders
    <2>1. CASE FullyFilled
        BY <1>3, <2>1, Zenon DEF FullyFilled
    <2>2. CASE PoolExhausted
        <3>1. incoming.type = "Limit" /\ remaining > 0 /\ free = <<>>
            BY <2>2, Zenon DEF PoolExhausted
        <3> QED BY <1>2, <1>3, <1>5, <3>1, HeldAll, Zenon
    <2>3. CASE DropResidual
        <3>1. incoming.type # "Limit" /\ remaining > 0
            BY <2>3, Zenon DEF DropResidual
        <3>2. incoming.type # "Fok"
            BY <1>1, <3>1, FokNeverStops, Zenon
        <3>3. incoming.type \in {"Market", "Ioc"}
            BY <1>2, <3>1, <3>2 DEF OrderTypes
        <3> QED BY <1>3, <1>5, <3>1, <3>3, Zenon
    <2> QED BY <2>1, <2>2, <2>3
<1>7. PT!Finish
    BY <1>1, FinishStep, Zenon
<1>8. PT!Cardinality(RestingOrders) = Cardinality(RestingOrders)
    BY Zenon DEF PT!Cardinality, Cardinality
<1>9. PT!Leave
    BY <1>3, <1>4, <1>6, <1>7, <1>8, Zenon DEF PT!Leave
<1> QED BY <1>9, Zenon DEF PT!Next, PT!Step

\* A step outside matchInto() and a restore that leaves the orders, the trades and the sequence
\* number alone changes nothing the abstract book shows.
LEMMA QuietStep ==
    ASSUME SnapshotInv, SnapshotInv', pc \notin {"match", "restore"},
           pc' \notin {"match", "restore"}, UNCHANGED <<stp, pool, trades, seq>>
    PROVE  UNCHANGED PT!vars
<1>1. /\ pc # "match" /\ pc' # "match" /\ pc # "restore" /\ pc' # "restore"
      /\ stp' = stp /\ pool' = pool /\ trades' = trades /\ seq' = seq
    OBVIOUS
<1>2. RestingOrders' = RestingOrders
    BY <1>1, RestingIs, RestingAfter, Zenon
<1>3. Arrival' = Arrival /\ Left' = Left /\ Fills' = Fills /\ Clock' = Clock
    BY <1>1, Zenon DEF Arrival, Left, Fills, Clock, FillOf
<1> QED BY <1>1, <1>2, <1>3, Zenon DEF PT!vars

\* cancel() of a resting order, and the cancelling half of replace().
LEMMA WithdrawStep ==
    ASSUME IInv, SnapshotInv, SnapshotInv', pc = "idle", pc' \notin {"match", "restore"},
           NEW id \in OrderIds, idMap[id] # Null, RemoveForCancel(id),
           UNCHANGED <<stp, trades, seq>>
    PROVE  PT!Next
<1> DEFINE n == idMap[id]
<1>1. BookInv
    BY IInvParts
<1>2. n \in LiveNodes
    BY <1>1, SMTT(60) DEF BookInv, BookTypeOK, IndexConsistent, IdMapExact, LiveNodes
<1>3. LeaveBook(n, pool[n].price)
    BY Zenon DEF RemoveForCancel
<1> HIDE DEF n
<1>4. pool[n].price \in Int /\ InRange(pool[n].price)
    BY <1>1, <1>2, LiveNode, Zenon
<1>5. HeldIn(pool') = HeldIn(pool) \ {pool[n]} /\ pool[n] \in HeldIn(pool)
    BY <1>1, <1>2, <1>3, <1>4, LeaveHeld, HeldAt, Zenon
<1>6. /\ pc # "match" /\ pc' # "match" /\ pc # "restore" /\ pc' # "restore"
      /\ stp' = stp /\ trades' = trades /\ seq' = seq
    OBVIOUS
<1>7. RestingOrders = HeldIn(pool) /\ RestingOrders' = HeldIn(pool')
    BY <1>6, RestingIs, RestingAfter, Zenon
<1>8. /\ Arrival = NoOrder /\ Arrival' = Arrival /\ Left' = Left /\ Fills' = Fills
      /\ Clock' = Clock
    BY <1>6, Zenon DEF Arrival, Left, Fills, Clock, FillOf
<1>9. \E o \in RestingOrders : RestingOrders' = RestingOrders \ {o}
    BY <1>5, <1>7, Zenon
<1>10. PT!Withdraw
    BY <1>8, <1>9, Zenon DEF PT!Withdraw
<1> QED BY <1>6, <1>10, Zenon DEF PT!Next, PT!Step

\* The calls, and the second half of replace().
LEMMA CallStep ==
    ASSUME IInv, PriceInv, AccountInv, SnapshotInv, SnapshotInv', UNCHANGED stp,
           Call \/ SubmitFresh
    PROVE  PT!Next \/ UNCHANGED PT!vars
<1>1. ASSUME NEW in, NEW reason, pc \in {"idle", "fresh"}, Rejected(in, reason)
      PROVE  UNCHANGED PT!vars
    <2>1. /\ pc \notin {"match", "restore"} /\ pc' \notin {"match", "restore"}
          /\ UNCHANGED <<stp, pool, trades, seq>>
        BY <1>1 DEF Rejected, bookVars, counters
    <2> QED BY <2>1, QuietStep, Zenon
<1>2. ASSUME NEW in \in Arrivals, pc \in {"idle", "fresh"}, SubmitEx(in)
      PROVE  PT!Next \/ UNCHANGED PT!vars
    <2>1. CASE RejectReason(in) = "Ok"
        <3>1. StartMatching(in)
            BY <1>2, <2>1, Zenon DEF SubmitEx
        <3> QED BY <1>2, <2>1, <3>1, AcceptStep, Zenon
    <2>2. CASE RejectReason(in) # "Ok"
        <3>1. Rejected(in, RejectReason(in))
            BY <1>2, <2>2, Zenon DEF SubmitEx
        <3> QED BY <1>1, <1>2, <3>1
    <2> QED BY <2>1, <2>2
<1>3. CASE SubmitFresh
    <2>1. pc = "fresh" /\ SubmitEx(incoming) /\ incoming \in Arrivals
        BY <1>3 DEF SubmitFresh, PriceInv
    <2> QED BY <1>2, <2>1
<1>4. ASSUME pc = "idle", NEW id \in OrderIds, Cancel(id)
      PROVE  PT!Next \/ UNCHANGED PT!vars
    <2>1. /\ pc \notin {"match", "restore"} /\ pc' \notin {"match", "restore"}
          /\ UNCHANGED <<stp, trades, seq>>
        BY <1>4 DEF Cancel, counters
    <2>2. CASE idMap[id] = Null
        <3>1. UNCHANGED <<stp, pool, trades, seq>>
            BY <1>4, <2>1, <2>2, Zenon DEF Cancel, bookVars
        <3> QED BY <2>1, <3>1, QuietStep, Zenon
    <2>3. CASE idMap[id] # Null
        <3>1. RemoveForCancel(id)
            BY <1>4, <2>3, Zenon DEF Cancel
        <3> QED BY <1>4, <2>1, <2>3, <3>1, WithdrawStep, Zenon
    <2> QED BY <2>2, <2>3
<1>5. ASSUME pc = "idle", NEW id \in OrderIds, NEW in \in Arrivals, Replace(id, in)
      PROVE  PT!Next \/ UNCHANGED PT!vars
    <2>1. CASE ReplaceRejectReason(id, in) # "Ok"
        <3>1. Rejected(in, ReplaceRejectReason(id, in))
            BY <1>5, <2>1, Zenon DEF Replace
        <3> QED BY <1>1, <1>5, <3>1
    <2>2. CASE ReplaceRejectReason(id, in) = "Ok"
        <3>1. idMap[id] # Null
            BY <2>2 DEF ReplaceRejectReason
        <3>2. /\ RemoveForCancel(id) /\ pc' \notin {"match", "restore"}
              /\ UNCHANGED <<stp, trades, seq>>
            BY <1>5, <2>2 DEF Replace, counters
        <3> QED BY <1>5, <3>1, <3>2, WithdrawStep, Zenon
    <2> QED BY <2>1, <2>2
<1>6. CASE \E in \in Arrivals : pc = "idle" /\ Submit(in)
    BY <1>2, <1>6 DEF Submit
<1> QED BY <1>3, <1>4, <1>5, <1>6, Zenon DEF Call

\* The caller has used the outputs of the call.
LEMMA ForgetStep ==
    ASSUME SnapshotInv, SnapshotInv', Return, UNCHANGED stp
    PROVE  PT!Next
<1>1. pc = "done" /\ pc' = "idle" /\ trades' = <<>> /\ seq' = seq /\ pool' = pool
    BY Zenon DEF Return, bookVars, counters
<1>2. pc # "restore" /\ pc' # "restore" /\ pc # "match" /\ pc' # "match"
    BY <1>1
<1>3. RestingOrders' = RestingOrders
    BY <1>1, <1>2, RestingIs, RestingAfter, Zenon
<1>4. Arrival = NoOrder /\ Arrival' = Arrival /\ Left' = Left /\ Clock' = Clock
    BY <1>1, <1>2, Zenon DEF Arrival, Left, Clock
<1>5. Fills' = <<>>
    BY <1>1 DEF Fills
<1>6. PT!Forget
    BY <1>3, <1>4, <1>5, Zenon DEF PT!Forget
<1> QED BY <1>6, Zenon DEF PT!Next, PT!Step

\* A snapshot collects every resting order: the walk over the levels misses none.
LEMMA RestartStep ==
    ASSUME IInv, PriceInv, SnapshotInv, Restart, UNCHANGED stp
    PROVE  UNCHANGED PT!vars
<1>1. BookInv /\ BookPrices
    BY IInvParts, Zenon DEF PriceInv
<1>2. /\ pc = "idle" /\ pc' = "restore" /\ trades' = trades
      /\ pool' = [n \in Nodes |-> NoOrder]
      /\ todo'.pool = pool /\ todo'.bookSeq = seq
      /\ todo'.queue = [s \in Sides |-> [i \in Slots |-> Collected(s, i)]]
    BY DEF Restart, callVars
<1>3. pc # "match" /\ pc' # "match" /\ pc # "restore"
    BY <1>2
<1>4. \A s \in Sides, i \in Slots : todo'.queue[s][i] = Collected(s, i)
    BY <1>2
<1>5. \A n \in Nodes : pool'[n] = NoOrder
    BY <1>2
<1>6. TodoNodes' = {n \in Nodes : \E s \in Sides, i \in Slots : n \in Range(Collected(s, i))}
    BY <1>4, Zenon DEF TodoNodes
<1>7. ASSUME NEW n \in LiveNodes PROVE n \in TodoNodes'
    <2> DEFINE s == pool[n].side
               i == Index(pool[n].price)
    <2>1. n \in Nodes /\ s \in Sides /\ i \in Slots /\ n \in Range(queue[s][i])
        BY <1>1, LiveNode, Zenon
    <2>2. i \in VisitedSlots(s)
        BY <1>1, WalkVisits, Zenon
    <2> HIDE DEF s, i
    <2>3. n \in Range(Collected(s, i))
        BY <2>1, <2>2, Zenon DEF Collected
    <2> QED BY <1>6, <2>1, <2>3, Zenon
<1>8. ASSUME NEW n \in TodoNodes' PROVE n \in LiveNodes
    <2>1. PICK s \in Sides, i \in Slots : n \in Range(Collected(s, i))
        BY <1>6, Zenon
    <2>2. n \in Range(queue[s][i])
        <3>1. Range(<<>>) = {}
            BY EmptyIs, EmptyRange, Zenon
        <3> QED BY <2>1, <3>1, Zenon DEF Collected
    <2> QED BY <1>1, <2>2, QueuedAt, Zenon
<1>9. RestingOrders' = RestingOrders
    <2>1. TodoNodes' = LiveNodes /\ LiveNodes' = {} /\ TodoNodes = {}
        BY <1>3, <1>5, <1>7, <1>8, Zenon DEF LiveNodes, SnapshotInv
    <2>2. RestingOrders' = {pool[n] : n \in LiveNodes} /\ RestingOrders = {pool[n] : n \in LiveNodes}
        BY <1>2, <2>1 DEF RestingOrders
    <2> QED BY <2>2, Zenon
<1>10. Arrival' = Arrival /\ Left' = Left /\ Fills' = Fills /\ Clock' = Clock
    BY <1>2, <1>3, Zenon DEF Arrival, Left, Fills, Clock, FillOf
<1> QED BY <1>9, <1>10, Zenon DEF PT!vars

\* restoreResting() moves one order from what is to come to what is back.
LEMMA RestoreStep ==
    ASSUME IInv, RestoreResting, UNCHANGED stp
    PROVE  UNCHANGED PT!vars
<1> DEFINE n == Head(free)
           o == TodoOrder
           q == todo.queue[TodoSide][TodoSlot]
           w == Head(q)
<1>1. /\ pc = "restore" /\ ~TodoEmpty /\ free # <<>> /\ EnterBook(o)
      /\ todo' = [todo EXCEPT !.queue[TodoSide][TodoSlot] = Tail(@)]
      /\ pc' = pc /\ trades' = trades
    BY Zenon DEF RestoreResting, callVars
<1>2. BookInv /\ CallTypeOK
    BY IInvParts
<1>3. /\ TodoSide \in Sides /\ TodoSlot \in Slots /\ q \in Seq(Nodes) /\ q # <<>>
      /\ o \in Orders /\ w \in Nodes /\ o = todo.pool[w] /\ o # NoOrder
    BY <1>1, TodoFacts, ArrivalsAssumption, ZenonT(60) DEF TodoOrder
<1>4. /\ todo'.pool = todo.pool /\ todo'.bookSeq = todo.bookSeq
      /\ todo'.queue = [todo.queue EXCEPT ![TodoSide][TodoSlot] = Tail(@)]
      /\ todo.queue \in [Sides -> [Slots -> Seq(Nodes)]]
    <2>1. todo \in [pool : [Nodes -> Orders \cup {NoOrder}], queue : [Sides -> [Slots -> Seq(Nodes)]],
                    bookSeq : Nat, nextTradeId : Nat]
        BY <1>2, Zenon DEF CallTypeOK
    <2>2. todo' = [todo EXCEPT !.queue[TodoSide][TodoSlot] = Tail(@)]
        BY <1>1, Zenon
    <2> HIDE DEF n, o, q, w
    <2> QED BY ONLY <2>1, <2>2, SMT
<1>5. \A t \in Sides, l \in Slots :
         todo'.queue[t][l] = IF t = TodoSide /\ l = TodoSlot THEN Tail(q) ELSE todo.queue[t][l]
    BY <1>3, <1>4
<1>6. Range(q) = {w} \cup Range(Tail(q))
    <2> HIDE DEF q
    <2> QED BY <1>3, TailFacts
<1>7. n \in Nodes /\ pool[n] = NoOrder
    BY <1>1, <1>2, FreeNode, Zenon
<1>8. pool' = [pool EXCEPT ![n] = o] /\ pool \in [Nodes -> Orders \cup {NoOrder}]
    BY <1>1, <1>2, Zenon DEF EnterBook, BookInv, BookTypeOK
<1> HIDE DEF n, o, w
<1>9. HeldIn(pool') = HeldIn(pool) \cup {o}
    <2>1. pool'[n] = o /\ \A m \in Nodes : m # n => pool'[m] = pool[m]
        BY <1>7, <1>8
    <2> QED BY <1>3, <1>7, <2>1, HeldMore
<1>10. TodoNodes = TodoNodes' \cup {w}
    <2>1. \A t \in Sides, l \in Slots : Range(todo'.queue[t][l]) \subseteq Range(todo.queue[t][l])
        BY <1>5, <1>6, Zenon DEF q
    <2>2. \A t \in Sides, l \in Slots :
             \A m \in Range(todo.queue[t][l]) : m = w \/ m \in Range(todo'.queue[t][l])
        BY <1>5, <1>6, Zenon DEF q
    <2>3. w \in TodoNodes
        BY <1>3, <1>6, Zenon DEF TodoNodes, q
    <2>4. ASSUME NEW m \in TodoNodes' PROVE m \in TodoNodes
        BY <2>1, Zenon DEF TodoNodes
    <2>5. ASSUME NEW m \in TodoNodes PROVE m = w \/ m \in TodoNodes'
        BY <2>2, Zenon DEF TodoNodes
    <2> QED BY <2>3, <2>4, <2>5, Zenon
<1>11. RestingOrders' = RestingOrders
    <2> DEFINE T == {todo.pool[m] : m \in TodoNodes'}
    <2>1. RestingOrders' = HeldIn(pool') \cup T
        <3>1. RestingOrders' = HeldIn(pool') \cup {todo'.pool[m] : m \in TodoNodes'}
            BY Zenon DEF RestingOrders, HeldIn, LiveNodes
        <3>2. {todo'.pool[m] : m \in TodoNodes'} = T
            BY <1>4
        <3> QED BY <3>1, <3>2, Zenon
    <2>2. RestingOrders = HeldIn(pool) \cup {todo.pool[m] : m \in TodoNodes}
        BY Zenon DEF RestingOrders, HeldIn, LiveNodes
    <2>3. {todo.pool[m] : m \in TodoNodes} = T \cup {o}
        <3>1. ASSUME NEW x \in {todo.pool[m] : m \in TodoNodes} PROVE x \in T \cup {o}
            <4>1. PICK m \in TodoNodes : x = todo.pool[m]
                BY <3>1, Zenon
            <4> QED BY <1>3, <1>10, <4>1, Zenon
        <3>2. T \subseteq {todo.pool[m] : m \in TodoNodes}
            BY <1>10, Zenon
        <3>3. o \in {todo.pool[m] : m \in TodoNodes}
            BY <1>3, <1>10, Zenon
        <3> QED BY <3>1, <3>2, <3>3, Zenon
    <2> HIDE DEF T
    <2> QED BY <1>9, <2>1, <2>2, <2>3
<1>12. Arrival' = Arrival /\ Left' = Left /\ Fills' = Fills /\ Clock' = Clock
    BY <1>1, <1>4, Zenon DEF Arrival, Left, Fills, Clock, FillOf
<1> QED BY <1>11, <1>12, Zenon DEF PT!vars

\* restoreCounters(): the snapshot is used up.
LEMMA CountersStep ==
    ASSUME SnapshotInv', RestoreCounters, UNCHANGED stp
    PROVE  UNCHANGED PT!vars
<1>1. /\ pc = "restore" /\ pc' = "idle" /\ TodoEmpty /\ seq' = todo.bookSeq
      /\ pool' = pool /\ trades' = trades
    BY Zenon DEF RestoreCounters, bookVars, callVars
<1>2. pc # "match" /\ pc' # "match" /\ pc' # "restore"
    BY <1>1
<1>3. TodoNodes = {}
    <2>1. Range(<<>>) = {}
        BY EmptyIs, EmptyRange, Zenon
    <2>2. \A s \in Sides, i \in Slots : todo.queue[s][i] = <<>>
        BY <1>1, Zenon DEF TodoEmpty, TodoSlots
    <2> QED BY <2>1, <2>2, Zenon DEF TodoNodes
<1>4. RestingOrders' = RestingOrders
    <2>1. RestingOrders = HeldIn(pool)
        BY <1>3 DEF RestingOrders, HeldIn, LiveNodes
    <2> QED BY <1>1, <1>2, <2>1, RestingAfter, Zenon
<1>5. Arrival' = Arrival /\ Left' = Left /\ Fills' = Fills /\ Clock' = Clock
    BY <1>1, <1>2, Zenon DEF Arrival, Left, Fills, Clock, FillOf
<1> QED BY <1>4, <1>5, Zenon DEF PT!vars

\* The initial book is the initial abstract one.
LEMMA InitStep == Init => PT!Init /\ SnapshotInv
<1> SUFFICES ASSUME Init PROVE PT!Init /\ SnapshotInv
    BY Zenon
<1>1. /\ stp \in Policies /\ pc = "idle" /\ seq = 0 /\ trades = <<>> /\ todo = NoSnapshot
      /\ pool = [n \in Nodes |-> NoOrder]
    BY Zenon DEF Init, EmptyBook, NoCall
<1>2. TodoNodes = {}
    <2>1. Range(<<>>) = {}
        BY EmptyIs, EmptyRange, Zenon
    <2>2. \A s \in Sides, i \in Slots : todo.queue[s][i] = <<>>
        BY <1>1 DEF NoSnapshot
    <2> QED BY <2>1, <2>2, Zenon DEF TodoNodes
<1>3. RestingOrders = {}
    BY <1>1, <1>2 DEF RestingOrders, LiveNodes
<1>4. Fills = <<>>
    BY <1>1, FillsNone
<1>5. Arrival = NoOrder /\ Left = 0 /\ Clock = 0
    BY <1>1 DEF Arrival, Left, Clock
<1> QED BY <1>1, <1>2, <1>3, <1>4, <1>5, Zenon DEF PT!Init, SnapshotInv

\* Only a restart brings a snapshot about, and the end of the restore drops it.
LEMMA NextSnapshot == SnapshotInv /\ [Next]_vars => SnapshotInv'
<1> SUFFICES ASSUME SnapshotInv, [Next]_vars PROVE SnapshotInv'
    BY Zenon
<1>1. CASE Restart \/ RestoreResting
    BY <1>1 DEF Restart, RestoreResting, SnapshotInv
<1>2. CASE RestoreCounters
    <2>1. todo' = NoSnapshot
        BY <1>2, Zenon DEF RestoreCounters
    <2>2. Range(<<>>) = {}
        BY EmptyIs, EmptyRange, Zenon
    <2>3. \A s \in Sides, i \in Slots : todo'.queue[s][i] = <<>>
        BY <2>1 DEF NoSnapshot
    <2> QED BY <2>2, <2>3, Zenon DEF TodoNodes, SnapshotInv
<1>3. CASE UNCHANGED vars \/ Call \/ SubmitFresh \/ Match \/ Return
    <2>1. todo' = todo
        BY <1>3, Zenon DEF vars, Call, Submit, Cancel, Replace, SubmitFresh, SubmitEx, Rejected,
              StartMatching, Match, Trade, SelfTrade, SkipEmptyLevel, RestResidual, PoolExhausted,
              DropResidual, FullyFilled, EndMatching, Return
    <2>2. pc = "restore" => pc' = "restore"
        BY <1>3 DEF vars, Call, SubmitFresh, Match, Trade, SelfTrade, SkipEmptyLevel, CanMatch,
              RestResidual, PoolExhausted, DropResidual, FullyFilled, EndMatching, Return
    <2>3. TodoNodes' = TodoNodes
        BY <2>1, Zenon DEF TodoNodes
    <2> QED BY <2>2, <2>3, Zenon DEF SnapshotInv
<1> QED BY <1>1, <1>2, <1>3, Zenon DEF Next, Step

\* Every step of the engine is a step of the abstract book or shows nothing there.
LEMMA NextStep ==
    IInv /\ PriceInv /\ AccountInv /\ FokInv /\ SnapshotInv /\ SnapshotInv' /\ [Next]_vars
        => [PT!Next]_PT!vars
<1> SUFFICES ASSUME IInv, PriceInv, AccountInv, FokInv, SnapshotInv, SnapshotInv', [Next]_vars
             PROVE  PT!Next \/ UNCHANGED PT!vars
    BY Zenon
<1>1. CASE UNCHANGED vars
    <2>1. UNCHANGED <<stp, pool, trades, seq, pc, incoming, remaining, todo>>
        BY <1>1, Zenon DEF vars, bookVars, counters, callVars
    <2>2. LiveNodes' = LiveNodes /\ TodoNodes' = TodoNodes
        BY <2>1, Zenon DEF LiveNodes, TodoNodes
    <2>3. RestingOrders' = RestingOrders
        BY <2>1, <2>2, Zenon DEF RestingOrders
    <2>4. Arrival' = Arrival /\ Left' = Left /\ Fills' = Fills /\ Clock' = Clock
        BY <2>1, Zenon DEF Arrival, Left, Fills, Clock, FillOf
    <2> QED BY <2>1, <2>3, <2>4, Zenon DEF PT!vars
<1>2. CASE Match /\ UNCHANGED stp
    <2>1. ~SkipEmptyLevel
        BY BestLevelOccupied, Zenon DEF SkipEmptyLevel
    <2>2. CASE Trade
        BY <1>2, <2>2, FillStep, Zenon
    <2>3. CASE SelfTrade
        BY <1>2, <2>3, PreventStep, Zenon
    <2>4. CASE RestResidual
        BY <1>2, <2>4, RestStep, Zenon
    <2>5. CASE PoolExhausted \/ DropResidual \/ FullyFilled
        BY <1>2, <2>5, LeaveStep, Zenon
    <2> QED BY <1>2, <2>1, <2>2, <2>3, <2>4, <2>5, Zenon DEF Match
<1>3. CASE (Call \/ SubmitFresh) /\ UNCHANGED stp
    BY <1>3, CallStep, Zenon
<1>4. CASE Return /\ UNCHANGED stp
    BY <1>4, ForgetStep, Zenon
<1>5. CASE Restart /\ UNCHANGED stp
    BY <1>5, RestartStep, Zenon
<1>6. CASE RestoreResting /\ UNCHANGED stp
    BY <1>6, RestoreStep, Zenon
<1>7. CASE RestoreCounters /\ UNCHANGED stp
    BY <1>7, CountersStep, Zenon
<1> QED BY <1>1, <1>2, <1>3, <1>4, <1>5, <1>6, <1>7, Zenon DEF Next, Step

\* The engine implements the abstract price-time book: with prices on the tick grid every fill is
\* of the one order whose turn it is, nothing rests that could trade, a FOK is never left half
\* filled, and neither the snapshot of a restart nor putting it back changes what is in the book.
THEOREM ImplementsPriceTime == TickAligned => (Spec => RefinesPriceTime)
<1> SUFFICES ASSUME TickAligned PROVE Spec => RefinesPriceTime
    OBVIOUS
<1>1. Spec => []PriceInv /\ []FokInv
    BY PriceInvariant, FokInvariant
<1>2. Spec => []SnapshotInv
    BY InitStep, NextSnapshot, PTL DEF Spec
<1>3. Init => PT!Init
    BY InitStep
<1> QED BY <1>1, <1>2, <1>3, NextStep, AccountInvariant, BookInvariant, PTL
        DEF Spec, RefinesPriceTime, PT!Spec
=============================================================================
