------------------------------ MODULE OrderBook ------------------------------
(***************************************************************************)
(* The matching engine of one instrument: class OrderBook with the         *)
(* structures it is made of (LevelMap, PriceLevel, OrderIdMap, ObjectPool).*)
(*                                                                         *)
(* The engine is single-threaded: a call runs to completion before the     *)
(* next one starts.  A call is a chain of steps here, driven by pc, whose  *)
(* middle is one step per iteration of matchInto()'s inner loop; nothing   *)
(* else can happen while pc # "idle".                                      *)
(*                                                                         *)
(* Order objects are pool nodes.  The intrusive list of a PriceLevel is    *)
(* the sequence of its nodes from head to tail.  The occupancy bitset is   *)
(* the set of its set bits (module LevelMap has the words), and the hash   *)
(* table of ids is a function (module OrderIdMap has the probing).         *)
(***************************************************************************)
EXTENDS Integers, Sequences, FiniteSets, FiniteSetsExt

CONSTANTS
    OrderIds, Participants,
    MinPrice, MaxPrice, Tick, MaxOrders,  \* struct BookConfig, stp apart
    Policies,  \* the self-trade policies a book may be configured with
    Arrivals,  \* the NewOrder values a caller submits
    MaxSeq,    \* bound: no arrival is submitted once seq has reached it
    NoOrder    \* storage that holds no live object

Sides == {"Buy", "Sell"}
OrderTypes == {"Limit", "Market", "Ioc", "Fok"}
StpPolicies == {"CancelAggressor", "CancelPassive", "CancelBoth"}

NewOrders == [id : OrderIds, price : Int, quantity : Int,
              participant : Participants, side : Sides, type : OrderTypes]

Orders == {o \in [id : OrderIds, price : MinPrice .. MaxPrice, quantity : Nat \ {0},
                  remaining : Nat \ {0}, participant : Participants, seq : Nat \ {0},
                  side : Sides] : o.remaining <= o.quantity}

ASSUME ConfigAssumption ==
    /\ MinPrice \in Int /\ MaxPrice \in Int /\ MinPrice <= MaxPrice
    /\ Tick \in Nat \ {0}
    /\ MaxOrders \in Nat
    /\ Policies \subseteq StpPolicies

ASSUME ArrivalsAssumption ==
    /\ Arrivals \subseteq NewOrders
    /\ MaxSeq \in Nat
    /\ NoOrder \notin Orders
    /\ NoOrder \notin NewOrders

Opposite(s) == IF s = "Buy" THEN "Sell" ELSE "Buy"

\* kBidEmpty / kAskEmpty: a price worse than every price of the side.
EmptySentinel(s) == IF s = "Buy" THEN MinPrice - 1 ELSE MaxPrice + 1

NumSlots == ((MaxPrice - MinPrice) \div Tick) + 1
Slots == 0 .. (NumSlots - 1)
InRange(p) == MinPrice <= p /\ p <= MaxPrice
Index(p) == (p - MinPrice) \div Tick
SlotPrice(i) == MinPrice + i * Tick
IsBetter(s, a, b) == IF s = "Buy" THEN a > b ELSE a < b

Nodes == 1 .. MaxOrders
Null == 0

VARIABLES
    stp,          \* cfg_.stp, set by the constructor
    pool,         \* the storage of each node: an Order, or NoOrder when released
    free,         \* the pool's free list, first element on top
    idMap,        \* OrderIdMap: id -> node, or Null
    queue,        \* PriceLevel: side -> slot -> nodes from head to tail
    totalQty,     \* PriceLevel::totalQty_
    occupied,     \* LevelMap's occupancy bits
    best,         \* LevelMap::best_
    seq,          \* OrderBook::seq_
    nextTradeId,  \* OrderBook::nextTradeId_
    pc,           \* where the running call is
    incoming,     \* the arrival being processed, or NoOrder
    remaining,    \* submitEx()'s local of that name
    trades,       \* the caller's TradeBuffer
    victims,      \* the caller's StpVictimBuffer
    cancelled,    \* the order taken out by cancel(), or NoOrder
    result,       \* the OrderResult of the call that has just ended
    todo          \* a snapshot that is being restored

bookVars == <<pool, free, idMap, queue, totalQty, occupied, best>>
counters == <<seq, nextTradeId>>
callVars == <<incoming, remaining, trades, victims, cancelled, result>>
vars == <<stp, bookVars, counters, pc, callVars, todo>>

NoResult == [status |-> "None", filled |-> 0, remaining |-> 0, rested |-> FALSE]
NoSnapshot == [pool |-> [n \in Nodes |-> NoOrder],
               queue |-> [s \in Sides |-> [i \in Slots |-> <<>>]],
               bookSeq |-> 0, nextTradeId |-> 0]

EmptyBook ==
    /\ pool = [n \in Nodes |-> NoOrder]
    /\ free = [n \in Nodes |-> n]
    /\ idMap = [id \in OrderIds |-> Null]
    /\ queue = [s \in Sides |-> [i \in Slots |-> <<>>]]
    /\ totalQty = [s \in Sides |-> [i \in Slots |-> 0]]
    /\ occupied = [s \in Sides |-> {}]
    /\ best = [s \in Sides |-> EmptySentinel(s)]

NoCall ==
    /\ incoming = NoOrder
    /\ remaining = 0
    /\ trades = <<>>
    /\ victims = <<>>
    /\ cancelled = NoOrder
    /\ result = NoResult

Init ==
    /\ stp \in Policies
    /\ EmptyBook
    /\ seq = 0
    /\ nextTradeId = 0
    /\ pc = "idle"
    /\ NoCall
    /\ todo = NoSnapshot
-----------------------------------------------------------------------------
(***************************************************************************)
(* LevelMap.                                                               *)
(***************************************************************************)
HasBest(s) == best[s] # EmptySentinel(s)

Worse(s, i, j) == IF s = "Buy" THEN j < i ELSE j > i

\* nextOccupied(): the closest occupied slot beyond slot i, over the bits occ.
NextOccupied(s, occ, i) ==
    LET beyond == {j \in occ : Worse(s, i, j)}
    IN  IF beyond = {} THEN EmptySentinel(s)
        ELSE SlotPrice(IF s = "Buy" THEN Max(beyond) ELSE Min(beyond))

\* Wrong: the bit is cleared and the best stays behind.
OnLevelEmptiedStale(s, p) ==
    /\ occupied' = [occupied EXCEPT ![s] = @ \ {Index(p)}]
    /\ UNCHANGED best

\* onLevelEmptied(p): the bit is cleared always, the best recovered only if p is the best.
OnLevelEmptied(s, p) ==
    LET occ == occupied[s] \ {Index(p)}
    IN  /\ occupied' = [occupied EXCEPT ![s] = occ]
        /\ best' = [best EXCEPT ![s] = IF p = @ THEN NextOccupied(s, occ, Index(p)) ELSE @]

\* PriceLevel::enqueue(), and a wrong one.
EnqueueFront(q, n) == <<n>> \o q
Enqueue(q, n) == Append(q, n)

\* PriceLevel::unlink(): the neighbours of node n are joined.
Unlink(q, n) ==
    LET k == CHOOSE j \in DOMAIN q : q[j] = n
    IN  SubSeq(q, 1, k - 1) \o SubSeq(q, k + 1, Len(q))

\* OrderIdMap::erase(), and a forgotten one.
EraseIdForgotten(id) == UNCHANGED idMap
EraseId(id) == idMap' = [idMap EXCEPT ![id] = Null]

\* What a fill or an unlink() takes from the level's total, and a forgotten one.
TakeFromTotalForgotten(s, i, qty) == UNCHANGED totalQty
TakeFromTotal(s, i, qty) == totalQty' = [totalQty EXCEPT ![s][i] = @ - qty]

(***************************************************************************)
(* Node n leaves the book: unlink(), onLevelEmptied(p) when that was the   *)
(* level's last order, OrderIdMap::erase(), ObjectPool::release().  What   *)
(* leaves the level's total is all that n still had: by unlink() when n is *)
(* cancelled, by reduceQuantity() when n has just been filled.             *)
(***************************************************************************)
LeaveBook(n, p) ==
    LET o == pool[n]
        s == o.side
        i == Index(o.price)
        rest == Unlink(queue[s][i], n)
    IN  /\ queue' = [queue EXCEPT ![s][i] = rest]
        /\ TakeFromTotal(s, i, o.remaining)
        /\ IF rest = <<>> THEN OnLevelEmptied(s, p) ELSE UNCHANGED <<occupied, best>>
        /\ EraseId(o.id)
        /\ pool' = [pool EXCEPT ![n] = NoOrder]
        /\ free' = <<n>> \o free

\* acquire(), addOrder() and OrderIdMap::insert(), for restResidual() and restoreResting().
EnterBook(o) ==
    LET n == Head(free)
        s == o.side
        i == Index(o.price)
    IN  /\ free' = Tail(free)
        /\ pool' = [pool EXCEPT ![n] = o]
        /\ idMap' = [idMap EXCEPT ![o.id] = n]
        /\ occupied' = [occupied EXCEPT ![s] = IF queue[s][i] = <<>> THEN @ \cup {i} ELSE @]
        /\ queue' = [queue EXCEPT ![s][i] = Enqueue(@, n)]
        /\ totalQty' = [totalQty EXCEPT ![s][i] = @ + o.remaining]
        /\ best' = [best EXCEPT ![s] = IF IsBetter(s, o.price, @) THEN o.price ELSE @]
-----------------------------------------------------------------------------
(***************************************************************************)
(* Walking a side from the best price: the FOK pre-scan and the snapshot   *)
(* both start at best_ and follow nextOccupied().                          *)
(***************************************************************************)
VisitedSlots(s) ==
    IF ~HasBest(s) THEN {}
    ELSE {Index(best[s])} \cup {i \in occupied[s] : Worse(s, Index(best[s]), i)}

\* The price the walk stands on while it visits slot i.
WalkPrice(s, i) == IF i = Index(best[s]) THEN best[s] ELSE SlotPrice(i)

\* Of two orders of one side, the walk meets m first: on a better level, or nearer the head.
MetBefore(m, n) ==
    LET s == pool[m].side
        i == Index(pool[m].price)
        q == queue[s][i]
    IN  \/ Worse(s, i, Index(pool[n].price))
        \/ \E j, k \in DOMAIN q : j < k /\ q[j] = m /\ q[k] = n

\* Wrong: an order at the same price does not cross.
CrossesStrictly(in, p) ==
    \/ in.type = "Market"
    \/ IF in.side = "Buy" THEN in.price > p ELSE in.price < p

\* Wrong: an IOC is taken for an order without a limit.
CrossesIoc(in, p) ==
    \/ in.type \in {"Market", "Ioc"}
    \/ IF in.side = "Buy" THEN in.price >= p ELSE in.price <= p

Crosses(in, p) ==
    \/ in.type = "Market"
    \/ IF in.side = "Buy" THEN in.price >= p ELSE in.price <= p

\* The orders on the opposite levels the pre-scan reaches before the price no longer crosses.
Scanned(in) ==
    LET opp == Opposite(in.side)
    IN  UNION {Range(queue[opp][i]) :
                 i \in {j \in VisitedSlots(opp) : Crosses(in, WalkPrice(opp, j))}}

\* Wrong: the participant's own orders count as liquidity.
AvailableWithOwn(in) == SumFunction([n \in Scanned(in) |-> pool[n].remaining])

(***************************************************************************)
(* availableAgainst(): what a FOK could take.  An own order ends the scan, *)
(* except under CancelPassive, where it is passed over.                    *)
(***************************************************************************)
AvailableAgainst(in) ==
    LET own == {n \in Scanned(in) : pool[n].participant = in.participant}
        counted == {n \in Scanned(in) \ own :
                      stp = "CancelPassive" \/ \A m \in own : ~MetBefore(m, n)}
    IN  SumFunction([n \in counted |-> pool[n].remaining])
-----------------------------------------------------------------------------
(***************************************************************************)
(* submitEx(): validation, in the code's order.                            *)
(***************************************************************************)
RejectReason(in) ==
    IF in.quantity <= 0 THEN "RejectedInvalidQuantity"
    ELSE IF in.type # "Market" /\ ~InRange(in.price) THEN "RejectedPriceOutOfRange"
    ELSE IF idMap[in.id] # Null THEN "RejectedDuplicateId"
    ELSE IF in.type = "Market" /\ ~HasBest(Opposite(in.side)) THEN "RejectedMarketIntoEmptyBook"
    ELSE IF in.type = "Fok" /\ AvailableAgainst(in) < in.quantity THEN "RejectedFokUnfillable"
    ELSE "Ok"

Rejected(in, reason) ==
    /\ pc' = "done"
    /\ incoming' = in
    /\ result' = [NoResult EXCEPT !.status = reason]
    /\ UNCHANGED <<bookVars, counters, remaining, trades, victims, cancelled, todo>>

StartMatching(in) ==
    /\ pc' = "match"
    /\ incoming' = in
    /\ seq' = seq + 1
    /\ remaining' = in.quantity
    /\ UNCHANGED <<bookVars, nextTradeId, trades, victims, cancelled, result, todo>>

SubmitEx(in) ==
    IF RejectReason(in) = "Ok" THEN StartMatching(in) ELSE Rejected(in, RejectReason(in))

Submit(in) == seq < MaxSeq /\ SubmitEx(in)

(***************************************************************************)
(* matchInto().                                                            *)
(***************************************************************************)
Opp == Opposite(incoming.side)

\* Both loop conditions: something is left to fill and the best opposite price crosses.
CanMatch ==
    /\ pc = "match"
    /\ remaining > 0
    /\ HasBest(Opp)
    /\ Crosses(incoming, best[Opp])

BestQueue == queue[Opp][Index(best[Opp])]
RestingLast == BestQueue[Len(BestQueue)]  \* wrong: the latest arrival
Resting == Head(BestQueue)

MinOf(a, b) == IF a < b THEN a ELSE b

Trade ==
    /\ CanMatch
    /\ BestQueue # <<>>
    /\ pool[Resting].participant # incoming.participant
    /\ LET o == pool[Resting]
           qty == MinOf(remaining, o.remaining)
       IN  /\ trades' = Append(trades, [id |-> nextTradeId, aggressorId |-> incoming.id,
                                        passiveId |-> o.id, price |-> o.price,
                                        quantity |-> qty, aggressorSide |-> incoming.side])
           /\ remaining' = remaining - qty
           /\ IF qty = o.remaining
              THEN LeaveBook(Resting, best[Opp])
              ELSE /\ pool' = [pool EXCEPT ![Resting].remaining = @ - qty]
                   /\ TakeFromTotal(Opp, Index(best[Opp]), qty)
                   /\ UNCHANGED <<free, idMap, queue, occupied, best>>
    /\ nextTradeId' = nextTradeId + 1
    /\ UNCHANGED <<seq, pc, incoming, victims, cancelled, result, todo>>

\* Wrong: the fills before the self-trade are not reported.
StpResultUnfilled == [NoResult EXCEPT !.status = "CancelledBySelfTradePrevention",
                                      !.remaining = incoming.quantity]

StpResult == [NoResult EXCEPT !.status = "CancelledBySelfTradePrevention",
                              !.filled = incoming.quantity - remaining,
                              !.remaining = remaining]

\* The head of the queue is the participant's own: self-trade prevention.
SelfTrade ==
    /\ CanMatch
    /\ BestQueue # <<>>
    /\ pool[Resting].participant = incoming.participant
    /\ IF stp = "CancelAggressor"
       THEN UNCHANGED <<bookVars, victims>>
       ELSE LeaveBook(Resting, best[Opp]) /\ victims' = Append(victims, pool[Resting])
    /\ IF stp = "CancelPassive"
       THEN UNCHANGED <<pc, result>>
       ELSE pc' = "done" /\ result' = StpResult
    /\ UNCHANGED <<counters, incoming, remaining, trades, cancelled, todo>>

\* The tracked best points at a level with no orders: the loop body only recovers the best.
SkipEmptyLevel ==
    /\ CanMatch
    /\ BestQueue = <<>>
    /\ OnLevelEmptied(Opp, best[Opp])
    /\ UNCHANGED <<pool, free, idMap, queue, totalQty, counters, pc, callVars, todo>>

EndMatching(status, rested) ==
    /\ pc = "match"
    /\ ~CanMatch
    /\ pc' = "done"
    /\ result' = [status |-> status, filled |-> incoming.quantity - remaining,
                  remaining |-> remaining, rested |-> rested]
    /\ UNCHANGED <<counters, incoming, remaining, trades, victims, cancelled, todo>>

Residual == [id |-> incoming.id, price |-> incoming.price, quantity |-> incoming.quantity,
             remaining |-> remaining, participant |-> incoming.participant,
             seq |-> seq, side |-> incoming.side]

RestResidual ==
    /\ pc = "match" /\ incoming.type = "Limit" /\ remaining > 0 /\ free # <<>>
    /\ EndMatching("Ok", TRUE)
    /\ EnterBook(Residual)

PoolExhausted ==
    /\ pc = "match" /\ incoming.type = "Limit" /\ remaining > 0 /\ free = <<>>
    /\ EndMatching("RejectedPoolExhausted", FALSE)
    /\ UNCHANGED bookVars

DropResidual ==
    /\ pc = "match" /\ incoming.type # "Limit" /\ remaining > 0
    /\ EndMatching(IF incoming.type = "Fok" THEN "RejectedFokUnfillable"
                   ELSE "CancelledResidual", FALSE)
    /\ UNCHANGED bookVars

FullyFilled ==
    /\ remaining = 0
    /\ EndMatching("Ok", FALSE)
    /\ UNCHANGED bookVars
-----------------------------------------------------------------------------
(***************************************************************************)
(* cancel() and replace().  A replace that passes its own validation       *)
(* cancels the old order and goes on with submitEx() of the fresh one.     *)
(***************************************************************************)
RemoveForCancel(id) ==
    /\ LeaveBook(idMap[id], pool[idMap[id]].price)
    /\ cancelled' = pool[idMap[id]]

Cancel(id) ==
    /\ pc' = "done"
    /\ IF idMap[id] = Null
       THEN /\ result' = [NoResult EXCEPT !.status = "RejectedUnknownOrder"]
            /\ UNCHANGED <<bookVars, cancelled>>
       ELSE /\ RemoveForCancel(id)
            /\ LET o == pool[idMap[id]]
               IN  result' = [NoResult EXCEPT !.status = "Ok", !.remaining = o.remaining,
                                              !.filled = o.quantity - o.remaining]
    /\ UNCHANGED <<counters, incoming, remaining, trades, victims, todo>>

ReplaceRejectReason(oldId, fresh) ==
    IF idMap[oldId] = Null THEN "RejectedUnknownOrder"
    ELSE IF fresh.quantity <= 0 THEN "RejectedInvalidQuantity"
    ELSE IF fresh.type # "Market" /\ ~InRange(fresh.price) THEN "RejectedPriceOutOfRange"
    ELSE IF fresh.id # oldId /\ idMap[fresh.id] # Null THEN "RejectedDuplicateId"
    ELSE "Ok"

Replace(oldId, fresh) ==
    /\ seq < MaxSeq
    /\ IF ReplaceRejectReason(oldId, fresh) # "Ok"
       THEN Rejected(fresh, ReplaceRejectReason(oldId, fresh))
       ELSE /\ RemoveForCancel(oldId)
            /\ pc' = "fresh"
            /\ incoming' = fresh
            /\ UNCHANGED <<counters, remaining, trades, victims, result, todo>>

SubmitFresh == pc = "fresh" /\ SubmitEx(incoming)

\* The caller has used the outputs of the call; the next one starts with clear buffers.
Return ==
    /\ pc = "done"
    /\ pc' = "idle"
    /\ incoming' = NoOrder
    /\ remaining' = 0
    /\ trades' = <<>>
    /\ victims' = <<>>
    /\ cancelled' = NoOrder
    /\ result' = NoResult
    /\ UNCHANGED <<bookVars, counters, todo>>
-----------------------------------------------------------------------------
(***************************************************************************)
(* A snapshot of the book, restored into a newly constructed one: the      *)
(* order records SnapshotWriter::write() collects, and the part of         *)
(* RecoveryManager::recover() that puts them back one by one.  The file    *)
(* itself, and the journal tail replayed after it, are module Durability.  *)
(***************************************************************************)
\* Wrong: the bids' levels are collected for both sides.
CollectedTwice(s, i) == IF i \in VisitedSlots("Buy") THEN queue["Buy"][i] ELSE <<>>
Collected(s, i) == IF i \in VisitedSlots(s) THEN queue[s][i] ELSE <<>>

Restart ==
    /\ pc = "idle"
    /\ pc' = "restore"
    /\ todo' = [pool |-> pool, queue |-> [s \in Sides |-> [i \in Slots |-> Collected(s, i)]],
                bookSeq |-> seq, nextTradeId |-> nextTradeId]
    /\ pool' = [n \in Nodes |-> NoOrder]
    /\ free' = [n \in Nodes |-> n]
    /\ idMap' = [id \in OrderIds |-> Null]
    /\ queue' = [s \in Sides |-> [i \in Slots |-> <<>>]]
    /\ totalQty' = [s \in Sides |-> [i \in Slots |-> 0]]
    /\ occupied' = [s \in Sides |-> {}]
    /\ best' = [s \in Sides |-> EmptySentinel(s)]
    /\ seq' = 0
    /\ nextTradeId' = 0
    /\ UNCHANGED callVars

\* The order records are in the order of the walk: bids, then asks, each from the best level.
TodoSlots(s) == {i \in Slots : todo.queue[s][i] # <<>>}
TodoSide == IF TodoSlots("Buy") # {} THEN "Buy" ELSE "Sell"
TodoSlot == IF TodoSide = "Buy" THEN Max(TodoSlots("Buy")) ELSE Min(TodoSlots("Sell"))
TodoOrder == todo.pool[Head(todo.queue[TodoSide][TodoSlot])]
TodoEmpty == \A s \in Sides : TodoSlots(s) = {}

RestoreResting ==
    /\ pc = "restore"
    /\ ~TodoEmpty
    /\ free # <<>> /\ idMap[TodoOrder.id] = Null
    /\ EnterBook(TodoOrder)
    /\ todo' = [todo EXCEPT !.queue[TodoSide][TodoSlot] = Tail(@)]
    /\ UNCHANGED <<counters, pc, callVars>>

RestoreCounters ==
    /\ pc = "restore"
    /\ TodoEmpty
    /\ pc' = "idle"
    /\ seq' = todo.bookSeq
    /\ nextTradeId' = todo.nextTradeId
    /\ todo' = NoSnapshot
    /\ UNCHANGED <<bookVars, callVars>>
-----------------------------------------------------------------------------
Match ==
    \/ Trade
    \/ SelfTrade
    \/ SkipEmptyLevel
    \/ RestResidual
    \/ PoolExhausted
    \/ DropResidual
    \/ FullyFilled

Call ==
    /\ pc = "idle"
    /\ \/ \E in \in Arrivals : Submit(in)
       \/ \E id \in OrderIds : Cancel(id)
       \/ \E id \in OrderIds, in \in Arrivals : Replace(id, in)

Step ==
    \/ Call
    \/ SubmitFresh
    \/ Match
    \/ Return
    \/ Restart
    \/ RestoreResting
    \/ RestoreCounters

Next == Step /\ UNCHANGED stp

Spec == Init /\ [][Next]_vars
-----------------------------------------------------------------------------
(***************************************************************************)
(* Properties.                                                             *)
(***************************************************************************)
LiveNodes == {n \in Nodes : pool[n] # NoOrder}
TodoNodes == {n \in Nodes : \E s \in Sides, i \in Slots : n \in Range(todo.queue[s][i])}

SubmitStatus == {"None", "Ok", "RejectedInvalidQuantity", "RejectedPriceOutOfRange",
                 "RejectedDuplicateId", "RejectedUnknownOrder", "RejectedMarketIntoEmptyBook",
                 "RejectedFokUnfillable", "RejectedPoolExhausted", "CancelledResidual",
                 "CancelledBySelfTradePrevention"}
Results == [status : SubmitStatus, filled : Nat, remaining : Nat, rested : BOOLEAN]

\* Every variable has the type of the member or local it stands for.
TypeOK ==
    /\ stp \in Policies
    /\ pool \in [Nodes -> Orders \cup {NoOrder}]
    /\ free \in Seq(Nodes)
    /\ idMap \in [OrderIds -> Nodes \cup {Null}]
    /\ queue \in [Sides -> [Slots -> Seq(Nodes)]]
    /\ totalQty \in [Sides -> [Slots -> Int]]
    /\ occupied \in [Sides -> SUBSET Slots]
    /\ best \in [Sides -> Int]
    /\ \A s \in Sides : best[s] = EmptySentinel(s) \/ InRange(best[s])
    /\ seq \in Nat /\ nextTradeId \in Nat
    /\ pc \in {"idle", "match", "fresh", "done", "restore"}
    /\ incoming \in NewOrders \cup {NoOrder}
    /\ pc \in {"match", "fresh"} => incoming \in NewOrders
    /\ remaining \in Nat
    /\ result \in Results
    /\ cancelled \in Orders \cup {NoOrder}
    /\ victims \in Seq(Orders)
    /\ todo \in [pool : [Nodes -> Orders \cup {NoOrder}], queue : [Sides -> [Slots -> Seq(Nodes)]],
                bookSeq : Nat, nextTradeId : Nat]

\* No node is on the free list twice, and it is there exactly when it holds no order: the
\* pool neither leaks a node nor hands one out twice over acquire() and release().
PoolExact ==
    /\ IsInjective(free)
    /\ \A n \in Nodes : n \in Range(free) <=> pool[n] = NoOrder

\* An id leads to a node exactly when that node holds the order with that id: cancel() and the
\* duplicate check see the orders the matching loop sees.
IdMapExact ==
    \A id \in OrderIds, n \in Nodes :
        idMap[id] = n <=> (pool[n] # NoOrder /\ pool[n].id = id)

\* A live order is in one queue, once, and that queue is its own side's at its price's slot.
QueuesExact ==
    /\ \A s \in Sides, i \in Slots :
        /\ IsInjective(queue[s][i])
        /\ \A n \in Range(queue[s][i]) :
            pool[n] # NoOrder /\ pool[n].side = s /\ Index(pool[n].price) = i
    /\ \A n \in LiveNodes : n \in Range(queue[pool[n].side][Index(pool[n].price)])

\* The id map, the queues and the pool describe the same set of orders, in every intermediate
\* state of every call (invariants I5 and I8 of the repository's checker).
IndexConsistent == PoolExact /\ IdMapExact /\ QueuesExact

\* A level advertises exactly what its orders still have, and its occupancy bit is set exactly
\* when it has an order: the FOK pre-scan and nextOccupied() rely on both (I6 and I9).
LevelAggregates ==
    \A s \in Sides, i \in Slots :
        /\ totalQty[s][i] = SumFunction([n \in Range(queue[s][i]) |-> pool[n].remaining])
        /\ i \in occupied[s] <=> queue[s][i] # <<>>

\* The tracked best price is the best price of any resting order of the side, or the empty
\* sentinel, in every intermediate state (I7).
BestIsReal ==
    \A s \in Sides :
        LET prices == {pool[n].price : n \in {m \in LiveNodes : pool[m].side = s}}
        IN  best[s] = IF prices = {} THEN EmptySentinel(s)
                      ELSE IF s = "Buy" THEN Max(prices) ELSE Min(prices)

\* A queue holds its orders in order of arrival, also after partial fills, cancels from the
\* middle, replaces that reuse an id, and a restart from a snapshot (I4).
TimePriority ==
    /\ \A s \in Sides, i \in Slots : \A j, k \in DOMAIN queue[s][i] :
        j < k => pool[queue[s][i][j]].seq < pool[queue[s][i][k]].seq
    /\ \A n \in LiveNodes : pool[n].seq <= (IF pc = "restore" THEN todo.bookSeq ELSE seq)

\* When no call is running the book is not crossed: no resting bid reaches a resting ask (I3).
NotCrossed ==
    pc \in {"idle", "done"} =>
        \A n, m \in LiveNodes :
            pool[n].side = "Buy" /\ pool[m].side = "Sell" => pool[n].price < pool[m].price

\* No fill is at a price worse than the arrival's limit.
LimitRespected ==
    incoming # NoOrder /\ incoming.type # "Market" =>
        \A t \in Range(trades) :
            IF incoming.side = "Buy" THEN t.price <= incoming.price ELSE t.price >= incoming.price

\* A FOK is filled completely or leaves no trade at all: the pre-scan of availableAgainst()
\* agrees with what matchInto() does afterwards, under every self-trade policy.
FokAllOrNothing ==
    pc = "done" /\ incoming # NoOrder /\ incoming.type = "Fok" =>
        IF trades = <<>> THEN result.status # "Ok" /\ victims = <<>>
        ELSE result.status = "Ok" /\ result.filled = incoming.quantity

\* What the result reports as filled is what the trades add up to, whatever the outcome, and a
\* submission's quantity is accounted for: filled, or remaining (I1).
ResultConserves ==
    pc = "done" /\ incoming # NoOrder =>
        /\ result.filled = SumFunction([k \in DOMAIN trades |-> trades[k].quantity])
        /\ result.filled + result.remaining \in {0, incoming.quantity}
        /\ trades # <<>> => result.filled + result.remaining = incoming.quantity

\* Restoring a snapshot into a book of the same configuration never runs out of pool nodes and
\* never meets an id twice, so recover() never stops half way.
RestoreSucceeds ==
    pc = "restore" /\ ~TodoEmpty => free # <<>> /\ idMap[TodoOrder.id] = Null

\* replace() on rejection: "a rejected replace must leave the book completely untouched", so the
\* order to be replaced is still there.
RejectedReplaceUntouched ==
    pc = "done" /\ incoming # NoOrder /\ trades = <<>>
    /\ result.status \in {"RejectedInvalidQuantity", "RejectedPriceOutOfRange",
                          "RejectedDuplicateId", "RejectedUnknownOrder",
                          "RejectedMarketIntoEmptyBook", "RejectedFokUnfillable",
                          "RejectedPoolExhausted"}
        => cancelled = NoOrder
=============================================================================
