-------------------------- MODULE OrderBookAmounts --------------------------
(***************************************************************************)
(* The quantities of the order book: a level's total is what its orders    *)
(* have left (LevelAggregates), a result accounts for every share of its   *)
(* order (ResultConserves), and a fill-or-kill order fills completely or   *)
(* not at all (FokAllOrNothing).                                           *)
(*                                                                         *)
(* Each is a sum over a set of orders or trades that changes in one place  *)
(* per step.                                                               *)
(***************************************************************************)
EXTENDS OrderBookProofs
-----------------------------------------------------------------------------
(***************************************************************************)
(* The totals of the levels.                                               *)
(***************************************************************************)
\* What each node still has to fill; a free node has nothing.
Amounts(p) == [n \in Nodes |-> IF p[n] = NoOrder THEN 0 ELSE p[n].remaining]

\* The first half of LevelAggregates: each level's total is the sum over its queue.
TotalsIn(p, q, tot) ==
    \A s \in Sides, i \in Slots : tot[s][i] = SumFunctionOnSet(Amounts(p), Range(q[s][i]))

\* Amounts are numbers, and queues are finite.
LEMMA AmountFacts ==
    ASSUME NEW p \in [Nodes -> Orders \cup {NoOrder}]
    PROVE  /\ \A n \in Nodes : Amounts(p)[n] \in Nat
           /\ \A n \in Nodes : p[n] # NoOrder => Amounts(p)[n] = p[n].remaining /\ p[n].remaining \in Nat
           /\ \A n \in Nodes : p[n] = NoOrder => Amounts(p)[n] = 0
<1>1. \A n \in Nodes : p[n] # NoOrder => p[n].remaining \in Nat
    BY DEF Orders
<1>2. \A n \in Nodes : Amounts(p)[n] = IF p[n] = NoOrder THEN 0 ELSE p[n].remaining
    BY DEF Amounts
<1> QED BY <1>1, <1>2

\* Every set of pool nodes is finite.
LEMMA NodesFinite ==
    ASSUME NEW S \in SUBSET Nodes
    PROVE  IsFiniteSet(S)
<1>1. MaxOrders \in Int /\ 1 \in Int
    BY ConfigAssumption
<1>2. IsFiniteSet(Nodes)
    BY <1>1, FS_Interval DEF Nodes
<1> QED BY <1>2, FS_Subset

\* Taking an order out of its queue and what it had off the level's total keeps the totals right.
LEMMA LeaveTotals ==
    ASSUME BookInv, TotalsIn(pool, queue, totalQty), NEW n \in LiveNodes, NEW x \in Int,
           LeaveBook(n, x), BookInv'
    PROVE  TotalsIn(pool, queue, totalQty)'
<1> DEFINE s == pool[n].side
           i == Index(pool[n].price)
           q == queue[s][i]
           r == Unlink(q, n)
           A == Amounts(pool)
           B == Amounts(pool')
<1>1. /\ n \in Nodes /\ pool[n] # NoOrder /\ s \in Sides /\ i \in Slots /\ n \in Range(q)
      /\ pool[n].remaining \in Nat
    BY LiveNode
<1>2. q \in Seq(Nodes) /\ IsInjective(q)
    BY <1>1, QueuedAt, Zenon
<1>3. /\ queue' = [queue EXCEPT ![s][i] = r]
      /\ pool' = [pool EXCEPT ![n] = NoOrder]
      /\ totalQty' = [totalQty EXCEPT ![s][i] = @ - pool[n].remaining]
    BY Zenon DEF LeaveBook, TakeFromTotal
<1>4. Range(r) = Range(q) \ {n}
    <2>1. n \in Range(q)
        BY <1>1
    <2> HIDE DEF q
    <2> QED BY <2>1, <1>2, UnlinkFacts
<1>5. \A t \in Sides, l \in Slots :
         queue'[t][l] = IF t = s /\ l = i THEN r ELSE queue[t][l]
    BY <1>1, <1>3, Zenon DEF BookInv, BookTypeOK
<1>6. \A t \in Sides, l \in Slots :
         totalQty'[t][l] = IF t = s /\ l = i THEN totalQty[t][l] - pool[n].remaining
                           ELSE totalQty[t][l]
    BY <1>1, <1>3, Zenon DEF BookInv, BookTypeOK
<1>7. \A m \in Nodes : pool'[m] = IF m = n THEN NoOrder ELSE pool[m]
    BY <1>3, Zenon DEF BookInv, BookTypeOK
<1>8. /\ pool \in [Nodes -> Orders \cup {NoOrder}]
      /\ pool' \in [Nodes -> Orders \cup {NoOrder}]
    BY Zenon DEF BookInv, BookTypeOK
<1> HIDE DEF s, i, q, r
<1>9. /\ \A m \in Nodes : A[m] \in Nat /\ B[m] \in Nat
      /\ A[n] = pool[n].remaining
      /\ \A m \in Nodes : m # n => B[m] = A[m]
    <2>1. \A m \in Nodes : B[m] = IF pool'[m] = NoOrder THEN 0 ELSE pool'[m].remaining
        BY DEF Amounts
    <2>2. \A m \in Nodes : A[m] = IF pool[m] = NoOrder THEN 0 ELSE pool[m].remaining
        BY DEF Amounts
    <2>3. \A m \in Nodes : A[m] \in Nat /\ B[m] \in Nat
        BY <1>8, AmountFacts, Zenon
    <2> HIDE DEF A, B
    <2> QED BY <1>1, <1>7, <2>1, <2>2, <2>3
<1> SUFFICES ASSUME NEW t \in Sides, NEW l \in Slots
             PROVE  totalQty'[t][l] = SumFunctionOnSet(B, Range(queue'[t][l]))
    BY Zenon DEF TotalsIn
<1> DEFINE R == Range(queue[t][l])
<1> HIDE DEF A, B
<1>10. R \in SUBSET Nodes /\ IsFiniteSet(R)
    <2>1. \A m \in R : m \in Nodes
        BY QueuedAt, Zenon
    <2> HIDE DEF R
    <2> QED BY <2>1, NodesFinite
<1>11. totalQty[t][l] = SumFunctionOnSet(A, R)
    BY Zenon DEF TotalsIn, A
<1>12. CASE t = s /\ l = i
    <2>1. Range(queue'[t][l]) = R \ {n} /\ n \in R
        BY <1>1, <1>4, <1>5, <1>12 DEF q
    <2>2. totalQty'[t][l] = SumFunctionOnSet(A, R) - A[n]
        BY <1>6, <1>9, <1>11, <1>12
    <2> DEFINE Q == R \ {n}
    <2>3. IsFiniteSet(Q) /\ \A m \in Q : B[m] = A[m] /\ A[m] \in Int
        <3>1. Q \in SUBSET R /\ \A m \in Q : m \in Nodes /\ m # n
            BY <1>10, Zenon
        <3> HIDE DEF Q, R
        <3>2. IsFiniteSet(Q)
            BY <1>10, <3>1, FS_Subset, Zenon
        <3>3. \A z \in Nat : z \in Int
            OBVIOUS
        <3> QED BY <1>9, <3>1, <3>2, <3>3, Zenon
    <2>4. SumFunctionOnSet(A, R) = A[n] + SumFunctionOnSet(A, Q)
        <3>1. \A m \in R : A[m] \in Int
            BY <1>9, <1>10
        <3> HIDE DEF R
        <3> QED BY <1>10, <2>1, <3>1, SumTakeOut
    <2> HIDE DEF Q
    <2>5. SumFunctionOnSet(A, Q) \in Int
        BY <2>3, SumType
    <2>6. SumFunctionOnSet(B, Q) = SumFunctionOnSet(A, Q)
        BY <2>3, SumSame
    <2>7. A[n] \in Int
        BY <1>1, <1>9
    <2>8. totalQty'[t][l] = SumFunctionOnSet(B, Q)
        BY <2>2, <2>4, <2>5, <2>6, <2>7
    <2> QED BY <2>1, <2>8 DEF Q
<1>13. CASE ~(t = s /\ l = i)
    <2>1. Range(queue'[t][l]) = R /\ totalQty'[t][l] = totalQty[t][l]
        BY <1>5, <1>6, <1>13
    <2>2. n \notin R
        BY <1>13, QueuedAt, Zenon DEF s, i
    <2>3. \A m \in R : A[m] = B[m]
        BY <1>9, <1>10, <2>2
    <2> HIDE DEF R
    <2>4. SumFunctionOnSet(A, R) = SumFunctionOnSet(B, R)
        BY <1>10, <2>3, SumSame
    <2> QED BY <1>11, <2>1, <2>4
<1> QED BY <1>12, <1>13

\* An order that comes to rest adds what it has left to its level's total.
LEMMA EnterTotals ==
    ASSUME BookInv, TotalsIn(pool, queue, totalQty), NEW o \in Orders, EnterBook(o),
           Head(free) \in Nodes, pool[Head(free)] = NoOrder, BookInv'
    PROVE  TotalsIn(pool, queue, totalQty)'
<1> DEFINE n == Head(free)
           s == o.side
           i == Index(o.price)
           q == queue[s][i]
           A == Amounts(pool)
           B == Amounts(pool')
<1>1. /\ s \in Sides /\ o.price \in Int /\ InRange(o.price) /\ o # NoOrder
      /\ o.remaining \in Nat
    BY ConfigAssumption, ArrivalsAssumption DEF Orders, InRange
<1>2. i \in Slots
    BY <1>1, IndexIsSlot
<1>3. /\ pool' = [pool EXCEPT ![n] = o]
      /\ queue' = [queue EXCEPT ![s][i] = Append(@, n)]
      /\ totalQty' = [totalQty EXCEPT ![s][i] = @ + o.remaining]
    BY Zenon DEF EnterBook, Enqueue
<1>4. q \in Seq(Nodes)
    BY <1>1, <1>2, QueuedAt, Zenon
<1>5. \A t \in Sides, l \in Slots :
         queue'[t][l] = IF t = s /\ l = i THEN Append(q, n) ELSE queue[t][l]
    BY <1>1, <1>2, <1>3, Zenon DEF BookInv, BookTypeOK
<1>6. \A t \in Sides, l \in Slots :
         totalQty'[t][l] = IF t = s /\ l = i THEN totalQty[t][l] + o.remaining
                           ELSE totalQty[t][l]
    BY <1>1, <1>2, <1>3, Zenon DEF BookInv, BookTypeOK
<1>7. \A m \in Nodes : pool'[m] = IF m = n THEN o ELSE pool[m]
    BY <1>3, Zenon DEF BookInv, BookTypeOK
<1>8. /\ pool \in [Nodes -> Orders \cup {NoOrder}]
      /\ pool' \in [Nodes -> Orders \cup {NoOrder}]
    BY Zenon DEF BookInv, BookTypeOK
<1>9. n \in Nodes /\ pool[n] = NoOrder
    OBVIOUS
<1>10. Range(Append(q, n)) = Range(q) \cup {n}
    <2>1. \A t \in Sides, l \in Slots :
             IsInjective(queue[t][l]) /\ \A m \in Range(queue[t][l]) : pool[m] # NoOrder
        BY QueuedAt, Zenon
    <2>2. IsInjective(q) /\ \A m \in Range(q) : pool[m] # NoOrder
        BY <1>1, <1>2, <2>1, Zenon
    <2> HIDE DEF q, n
    <2>3. n \notin Range(q)
        BY <1>9, <2>2
    <2> QED BY <1>4, <1>9, <2>2, <2>3, AppendFacts
<1> HIDE DEF n, s, i, q
<1>11. /\ \A m \in Nodes : A[m] \in Nat /\ B[m] \in Nat
       /\ B[n] = o.remaining
       /\ \A m \in Nodes : m # n => B[m] = A[m]
    <2>1. \A m \in Nodes : B[m] = IF pool'[m] = NoOrder THEN 0 ELSE pool'[m].remaining
        BY DEF Amounts
    <2>2. \A m \in Nodes : A[m] = IF pool[m] = NoOrder THEN 0 ELSE pool[m].remaining
        BY DEF Amounts
    <2>3. \A m \in Nodes : A[m] \in Nat /\ B[m] \in Nat
        BY <1>8, AmountFacts, Zenon
    <2> HIDE DEF A, B
    <2> QED BY <1>1, <1>7, <1>9, <2>1, <2>2, <2>3
<1> SUFFICES ASSUME NEW t \in Sides, NEW l \in Slots
             PROVE  totalQty'[t][l] = SumFunctionOnSet(B, Range(queue'[t][l]))
    BY Zenon DEF TotalsIn
<1> DEFINE R == Range(queue[t][l])
<1> HIDE DEF A, B
<1>12. /\ R \in SUBSET Nodes /\ IsFiniteSet(R) /\ n \notin R
    <2>1. \A m \in R : m \in Nodes /\ pool[m] # NoOrder
        BY QueuedAt, Zenon
    <2> HIDE DEF R
    <2> QED BY <1>9, <2>1, NodesFinite
<1>13. totalQty[t][l] = SumFunctionOnSet(A, R)
    BY Zenon DEF TotalsIn, A
<1>14. SumFunctionOnSet(B, R) = SumFunctionOnSet(A, R) /\ SumFunctionOnSet(B, R) \in Int
    <2>1. \A m \in R : A[m] = B[m] /\ B[m] \in Int
        BY <1>11, <1>12
    <2> HIDE DEF R
    <2> QED BY <1>12, <2>1, SumSame, SumType
<1>15. CASE t = s /\ l = i
    <2>1. Range(queue'[t][l]) = R \cup {n}
        BY <1>5, <1>10, <1>15 DEF q
    <2>2. totalQty'[t][l] = SumFunctionOnSet(A, R) + B[n]
        BY <1>6, <1>11, <1>13, <1>15
    <2> HIDE DEF R
    <2>3. SumFunctionOnSet(B, R \cup {n}) = SumFunctionOnSet(B, R) + B[n]
        <3>1. \A m \in R \cup {n} : B[m] \in Int
            BY <1>9, <1>11, <1>12
        <3> QED BY <1>12, <3>1, SumPutIn, Zenon
    <2> QED BY <1>14, <2>1, <2>2, <2>3
<1>16. CASE ~(t = s /\ l = i)
    <2>1. Range(queue'[t][l]) = R /\ totalQty'[t][l] = totalQty[t][l]
        BY <1>5, <1>6, <1>16
    <2> HIDE DEF R
    <2> QED BY <1>13, <1>14, <2>1
<1> QED BY <1>15, <1>16

\* A fill takes as much off the level's total as off the resting order.
LEMMA FillTotals ==
    ASSUME BookInv, TotalsIn(pool, queue, totalQty), NEW n \in LiveNodes, NEW k \in Nat,
           k < pool[n].remaining, pool' = [pool EXCEPT ![n].remaining = @ - k],
           TakeFromTotal(pool[n].side, Index(pool[n].price), k), UNCHANGED queue, BookInv'
    PROVE  TotalsIn(pool, queue, totalQty)'
<1> DEFINE s == pool[n].side
           i == Index(pool[n].price)
           A == Amounts(pool)
           B == Amounts(pool')
<1>1. /\ n \in Nodes /\ pool[n] \in Orders /\ pool[n] # NoOrder /\ s \in Sides /\ i \in Slots
      /\ n \in Range(queue[s][i]) /\ pool[n].remaining \in Nat
    BY LiveNode
<1>2. totalQty' = [totalQty EXCEPT ![s][i] = @ - k]
    BY Zenon DEF TakeFromTotal
<1>3. \A t \in Sides, l \in Slots :
         totalQty'[t][l] = IF t = s /\ l = i THEN totalQty[t][l] - k ELSE totalQty[t][l]
    BY <1>1, <1>2, Zenon DEF BookInv, BookTypeOK
<1>4. /\ pool \in [Nodes -> Orders \cup {NoOrder}]
      /\ pool' \in [Nodes -> Orders \cup {NoOrder}]
    BY Zenon DEF BookInv, BookTypeOK
<1>5. /\ \A m \in Nodes : m # n => pool'[m] = pool[m]
      /\ pool'[n] = [pool[n] EXCEPT !.remaining = @ - k]
    BY <1>1, <1>4, Zenon
<1>6. pool'[n] # NoOrder /\ pool'[n].remaining = pool[n].remaining - k
    <2>1. [pool[n] EXCEPT !.remaining = @ - k] \in Orders
        BY <1>1 DEF Orders
    <2>2. [pool[n] EXCEPT !.remaining = @ - k].remaining = pool[n].remaining - k
        BY <1>1 DEF Orders
    <2> QED BY <1>5, <2>1, <2>2, ArrivalsAssumption, Zenon
<1> HIDE DEF s, i
<1>7. /\ \A m \in Nodes : A[m] \in Nat /\ B[m] \in Nat
      /\ B[n] = A[n] - k
      /\ \A m \in Nodes : m # n => B[m] = A[m]
    <2>1. \A m \in Nodes : B[m] = IF pool'[m] = NoOrder THEN 0 ELSE pool'[m].remaining
        BY DEF Amounts
    <2>2. \A m \in Nodes : A[m] = IF pool[m] = NoOrder THEN 0 ELSE pool[m].remaining
        BY DEF Amounts
    <2>3. \A m \in Nodes : A[m] \in Nat /\ B[m] \in Nat
        BY <1>4, AmountFacts, Zenon
    <2>4. B[n] = A[n] - k
        <3> HIDE DEF A, B
        <3> QED BY <1>1, <1>6, <2>1, <2>2
    <2>5. \A m \in Nodes : m # n => B[m] = A[m]
        <3> HIDE DEF A, B
        <3> QED BY <1>5, <2>1, <2>2
    <2> QED BY <2>3, <2>4, <2>5, Zenon
<1> SUFFICES ASSUME NEW t \in Sides, NEW l \in Slots
             PROVE  totalQty'[t][l] = SumFunctionOnSet(B, Range(queue[t][l]))
    BY Zenon DEF TotalsIn
<1> DEFINE R == Range(queue[t][l])
<1> HIDE DEF A, B
<1>8. R \in SUBSET Nodes /\ IsFiniteSet(R)
    <2>1. \A m \in R : m \in Nodes
        BY QueuedAt, Zenon
    <2> HIDE DEF R
    <2> QED BY <2>1, NodesFinite
<1>9. totalQty[t][l] = SumFunctionOnSet(A, R)
    BY Zenon DEF TotalsIn, A
<1>10. SumFunctionOnSet(A, R) \in Int
    <2>1. \A m \in R : A[m] \in Int
        BY <1>7, <1>8
    <2> HIDE DEF R
    <2> QED BY <1>8, <2>1, SumType
<1>11. CASE t = s /\ l = i
    <2>1. n \in R
        BY <1>1, <1>11
    <2>2. \A m \in R : A[m] \in Int /\ B[m] \in Int
        BY <1>7, <1>8
    <2>3. \A m \in R : m # n => B[m] = A[m]
        BY <1>7, <1>8
    <2> HIDE DEF R
    <2>4. SumFunctionOnSet(B, R) = SumFunctionOnSet(A, R) - A[n] + B[n]
        BY <1>8, <2>1, <2>2, <2>3, SumChange
    <2>5. A[n] \in Int /\ B[n] = A[n] - k
        BY <1>1, <1>7
    <2>6. totalQty'[t][l] = SumFunctionOnSet(B, R)
        BY <1>3, <1>9, <1>10, <1>11, <2>4, <2>5
    <2> QED BY <2>6 DEF R
<1>12. CASE ~(t = s /\ l = i)
    <2>1. totalQty'[t][l] = totalQty[t][l]
        BY <1>3, <1>12
    <2>2. n \notin R
        BY <1>12, QueuedAt, Zenon DEF s, i
    <2>3. \A m \in R : A[m] = B[m]
        BY <1>7, <1>8, <2>2
    <2> HIDE DEF R
    <2>4. SumFunctionOnSet(A, R) = SumFunctionOnSet(B, R)
        BY <1>8, <2>3, SumSame
    <2>5. totalQty'[t][l] = SumFunctionOnSet(B, R)
        BY <1>9, <2>1, <2>4
    <2> QED BY <2>5 DEF R
<1> QED BY <1>11, <1>12

\* What LevelAggregates says, in the form that is proved.
Aggregates == TotalsIn(pool, queue, totalQty) /\ BitsIn(queue, occupied)

\* A step that leaves orders and levels alone leaves the aggregates exact.
LEMMA AggregatesStutter ==
    ASSUME Aggregates, UNCHANGED <<pool, queue, totalQty, occupied>>
    PROVE  Aggregates'
<1>1. pool' = pool /\ queue' = queue /\ totalQty' = totalQty /\ occupied' = occupied
    BY Zenon
<1> QED BY <1>1, Zenon DEF Aggregates

\* The totals are the sums the property speaks of.
LEMMA LevelAggregatesFrom ==
    ASSUME BookInv, Aggregates
    PROVE  LevelAggregates
<1> SUFFICES ASSUME NEW s \in Sides, NEW i \in Slots
             PROVE  totalQty[s][i] = SumFunction([n \in Range(queue[s][i]) |-> pool[n].remaining])
    BY Zenon DEF Aggregates, BitsIn, LevelAggregates
<1> DEFINE R == Range(queue[s][i])
           f == [n \in R |-> pool[n].remaining]
           A == Amounts(pool)
<1>1. totalQty[s][i] = SumFunctionOnSet(A, R)
    BY Zenon DEF Aggregates, TotalsIn
<1>2. \A n \in R : n \in Nodes /\ pool[n] # NoOrder
    BY QueuedAt, Zenon
<1> HIDE DEF R
<1>3. IsFiniteSet(R)
    BY <1>2, NodesFinite
<1>4. DOMAIN f = R /\ \A n \in R : f[n] = A[n]
    BY <1>2 DEF Amounts
<1>5. SumFunction(f) = SumFunctionOnSet(f, R)
    BY <1>4, Zenon DEF SumFunction
<1> HIDE DEF f, A
<1>6. SumFunctionOnSet(f, R) = SumFunctionOnSet(A, R)
    BY <1>3, <1>4, SumSame
<1> QED BY <1>1, <1>5, <1>6 DEF f, R

\* LeaveBook as the calls use it: with a price of the leaver's level.
LEMMA LeaveAggregates ==
    ASSUME BookInv, Aggregates, NEW n \in LiveNodes, NEW p \in Int, InRange(p),
           Index(p) = Index(pool[n].price), LeaveBook(n, p)
    PROVE  Aggregates'
<1>1. BookInv'
    BY LeaveBookInv, Zenon
<1> QED BY <1>1, LeaveTotals, LeaveBits, Zenon DEF Aggregates

\* EnterBook keeps the aggregates exact.
LEMMA EnterAggregates ==
    ASSUME BookInv, Aggregates, NEW o \in Orders, EnterBook(o), free # <<>>, BookInv'
    PROVE  Aggregates'
<1>1. Head(free) \in Nodes /\ pool[Head(free)] = NoOrder
    BY FreeNode, Zenon
<1> QED BY <1>1, EnterTotals, EnterBits, Zenon DEF Aggregates

\* One trade takes as much from the level as from the resting order.
LEMMA TradeAggregates ==
    ASSUME IInv, IInv', Aggregates, Trade
    PROVE  Aggregates'
<1> DEFINE o == pool[Resting]
           qty == MinOf(remaining, o.remaining)
<1>1. CanMatch /\ BestQueue # <<>>
    BY Zenon DEF Trade
<1>2. BookInv /\ BookInv'
    BY IInvParts, IInvPartsPrime
<1>3. /\ pc = "match" /\ Resting \in LiveNodes /\ o.side = Opp
      /\ best[Opp] \in Int /\ InRange(best[Opp]) /\ Index(o.price) = Index(best[Opp])
    BY <1>1, CanMatchFacts, Zenon
<1>4. o.remaining \in Nat \ {0} /\ remaining \in Nat
    BY <1>2, <1>3, LiveNode, MatchFacts, Zenon
<1>5. qty \in Nat /\ qty <= o.remaining
    BY <1>4 DEF MinOf
<1>6. IF qty = o.remaining
      THEN LeaveBook(Resting, best[Opp])
      ELSE /\ pool' = [pool EXCEPT ![Resting].remaining = @ - qty]
           /\ TakeFromTotal(Opp, Index(best[Opp]), qty)
           /\ UNCHANGED <<free, idMap, queue, occupied, best>>
    BY Zenon DEF Trade
<1> HIDE DEF qty
<1>7. CASE qty = o.remaining
    BY <1>2, <1>3, <1>6, <1>7, LeaveAggregates, Zenon
<1>8. CASE qty # o.remaining
    <2>1. /\ qty < o.remaining
          /\ pool' = [pool EXCEPT ![Resting].remaining = @ - qty]
          /\ TakeFromTotal(o.side, Index(o.price), qty)
          /\ queue' = queue /\ occupied' = occupied
        BY <1>3, <1>4, <1>5, <1>6, <1>8
    <2>2. TotalsIn(pool, queue, totalQty)'
        BY <1>2, <1>3, <1>5, <2>1, FillTotals, Zenon DEF Aggregates
    <2>3. BitsIn(queue, occupied)'
        BY <2>1, Zenon DEF Aggregates
    <2> QED BY <2>2, <2>3, Zenon DEF Aggregates
<1> QED BY <1>7, <1>8

\* The other steps of matchInto().
LEMMA MatchAggregates ==
    ASSUME IInv, IInv', Aggregates, Match
    PROVE  Aggregates'
<1>1. BookInv /\ BookInv'
    BY IInvParts, IInvPartsPrime
<1>2. CASE SelfTrade
    <2>1. CanMatch /\ BestQueue # <<>>
        BY <1>2, Zenon DEF SelfTrade
    <2>2. /\ Resting \in LiveNodes /\ best[Opp] \in Int /\ InRange(best[Opp])
          /\ Index(best[Opp]) = Index(pool[Resting].price)
        BY <2>1, CanMatchFacts, Zenon
    <2>3. UNCHANGED bookVars \/ LeaveBook(Resting, best[Opp])
        BY <1>2, Zenon DEF SelfTrade
    <2>4. CASE UNCHANGED bookVars
        BY <2>4, AggregatesStutter, Zenon DEF bookVars
    <2> QED BY <1>1, <2>2, <2>3, <2>4, LeaveAggregates, Zenon
<1>3. CASE SkipEmptyLevel
    <2> DEFINE i == Index(best[Opp])
    <2>1. /\ queue[Opp][i] = <<>> /\ CanMatch /\ OnLevelEmptied(Opp, best[Opp])
          /\ pool' = pool /\ queue' = queue /\ totalQty' = totalQty
        BY <1>3, Zenon DEF SkipEmptyLevel, BestQueue
    <2>2. Opp \in Sides /\ i \in Slots
        BY <2>1, CanMatchFacts, MatchFacts, Zenon
    <2>3. occupied \in [Sides -> SUBSET Slots]
        BY <1>1, Zenon DEF BookInv, BookTypeOK
    <2>4. occupied' = [occupied EXCEPT ![Opp] = @ \ {i}]
        BY <2>1, <2>2, <2>3 DEF OnLevelEmptied
    <2>5. i \notin occupied[Opp]
        BY <2>1, <2>2, Zenon DEF Aggregates, BitsIn
    <2> HIDE DEF i
    <2>6. occupied' = occupied
        BY <2>2, <2>3, <2>4, <2>5
    <2> QED BY <2>1, <2>6, AggregatesStutter, Zenon
<1>4. CASE RestResidual
    <2>1. Residual \in Orders /\ EnterBook(Residual) /\ free # <<>>
        BY <1>4, ResidualType, Zenon DEF RestResidual
    <2> QED BY <1>1, <2>1, EnterAggregates, Zenon
<1>5. CASE PoolExhausted \/ DropResidual \/ FullyFilled
    BY <1>5, AggregatesStutter, Zenon DEF PoolExhausted, DropResidual, FullyFilled, bookVars
<1> QED BY <1>2, <1>3, <1>4, <1>5, TradeAggregates, Zenon DEF Match

\* cancel() and the cancelling half of replace().
LEMMA RemoveAggregates ==
    ASSUME IInv, Aggregates, NEW id \in OrderIds, idMap[id] # Null, RemoveForCancel(id)
    PROVE  Aggregates'
<1> DEFINE n == idMap[id]
<1>1. BookInv
    BY IInvParts
<1>2. n \in LiveNodes
    BY <1>1, SMTT(60) DEF BookInv, BookTypeOK, IndexConsistent, IdMapExact, LiveNodes
<1>3. LeaveBook(n, pool[n].price)
    BY Zenon DEF RemoveForCancel
<1> HIDE DEF n
<1>4. pool[n].price \in Int /\ InRange(pool[n].price)
    BY <1>1, <1>2, LiveNode, Zenon
<1> QED BY <1>1, <1>2, <1>3, <1>4, LeaveAggregates, Zenon

\* submit(), cancel() and replace() keep the aggregates exact: only the latter two take an order
\* out of the book before any matching.
LEMMA CallAggregates ==
    ASSUME IInv, Aggregates, Call \/ SubmitFresh
    PROVE  Aggregates'
<1>1. ASSUME NEW in, SubmitEx(in) PROVE Aggregates'
    <2>1. UNCHANGED bookVars
        BY <1>1, Zenon DEF SubmitEx, StartMatching, Rejected
    <2> QED BY <2>1, AggregatesStutter, Zenon DEF bookVars
<1>2. ASSUME NEW id \in OrderIds, Cancel(id) PROVE Aggregates'
    <2>1. CASE idMap[id] = Null
        BY <1>2, <2>1, AggregatesStutter, Zenon DEF Cancel, bookVars
    <2>2. CASE idMap[id] # Null
        BY <1>2, <2>2, RemoveAggregates, Zenon DEF Cancel
    <2> QED BY <2>1, <2>2
<1>3. ASSUME NEW id \in OrderIds, NEW in \in Arrivals, Replace(id, in) PROVE Aggregates'
    <2>1. CASE ReplaceRejectReason(id, in) # "Ok"
        BY <1>3, <2>1, AggregatesStutter, Zenon DEF Replace, Rejected, bookVars
    <2>2. CASE ReplaceRejectReason(id, in) = "Ok"
        <3>1. idMap[id] # Null
            BY <2>2 DEF ReplaceRejectReason
        <3> QED BY <1>3, <2>2, <3>1, RemoveAggregates, Zenon DEF Replace
    <2> QED BY <2>1, <2>2
<1> QED BY <1>1, <1>2, <1>3, Zenon DEF Call, Submit, SubmitFresh

\* A new book has empty levels.
LEMMA EmptyAggregates == EmptyBook => Aggregates
<1> SUFFICES ASSUME EmptyBook, NEW s \in Sides, NEW i \in Slots
             PROVE  /\ totalQty[s][i] = SumFunctionOnSet(Amounts(pool), Range(queue[s][i]))
                    /\ i \in occupied[s] <=> queue[s][i] # <<>>
    BY Zenon DEF Aggregates, TotalsIn, BitsIn
<1>1. queue[s][i] = <<>> /\ totalQty[s][i] = 0 /\ occupied[s] = {}
    BY DEF EmptyBook
<1>2. Range(queue[s][i]) = {}
    <2>1. queue[s][i] \in Seq(Nodes)
        BY <1>1, EmptyIs
    <2> QED BY <1>1, <2>1, EmptyRange, Zenon
<1>3. SumFunctionOnSet(Amounts(pool), Range(queue[s][i])) = 0
    BY <1>2, SumEmpty
<1> QED BY <1>1, <1>3

\* Every step keeps the aggregates exact, the steps of a restore included.
LEMMA NextAggregates == IInv /\ Aggregates /\ [Next]_vars => Aggregates'
<1> SUFFICES ASSUME IInv, Aggregates, [Next]_vars PROVE Aggregates'
    BY Zenon
<1>1. IInv'
    BY NextInv, Zenon
<1>2. CASE UNCHANGED bookVars
    BY <1>2, AggregatesStutter, Zenon DEF bookVars
<1>3. UNCHANGED vars \/ Return \/ RestoreCounters => UNCHANGED bookVars
    BY Zenon DEF vars, Return, RestoreCounters
<1>4. CASE Restart
    <2>1. EmptyBook'
        BY <1>4, Zenon DEF Restart, EmptyBook, EmptySentinel
    <2>2. EmptyBook' => Aggregates'
        BY EmptyAggregates, PTL
    <2> QED BY <2>1, <2>2
<1>5. CASE RestoreResting
    <2>1. pc = "restore" /\ ~TodoEmpty /\ free # <<>> /\ EnterBook(TodoOrder)
        BY <1>5, Zenon DEF RestoreResting
    <2>2. TodoOrder \in Orders
        BY <2>1, TodoFacts, Zenon
    <2>3. BookInv /\ BookInv'
        BY <1>1, IInvParts, IInvPartsPrime
    <2> QED BY <2>1, <2>2, <2>3, EnterAggregates, Zenon
<1>6. CASE Call \/ SubmitFresh
    BY <1>6, CallAggregates, Zenon
<1>7. CASE Match
    BY <1>1, <1>7, MatchAggregates, Zenon
<1> QED BY <1>2, <1>3, <1>4, <1>5, <1>6, <1>7, Zenon DEF Next, Step

\* In every reachable state, also in the middle of a match and of a restart, the total a level
\* keeps is what its orders still have, and its occupancy bit tells whether it has any (I6, I9).
THEOREM LevelAggregatesHold == Spec => []LevelAggregates
<1>1. Init => Aggregates
    BY EmptyAggregates, Zenon DEF Init
<1>2. IInv /\ Aggregates => LevelAggregates
    BY IInvParts, LevelAggregatesFrom, Zenon
<1> QED BY <1>1, <1>2, NextAggregates, BookInvariant, PTL DEF Spec
-----------------------------------------------------------------------------
(***************************************************************************)
(* The account of a call: filled, still to fill, and refused.              *)
(***************************************************************************)
\* What the trades ts add up to.
FilledBy(ts) == SumFunction([k \in DOMAIN ts |-> ts[k].quantity])

\* No trades fill nothing.
LEMMA FilledByNone == FilledBy(<<>>) = 0
<1> DEFINE f == [k \in DOMAIN <<>> |-> <<>>[k].quantity]
<1>1. DOMAIN f = {}
    OBVIOUS
<1>2. SumFunction(f) = SumFunctionOnSet(f, {})
    BY <1>1, Zenon DEF SumFunction
<1> HIDE DEF f
<1> QED BY <1>2, SumEmpty DEF f, FilledBy

\* One more trade adds its quantity.
LEMMA FilledByMore ==
    ASSUME NEW ts \in Seq(TradeRecords), NEW t \in TradeRecords
    PROVE  /\ FilledBy(ts) \in Nat
           /\ FilledBy(Append(ts, t)) = FilledBy(ts) + t.quantity
<1> DEFINE us == Append(ts, t)
           f == [k \in DOMAIN ts |-> ts[k].quantity]
           g == [k \in DOMAIN us |-> us[k].quantity]
           e == Len(ts) + 1
           D == DOMAIN ts
<1>1. /\ D = 1 .. Len(ts) /\ Len(ts) \in Nat
      /\ \A k \in D : ts[k] \in TradeRecords
    OBVIOUS
<1>2. /\ DOMAIN us = D \cup {e} /\ e \notin D
      /\ us[e] = t /\ \A k \in D : us[k] = ts[k]
    BY <1>1
<1>3. IsFiniteSet(D)
    BY <1>1, FS_Interval
<1>4. \A r \in TradeRecords : r.quantity \in Nat
    BY DEF TradeRecords
<1> HIDE DEF us, D, e
<1>5. \A k \in D : f[k] = ts[k].quantity /\ f[k] \in Nat
    BY <1>1, <1>4 DEF D
<1>6. /\ \A k \in D : g[k] = f[k]
      /\ g[e] = t.quantity /\ DOMAIN g = D \cup {e}
    BY <1>2, <1>5
<1>7. FilledBy(ts) = SumFunctionOnSet(f, D)
    BY DEF FilledBy, SumFunction, D
<1>8. FilledBy(us) = SumFunctionOnSet(g, D \cup {e})
    BY <1>2 DEF FilledBy, SumFunction
<1> HIDE DEF f, g
<1>9. SumFunctionOnSet(f, D) \in Nat
    <2>1. /\ \A k \in D : f[k] \in Int
          /\ \A k \in D : f[k] >= 0
        BY <1>5
    <2>2. SumFunctionOnSet(f, D) \in Int /\ SumFunctionOnSet(f, D) >= 0
        BY <1>3, <2>1, SumType
    <2> QED BY <2>2
<1>10. SumFunctionOnSet(g, D) = SumFunctionOnSet(f, D)
    BY <1>3, <1>6, SumSame
<1>11. SumFunctionOnSet(g, D \cup {e}) = SumFunctionOnSet(g, D) + g[e]
    <2>1. \A k \in D \cup {e} : g[k] \in Int
        BY <1>4, <1>5, <1>6
    <2> QED BY <1>2, <1>3, <2>1, SumPutIn, Zenon
<1> QED BY <1>6, <1>7, <1>8, <1>9, <1>10, <1>11 DEF us

\* What is accounted for in the course of a call: nothing before it starts to match, then what is
\* traded and what remains make up the quantity that came in.
AccountInv ==
    /\ trades \in Seq(TradeRecords)
    /\ pc \in {"idle", "fresh", "restore"} => trades = <<>> /\ victims = <<>>
    /\ pc \in {"idle", "restore"} => incoming = NoOrder
    /\ pc = "match" => FilledBy(trades) + remaining = incoming.quantity
    /\ ResultConserves

\* At the start nothing is filled and nothing is owed.
LEMMA InitAccount == Init => AccountInv
<1> SUFFICES ASSUME Init PROVE AccountInv
    OBVIOUS
<1>1. pc = "idle" /\ trades = <<>> /\ victims = <<>> /\ incoming = NoOrder
    BY DEF Init, NoCall
<1>2. trades \in Seq(TradeRecords)
    BY <1>1, EmptyIs
<1> QED BY <1>1, <1>2 DEF AccountInv, ResultConserves

\* One trade moves its quantity from what remains to what is filled.
LEMMA TradeAccount ==
    ASSUME IInv, AccountInv, Trade
    PROVE  AccountInv'
<1> DEFINE o == pool[Resting]
           qty == MinOf(remaining, o.remaining)
           t == [id |-> nextTradeId, aggressorId |-> incoming.id, passiveId |-> o.id,
                 price |-> o.price, quantity |-> qty, aggressorSide |-> incoming.side]
<1>1. CanMatch /\ BestQueue # <<>>
    BY Zenon DEF Trade
<1>2. BookInv /\ CallTypeOK
    BY IInvParts
<1>3. pc = "match" /\ Resting \in LiveNodes
    BY <1>1, CanMatchFacts, Zenon
<1>4. /\ trades' = Append(trades, t) /\ remaining' = remaining - qty
      /\ UNCHANGED <<pc, incoming>>
    BY Zenon DEF Trade
<1>5. /\ o.remaining \in Nat /\ o.id \in OrderIds /\ o.price \in Int
      /\ remaining \in Nat /\ incoming.id \in OrderIds /\ incoming.side \in Sides
      /\ incoming.quantity \in Nat /\ nextTradeId \in Nat
    BY <1>2, <1>3, LiveNode, MatchFacts, Zenon DEF CallTypeOK
<1>6. qty \in Nat
    BY <1>5 DEF MinOf
<1> HIDE DEF qty, o
<1>7. t \in TradeRecords /\ t.quantity = qty
    BY <1>5, <1>6 DEF TradeRecords
<1> HIDE DEF t
<1>8. trades \in Seq(TradeRecords) /\ FilledBy(trades) + remaining = incoming.quantity
    BY <1>3, Zenon DEF AccountInv
<1>9. /\ FilledBy(trades) \in Nat
      /\ FilledBy(trades') = FilledBy(trades) + qty
    BY <1>4, <1>7, <1>8, FilledByMore
<1>10. FilledBy(trades') + remaining' = incoming'.quantity
    BY <1>4, <1>5, <1>6, <1>8, <1>9
<1>11. trades' \in Seq(TradeRecords)
    BY <1>4, <1>7, <1>8, AppendIs
<1>12. pc' = "match"
    BY <1>3, <1>4, Zenon
<1> QED BY <1>10, <1>11, <1>12 DEF AccountInv, ResultConserves

\* A call that ends out of matchInto() reports what was traded and what was not.
LEMMA ReportAccount ==
    ASSUME IInv, AccountInv, pc = "match", pc' = "done", UNCHANGED <<incoming, trades>>,
           result'.filled = incoming.quantity - remaining, result'.remaining = remaining
    PROVE  AccountInv'
<1>1. /\ trades \in Seq(TradeRecords) /\ trades' = trades /\ incoming' = incoming
      /\ FilledBy(trades) + remaining = incoming.quantity
    BY Zenon DEF AccountInv
<1>2. incoming.quantity \in Nat /\ remaining \in Nat
    BY MatchFacts
<1>3. FilledBy(trades) \in Nat
    <2>1. CASE trades = <<>>
        BY <2>1, FilledByNone
    <2>2. CASE trades # <<>>
        <3>1. trades[1] \in TradeRecords
            BY <1>1, <2>2
        <3> QED BY <1>1, <3>1, FilledByMore
    <2> QED BY <2>1, <2>2
<1>4. result'.filled = FilledBy(trades') /\ result'.filled + result'.remaining = incoming'.quantity
    BY <1>1, <1>2, <1>3
<1>5. ResultConserves'
    BY <1>4, Zenon DEF ResultConserves, FilledBy
<1> QED BY <1>1, <1>5 DEF AccountInv

\* Each turn of the loop of matchInto() and each way a submission ends keeps the account.
LEMMA MatchAccount ==
    ASSUME IInv, AccountInv, Match
    PROVE  AccountInv'
<1>1. CASE SelfTrade
    <2>1. pc = "match" /\ UNCHANGED <<incoming, trades, remaining>>
        BY <1>1, Zenon DEF SelfTrade, CanMatch
    <2>2. CASE stp = "CancelPassive"
        <3>1. pc' = pc
            BY <1>1, <2>2, Zenon DEF SelfTrade
        <3> QED BY <2>1, <3>1 DEF AccountInv, ResultConserves
    <2>3. CASE stp # "CancelPassive"
        <3>1. pc' = "done" /\ result' = StpResult
            BY <1>1, <2>3, Zenon DEF SelfTrade
        <3>2. /\ StpResult.filled = incoming.quantity - remaining
              /\ StpResult.remaining = remaining
            BY DEF StpResult, NoResult
        <3> QED BY <2>1, <3>1, <3>2, ReportAccount
    <2> QED BY <2>2, <2>3
<1>2. CASE SkipEmptyLevel
    <2>1. pc = "match" /\ pc' = pc /\ UNCHANGED <<incoming, trades, remaining>>
        BY <1>2, Zenon DEF SkipEmptyLevel, CanMatch, callVars
    <2> QED BY <2>1 DEF AccountInv, ResultConserves
<1>3. CASE RestResidual \/ PoolExhausted \/ DropResidual \/ FullyFilled
    <2>1. PICK status, rested : EndMatching(status, rested)
        BY <1>3, Zenon DEF RestResidual, PoolExhausted, DropResidual, FullyFilled
    <2>2. /\ pc = "match" /\ pc' = "done" /\ UNCHANGED <<incoming, trades>>
          /\ result'.filled = incoming.quantity - remaining /\ result'.remaining = remaining
        BY <2>1 DEF EndMatching
    <2> QED BY <2>2, ReportAccount
<1> QED BY <1>1, <1>2, <1>3, TradeAccount, Zenon DEF Match

\* submitEx() before matchInto().
LEMMA SubmitAccount ==
    ASSUME IInv, AccountInv, pc \in {"idle", "fresh"}, NEW in \in NewOrders,
           SubmitEx(in) \/ \E reason \in SubmitStatus : Rejected(in, reason)
    PROVE  AccountInv'
<1>1. trades = <<>> /\ FilledBy(trades) = 0 /\ trades \in Seq(TradeRecords)
    BY FilledByNone DEF AccountInv
<1>2. CASE RejectReason(in) = "Ok" /\ SubmitEx(in)
    <2>1. pc' = "match" /\ incoming' = in /\ remaining' = in.quantity /\ trades' = trades
        BY <1>2, Zenon DEF SubmitEx, StartMatching
    <2>2. in.quantity \in Int
        BY DEF NewOrders
    <2> QED BY <1>1, <2>1, <2>2 DEF AccountInv, ResultConserves
<1>3. ASSUME NEW reason, Rejected(in, reason) PROVE AccountInv'
    <2>1. /\ pc' = "done" /\ incoming' = in /\ trades' = trades
          /\ result' = [NoResult EXCEPT !.status = reason]
        BY <1>3, Zenon DEF Rejected
    <2>2. result'.filled = 0 /\ result'.remaining = 0
        BY <2>1 DEF NoResult
    <2>3. ResultConserves'
        <3>1. result'.filled = FilledBy(trades') /\ result'.filled + result'.remaining = 0
            BY <1>1, <2>1, <2>2
        <3> QED BY <1>1, <2>1, <3>1, Zenon DEF ResultConserves, FilledBy
    <2> QED BY <1>1, <2>1, <2>3 DEF AccountInv
<1> QED BY <1>2, <1>3, Zenon DEF SubmitEx

\* submit(), cancel() and replace() open an account with nothing filled.
LEMMA CallAccount ==
    ASSUME IInv, AccountInv, Call \/ SubmitFresh
    PROVE  AccountInv'
<1>1. CASE SubmitFresh
    <2>1. pc = "fresh" /\ SubmitEx(incoming) /\ incoming \in NewOrders
        BY <1>1, IInvParts DEF SubmitFresh, CallTypeOK
    <2> QED BY <2>1, SubmitAccount
<1>2. ASSUME pc = "idle", NEW in \in Arrivals, Submit(in) PROVE AccountInv'
    BY <1>2, SubmitAccount, ArrivalsAssumption DEF Submit
<1>3. ASSUME pc = "idle", NEW id \in OrderIds, Cancel(id) PROVE AccountInv'
    <2>1. pc' = "done" /\ UNCHANGED <<incoming, trades>> /\ incoming = NoOrder
        BY <1>3 DEF Cancel, AccountInv
    <2> QED BY <2>1 DEF AccountInv, ResultConserves
<1>4. ASSUME pc = "idle", NEW id \in OrderIds, NEW in \in Arrivals, Replace(id, in)
      PROVE  AccountInv'
    <2>1. CASE ReplaceRejectReason(id, in) # "Ok"
        <3>1. ReplaceRejectReason(id, in) \in SubmitStatus /\ in \in NewOrders
            BY ArrivalsAssumption, Zenon DEF ReplaceRejectReason, SubmitStatus
        <3>2. Rejected(in, ReplaceRejectReason(id, in))
            BY <1>4, <2>1, Zenon DEF Replace
        <3> QED BY <1>4, <3>1, <3>2, SubmitAccount
    <2>2. CASE ReplaceRejectReason(id, in) = "Ok"
        <3>1. pc' = "fresh" /\ trades' = trades /\ victims' = victims
            BY <1>4, <2>2, Zenon DEF Replace
        <3> QED BY <1>4, <3>1 DEF AccountInv, ResultConserves
    <2> QED BY <2>1, <2>2
<1> QED BY <1>1, <1>2, <1>3, <1>4, Zenon DEF Call

\* Every step keeps the account.
LEMMA NextAccount == IInv /\ AccountInv /\ [Next]_vars => AccountInv'
<1> SUFFICES ASSUME IInv, AccountInv, [Next]_vars PROVE AccountInv'
    BY Zenon
<1>1. CASE UNCHANGED <<callVars, pc>>
    BY <1>1, Zenon DEF AccountInv, ResultConserves, callVars
<1>2. UNCHANGED vars \/ RestoreResting => UNCHANGED <<callVars, pc>>
    BY Zenon DEF vars, RestoreResting
<1>3. CASE Return
    <2>1. pc' = "idle" /\ trades' = <<>> /\ victims' = <<>> /\ incoming' = NoOrder
        BY <1>3, Zenon DEF Return
    <2>2. trades' \in Seq(TradeRecords)
        BY <2>1, EmptyIs
    <2> QED BY <2>1, <2>2 DEF AccountInv, ResultConserves
<1>4. CASE Restart \/ RestoreCounters
    <2>1. /\ pc \in {"idle", "restore"} /\ pc' \in {"idle", "restore"}
          /\ incoming' = incoming /\ trades' = trades /\ victims' = victims
        BY <1>4 DEF Restart, RestoreCounters, callVars
    <2> QED BY <2>1 DEF AccountInv, ResultConserves
<1> QED BY <1>1, <1>2, <1>3, <1>4, CallAccount, MatchAccount, Zenon DEF Next, Step

\* Whatever becomes of a submission, its result reports exactly what its trades add up to, and
\* what is not filled is reported as remaining (I1).
THEOREM ResultConservesHolds == Spec => []ResultConserves
<1>1. AccountInv => ResultConserves
    BY DEF AccountInv
<1> QED BY <1>1, InitAccount, NextAccount, BookInvariant, PTL DEF Spec
-----------------------------------------------------------------------------
(***************************************************************************)
(* Fill-or-kill. What the pre-scan counts is the sum over a set of orders  *)
(* that price-time priority defines; the loop takes from that set, and     *)
(* from nothing else, until the order is filled.                           *)
(***************************************************************************)
\* The orders of pool p that the arrival in crosses, its participant's own among them; here and
\* below defined by price-time priority and not by the walk over the levels.
ReachedIn(p, in) ==
    {n \in Nodes : p[n] # NoOrder /\ p[n].side = Opposite(in.side) /\ Crosses(in, p[n].price)}
\* Those of the arrival's own participant.
OwnIn(p, in) == {n \in ReachedIn(p, in) : p[n].participant = in.participant}
\* Those a FOK may count on: unless its own are cancelled, none behind one of its own.
CountedIn(policy, p, in) ==
    {n \in ReachedIn(p, in) \ OwnIn(p, in) :
       policy = "CancelPassive" \/ \A m \in OwnIn(p, in) : ~Precedes(p[m], p[n])}

\* What a FOK may count on.
Fillable(in) == SumFunctionOnSet(Amounts(pool), CountedIn(stp, pool, in))

\* The walk of availableAgainst() reaches exactly the orders the arrival crosses.
LEMMA ScannedIs ==
    ASSUME BookInv, BookPrices, NEW in \in NewOrders
    PROVE  Scanned(in) = ReachedIn(pool, in)
<1> DEFINE opp == Opposite(in.side)
           W == {j \in VisitedSlots(opp) : Crosses(in, WalkPrice(opp, j))}
<1>1. opp \in Sides
    BY DEF NewOrders, Opposite, Sides
<1>2. Scanned(in) = UNION {Range(queue[opp][i]) : i \in W}
    BY Zenon DEF Scanned
<1>3. VisitedSlots(opp) \subseteq Slots
    BY <1>1, VisitedAreSlots
<1> HIDE DEF opp
<1>4. \A i \in Slots : \A n \in Range(queue[opp][i]) :
         n \in LiveNodes /\ pool[n].side = opp /\ Index(pool[n].price) = i
    BY <1>1, QueuedAt, Zenon
<1>5. \A n \in LiveNodes :
         /\ n \in Nodes /\ pool[n] # NoOrder
         /\ n \in Range(queue[pool[n].side][Index(pool[n].price)])
         /\ Index(pool[n].price) \in VisitedSlots(pool[n].side)
         /\ WalkPrice(pool[n].side, Index(pool[n].price)) = pool[n].price
    BY LivePrice, WalkVisits, Zenon
<1>6. ASSUME NEW n \in Scanned(in) PROVE n \in ReachedIn(pool, in)
    <2>1. PICK i \in W : n \in Range(queue[opp][i])
        BY <1>2, <1>6, Zenon
    <2>2. i \in Slots /\ Crosses(in, WalkPrice(opp, i))
        BY <1>3
    <2>3. n \in LiveNodes /\ pool[n].side = opp /\ Index(pool[n].price) = i
        BY <1>4, <2>1, <2>2, Zenon
    <2>4. n \in Nodes /\ pool[n] # NoOrder /\ WalkPrice(opp, i) = pool[n].price
        BY <1>5, <2>3, Zenon
    <2>5. Crosses(in, pool[n].price)
        BY <2>2, <2>4, Zenon
    <2> QED BY <2>3, <2>4, <2>5, Zenon DEF ReachedIn, opp
<1>7. ASSUME NEW n \in ReachedIn(pool, in) PROVE n \in Scanned(in)
    <2>1. n \in LiveNodes /\ pool[n].side = opp /\ Crosses(in, pool[n].price)
        BY Zenon DEF ReachedIn, LiveNodes, opp
    <2> DEFINE i == Index(pool[n].price)
    <2>2. /\ n \in Range(queue[opp][i]) /\ i \in VisitedSlots(opp)
          /\ WalkPrice(opp, i) = pool[n].price
        BY <1>5, <2>1, Zenon
    <2> HIDE DEF i
    <2>3. i \in W
        BY <2>1, <2>2, Zenon
    <2> QED BY <1>2, <2>2, <2>3, Zenon
<1> QED BY <1>6, <1>7, Zenon

\* The pre-scan of a FOK computes what it may count on: an own order met before others in the
\* walk is one with priority over them.
LEMMA AvailableIs ==
    ASSUME BookInv, BookPrices, NEW in \in NewOrders
    PROVE  AvailableAgainst(in) = Fillable(in)
<1> DEFINE S == Scanned(in)
           own == {n \in S : pool[n].participant = in.participant}
           C == {n \in S \ own : stp = "CancelPassive" \/ \A m \in own : ~MetBefore(m, n)}
           f == [n \in C |-> pool[n].remaining]
           A == Amounts(pool)
<1>1. AvailableAgainst(in) = SumFunction(f)
    BY Zenon DEF AvailableAgainst
<1>2. S = ReachedIn(pool, in)
    BY ScannedIs, Zenon
<1>3. \A n \in S : n \in LiveNodes /\ pool[n] # NoOrder /\ pool[n].side = Opposite(in.side)
    BY <1>2, Zenon DEF ReachedIn, LiveNodes
<1> HIDE DEF S
<1>4. \A m, n \in S : MetBefore(m, n) <=> Precedes(pool[m], pool[n])
    BY <1>3, WalkOrder, Zenon
<1>5. own = OwnIn(pool, in)
    BY <1>2, Zenon DEF OwnIn
<1>6. \A m \in own : m \in S
    OBVIOUS
<1> HIDE DEF own
<1>7. C = CountedIn(stp, pool, in)
    BY <1>2, <1>4, <1>5, <1>6, Zenon DEF CountedIn
<1>8. \A n \in C : n \in LiveNodes /\ pool[n] # NoOrder
    BY <1>3
<1> HIDE DEF C
<1>9. C \in SUBSET Nodes
    BY <1>8 DEF LiveNodes
<1>10. DOMAIN f = C /\ \A n \in C : f[n] = A[n]
    BY <1>8, <1>9 DEF Amounts
<1>11. SumFunction(f) = SumFunctionOnSet(f, C)
    BY <1>10, Zenon DEF SumFunction
<1> HIDE DEF f, A
<1>12. SumFunctionOnSet(f, C) = SumFunctionOnSet(A, C)
    BY <1>9, <1>10, NodesFinite, SumSame
<1> QED BY <1>1, <1>7, <1>11, <1>12, Zenon DEF Fillable, A

\* The sums in question are of naturals over finite sets.
LEMMA CountedFacts ==
    ASSUME NEW p \in [Nodes -> Orders \cup {NoOrder}], NEW policy, NEW in
    PROVE  /\ IsFiniteSet(CountedIn(policy, p, in))
           /\ \A n \in CountedIn(policy, p, in) :
                 n \in Nodes /\ Amounts(p)[n] \in Int /\ Amounts(p)[n] = p[n].remaining
           /\ SumFunctionOnSet(Amounts(p), CountedIn(policy, p, in)) \in Int
           /\ SumFunctionOnSet(Amounts(p), CountedIn(policy, p, in)) >= 0
<1> DEFINE C == CountedIn(policy, p, in)
           A == Amounts(p)
<1>1. C \in SUBSET Nodes /\ \A n \in C : n \in Nodes /\ p[n] # NoOrder
    BY DEF CountedIn, ReachedIn
<1> HIDE DEF C
<1>2. IsFiniteSet(C)
    BY <1>1, NodesFinite
<1>3. \A n \in C : A[n] \in Nat /\ A[n] = p[n].remaining
    BY <1>1, AmountFacts, Zenon
<1> HIDE DEF A
<1>4. \A n \in C : A[n] \in Int /\ A[n] >= 0
    BY <1>3
<1>5. SumFunctionOnSet(A, C) \in Int /\ SumFunctionOnSet(A, C) >= 0
    BY <1>2, <1>4, SumType
<1> QED BY <1>1, <1>2, <1>3, <1>4, <1>5 DEF C, A

\* The order the loop stands at is one the arrival reaches, and no own order has priority over it.
LEMMA RestingCounts ==
    ASSUME IInv, PriceInv, CanMatch
    PROVE  /\ Resting \in ReachedIn(pool, incoming)
           /\ pool[Resting].participant # incoming.participant =>
                 Resting \in CountedIn(stp, pool, incoming)
           /\ pool[Resting].participant = incoming.participant /\ stp # "CancelPassive" =>
                 CountedIn(stp, pool, incoming) = {}
<1> DEFINE R == ReachedIn(pool, incoming)
           Own == OwnIn(pool, incoming)
<1>1. BookInv /\ BookPrices /\ BestQueue # <<>>
    BY IInvParts, BestLevelOccupied, Zenon DEF PriceInv
<1>2. /\ Resting \in LiveNodes /\ pool[Resting].price = best[Opp] /\ pool[Resting].side = Opp
      /\ Crosses(incoming, best[Opp])
    BY <1>1, RestingAtBest, CanMatchFacts, Zenon DEF CanMatch
<1>3. Resting \in R
    BY <1>2, Zenon DEF ReachedIn, LiveNodes, Opp
<1>4. \A m \in R : m \in LiveNodes /\ pool[m].side = Opp
    BY Zenon DEF ReachedIn, LiveNodes, Opp
<1>5. \A m \in Own : m \in R /\ pool[m].participant = incoming.participant
    BY Zenon DEF OwnIn
<1>6. \A m \in R : m # Resting => Precedes(pool[Resting], pool[m])
    BY <1>4, RestingFirst, Zenon
<1>7. ASSUME NEW m \in R, m # Resting PROVE ~Precedes(pool[m], pool[Resting])
    <2>1. /\ pool[m].price \in Int /\ pool[m].seq \in Nat /\ pool[m].side = Opp
          /\ pool[Resting].price \in Int /\ pool[Resting].seq \in Nat
        BY <1>1, <1>2, <1>4, LivePrice, Zenon
    <2>2. Precedes(pool[Resting], pool[m])
        BY <1>6, <1>7
    <2> QED BY <1>2, <2>1, <2>2 DEF Precedes, IsBetter
<1>8. ASSUME pool[Resting].participant # incoming.participant
      PROVE  Resting \in CountedIn(stp, pool, incoming)
    <2>1. Resting \notin Own /\ \A m \in Own : ~Precedes(pool[m], pool[Resting])
        BY <1>5, <1>7, <1>8, Zenon
    <2> QED BY <1>3, <2>1, Zenon DEF CountedIn
<1>9. ASSUME pool[Resting].participant = incoming.participant, stp # "CancelPassive"
      PROVE  CountedIn(stp, pool, incoming) = {}
    <2>1. Resting \in Own
        BY <1>3, <1>9, Zenon DEF OwnIn
    <2>2. ASSUME NEW n \in CountedIn(stp, pool, incoming) PROVE FALSE
        <3>1. n \in R /\ n \notin Own /\ ~Precedes(pool[Resting], pool[n])
            BY <1>9, <2>1, Zenon DEF CountedIn
        <3> QED BY <1>6, <2>1, <3>1, Zenon
    <2> QED BY <2>2, Zenon
<1> QED BY <1>3, <1>8, <1>9, Zenon

\* When an order that is not own leaves, the others stay countable; so they do when an own one
\* leaves under CancelPassive.
LEMMA CountedAfter ==
    ASSUME NEW p, NEW n, NEW r, r[n] = NoOrder, \A m \in Nodes : m # n => r[m] = p[m],
           NEW in, NEW policy,
           p[n].participant # in.participant \/ policy = "CancelPassive"
    PROVE  CountedIn(policy, r, in) = CountedIn(policy, p, in) \ {n}
<1>1. r[n] = NoOrder /\ \A m \in Nodes : m # n => r[m] = p[m]
    OBVIOUS
<1>2. ReachedIn(r, in) = ReachedIn(p, in) \ {n} /\ ReachedIn(p, in) \subseteq Nodes
    BY <1>1 DEF ReachedIn
<1>3. OwnIn(r, in) = OwnIn(p, in) \ {n}
    BY <1>1, <1>2 DEF OwnIn
<1>4. p[n].participant # in.participant => n \notin OwnIn(p, in)
    BY DEF OwnIn
<1>5. \A m \in OwnIn(p, in) : m \in Nodes
    BY <1>2 DEF OwnIn
<1>6. ASSUME NEW k \in ReachedIn(r, in)
      PROVE  k \in CountedIn(policy, r, in) <=> k \in CountedIn(policy, p, in)
    <2>1. k # n /\ r[k] = p[k] /\ k \in ReachedIn(p, in)
        BY <1>1, <1>2
    <2>2. \A m \in OwnIn(r, in) : m # n /\ r[m] = p[m] /\ m \in OwnIn(p, in)
        BY <1>1, <1>3, <1>5, Zenon
    <2>3. policy = "CancelPassive" \/ OwnIn(r, in) = OwnIn(p, in)
        BY <1>3, <1>4
    <2>4. k \in OwnIn(r, in) <=> k \in OwnIn(p, in)
        BY <1>3, <2>1
    <2> QED BY <2>1, <2>2, <2>3, <2>4, Zenon DEF CountedIn
<1>7. /\ CountedIn(policy, r, in) \subseteq ReachedIn(r, in)
      /\ CountedIn(policy, p, in) \subseteq ReachedIn(p, in)
    BY Zenon DEF CountedIn
<1> QED BY <1>2, <1>6, <1>7, Zenon

\* In the middle of a FOK what it may count on covers what it still has to fill; inductive
\* together with IInv, PriceInv and AccountInv.
FokInv ==
    /\ pc = "match" /\ incoming.type = "Fok" => Fillable(incoming) >= remaining
    /\ FokAllOrNothing

\* A trade takes as much from what can be counted on as from what is to fill, or fills it all.
LEMMA TradeFok ==
    ASSUME IInv, IInv', PriceInv, FokInv, Trade, UNCHANGED stp, incoming.type = "Fok"
    PROVE  Fillable(incoming)' >= remaining'
<1> DEFINE o == pool[Resting]
           qty == MinOf(remaining, o.remaining)
           C == CountedIn(stp, pool, incoming)
           D == CountedIn(stp, pool', incoming)
           A == Amounts(pool)
           B == Amounts(pool')
<1>1. CanMatch /\ BestQueue # <<>> /\ o.participant # incoming.participant
    BY Zenon DEF Trade
<1>2. BookInv /\ BookInv'
    BY IInvParts, IInvPartsPrime
<1>3. /\ pc = "match" /\ Resting \in LiveNodes /\ best[Opp] \in Int /\ InRange(best[Opp])
    BY <1>1, CanMatchFacts, Zenon
<1>4. o.remaining \in Nat \ {0} /\ remaining \in Nat /\ Resting \in Nodes
    BY <1>2, <1>3, LiveNode, MatchFacts, Zenon
<1>5. /\ remaining' = remaining - qty /\ incoming' = incoming
      /\ qty = o.remaining => LeaveBook(Resting, best[Opp])
    BY Zenon DEF Trade
<1>6. SumFunctionOnSet(A, C) >= remaining
    BY <1>3, Zenon DEF FokInv, Fillable
<1>7. SumFunctionOnSet(B, D) \in Int /\ SumFunctionOnSet(B, D) >= 0
    <2>1. pool' \in [Nodes -> Orders \cup {NoOrder}]
        BY <1>2, Zenon DEF BookInv, BookTypeOK
    <2> QED BY <2>1, CountedFacts, Zenon
<1>8. Fillable(incoming)' = SumFunctionOnSet(B, D)
    BY <1>5, Zenon DEF Fillable
<1>9. qty = o.remaining \/ qty = remaining
    BY DEF MinOf
<1> HIDE DEF qty
<1>10. CASE qty = remaining
    <2>1. remaining' = 0
        BY <1>4, <1>5, <1>10
    <2> QED BY <1>7, <1>8, <2>1
<1>11. CASE qty = o.remaining
    <2>1. pool' = [pool EXCEPT ![Resting] = NoOrder]
        BY <1>2, <1>3, <1>5, <1>11, LeaveBookInv, Zenon
    <2>2. pool \in [Nodes -> Orders \cup {NoOrder}]
        BY <1>2, Zenon DEF BookInv, BookTypeOK
    <2>3. D = C \ {Resting}
        <3>1. pool'[Resting] = NoOrder /\ \A m \in Nodes : m # Resting => pool'[m] = pool[m]
            BY <1>4, <2>1, <2>2
        <3> QED BY <1>1, <3>1, CountedAfter
    <2>4. Resting \in C
        BY <1>1, RestingCounts, Zenon
    <2>5. /\ IsFiniteSet(C)
          /\ \A n \in C : n \in Nodes /\ A[n] \in Int /\ A[n] = pool[n].remaining
          /\ SumFunctionOnSet(A, C) \in Int
        BY <2>2, CountedFacts, Zenon
    <2>6. \A n \in D : B[n] = A[n]
        <3>1. \A n \in D : n \in Nodes /\ n # Resting
            BY <2>3, <2>5
        <3>2. \A n \in D : pool'[n] = pool[n]
            BY <2>1, <2>2, <3>1
        <3> HIDE DEF D
        <3> QED BY <3>1, <3>2 DEF Amounts
    <2> HIDE DEF C, D, A, B
    <2>7. SumFunctionOnSet(A, C) = o.remaining + SumFunctionOnSet(A, D)
        <3>1. SumFunctionOnSet(A, C) = A[Resting] + SumFunctionOnSet(A, C \ {Resting})
            BY <2>4, <2>5, SumTakeOut
        <3> QED BY <2>3, <2>4, <2>5, <3>1, Zenon
    <2>8. SumFunctionOnSet(B, D) = SumFunctionOnSet(A, D)
        <3>1. IsFiniteSet(D)
            BY <2>3, <2>5, FS_Subset
        <3> QED BY <2>6, <3>1, SumSame
    <2> HIDE DEF o
    <2> QED BY <1>4, <1>5, <1>6, <1>7, <1>8, <1>11, <2>5, <2>7, <2>8
<1> QED BY <1>9, <1>10, <1>11

\* Self-trade prevention never ends a FOK that has passed the pre-scan, and what it takes out of
\* the book was not counted on.
LEMMA SelfTradeFok ==
    ASSUME IInv, PriceInv, FokInv, SelfTrade, UNCHANGED stp, incoming.type = "Fok"
    PROVE  pc' = "match" /\ Fillable(incoming)' >= remaining'
<1> DEFINE C == CountedIn(stp, pool, incoming)
           D == CountedIn(stp, pool', incoming)
           A == Amounts(pool)
           B == Amounts(pool')
<1>1. /\ CanMatch /\ BestQueue # <<>> /\ pool[Resting].participant = incoming.participant
      /\ remaining' = remaining /\ incoming' = incoming /\ remaining > 0
    BY Zenon DEF SelfTrade, CanMatch
<1>2. BookInv
    BY IInvParts
<1>3. /\ pc = "match" /\ Resting \in LiveNodes /\ best[Opp] \in Int /\ InRange(best[Opp])
    BY <1>1, CanMatchFacts, Zenon
<1>4. SumFunctionOnSet(A, C) >= remaining
    BY <1>3, Zenon DEF FokInv, Fillable
<1>5. stp = "CancelPassive"
    <2>1. remaining \in Nat
        BY <1>3, MatchFacts, Zenon
    <2>2. C # {}
        <3>1. C = {} => SumFunctionOnSet(A, C) = 0
            BY SumEmpty, Zenon
        <3> HIDE DEF C, A
        <3> QED BY <1>1, <1>4, <2>1, <3>1
    <2> QED BY <1>1, <2>2, RestingCounts, Zenon
<1>6. LeaveBook(Resting, best[Opp]) /\ pc' = pc
    BY <1>5 DEF SelfTrade
<1>7. pool' = [pool EXCEPT ![Resting] = NoOrder]
    BY <1>2, <1>3, <1>6, LeaveBookInv, Zenon
<1>8. pool \in [Nodes -> Orders \cup {NoOrder}] /\ Resting \in Nodes
    BY <1>2, <1>3, Zenon DEF BookInv, BookTypeOK, LiveNodes
<1>9. D = C \ {Resting}
    <2>1. pool'[Resting] = NoOrder /\ \A m \in Nodes : m # Resting => pool'[m] = pool[m]
        BY <1>7, <1>8
    <2> QED BY <1>5, <2>1, CountedAfter
<1>10. Resting \notin C
    BY <1>1, Zenon DEF CountedIn, OwnIn
<1>11. IsFiniteSet(C) /\ \A n \in C : n \in Nodes
    BY <1>8, CountedFacts, Zenon
<1> HIDE DEF C, D
<1>12. D = C
    BY <1>9, <1>10
<1>13. \A n \in C : B[n] = A[n]
    <2>1. \A n \in C : n \in Nodes /\ n # Resting
        BY <1>10, <1>11
    <2>2. \A n \in C : pool'[n] = pool[n]
        BY <1>7, <1>8, <2>1
    <2> QED BY <2>1, <2>2 DEF Amounts
<1> HIDE DEF A, B
<1>14. SumFunctionOnSet(B, D) = SumFunctionOnSet(A, C)
    BY <1>11, <1>12, <1>13, SumSame
<1>15. Fillable(incoming)' = SumFunctionOnSet(B, D)
    BY <1>1, Zenon DEF Fillable, B, D
<1> QED BY <1>1, <1>3, <1>4, <1>6, <1>14, <1>15, Zenon

\* The loop does not stop while there is something to count on.
LEMMA ReachedMatches ==
    ASSUME IInv, PriceInv, pc = "match", remaining > 0, NEW m \in ReachedIn(pool, incoming)
    PROVE  CanMatch
<1>1. BookInv /\ BookPrices
    BY IInvParts, Zenon DEF PriceInv
<1>2. m \in LiveNodes /\ pool[m].side = Opp /\ Crosses(incoming, pool[m].price)
    BY Zenon DEF ReachedIn, LiveNodes, Opp
<1>3. /\ pool[m].price \in Int /\ best[Opp] \in Int /\ InRange(best[Opp])
      /\ ~IsBetter(Opp, pool[m].price, best[Opp])
    BY <1>1, <1>2, LivePrice, Zenon
<1>4. incoming.price \in Int /\ incoming.side \in Sides
    BY MatchFacts DEF NewOrders
<1>5. HasBest(Opp)
    BY <1>3, ConfigAssumption DEF HasBest, EmptySentinel, InRange
<1>6. Crosses(incoming, best[Opp])
    BY <1>2, <1>3, <1>4 DEF Crosses, IsBetter, Opp, Opposite, Sides
<1> QED BY <1>5, <1>6 DEF CanMatch

\* The loop does not stop before a FOK is filled.
LEMMA FokNeverStops ==
    ASSUME IInv, PriceInv, FokInv, pc = "match", incoming.type = "Fok", remaining > 0
    PROVE  CanMatch
<1> DEFINE C == CountedIn(stp, pool, incoming)
           A == Amounts(pool)
<1>1. SumFunctionOnSet(A, C) >= remaining /\ remaining \in Nat
    BY MatchFacts, Zenon DEF FokInv, Fillable
<1>2. C = {} => SumFunctionOnSet(A, C) = 0
    BY SumEmpty, Zenon
<1>3. \A m \in C : m \in ReachedIn(pool, incoming)
    BY Zenon DEF CountedIn
<1> HIDE DEF C, A
<1>4. PICK m : m \in C
    BY <1>1, <1>2
<1> QED BY <1>3, <1>4, ReachedMatches, Zenon

\* matchInto(): a FOK leaves it filled.
LEMMA MatchFok ==
    ASSUME IInv, IInv', PriceInv, AccountInv, FokInv, Match, UNCHANGED stp
    PROVE  FokInv'
<1>1. pc = "match" /\ incoming' = incoming
    BY Zenon DEF Match, Trade, SelfTrade, SkipEmptyLevel, CanMatch, RestResidual, PoolExhausted,
                 DropResidual, FullyFilled, EndMatching, callVars
<1>2. CASE incoming.type # "Fok"
    BY <1>1, <1>2, Zenon DEF FokInv, FokAllOrNothing
<1>3. CASE incoming.type = "Fok"
    <2>1. CASE Trade
        <3>1. pc' = "match"
            BY <1>1, <2>1, Zenon DEF Trade
        <3>2. Fillable(incoming)' >= remaining'
            BY <1>3, <2>1, TradeFok, Zenon
        <3> QED BY <3>1, <3>2 DEF FokInv, FokAllOrNothing
    <2>2. CASE SelfTrade
        <3>1. pc' = "match" /\ Fillable(incoming)' >= remaining'
            BY <1>3, <2>2, SelfTradeFok, Zenon
        <3> QED BY <3>1 DEF FokInv, FokAllOrNothing
    <2>3. ~SkipEmptyLevel
        BY BestLevelOccupied, Zenon DEF SkipEmptyLevel
    <2>4. ~RestResidual /\ ~PoolExhausted
        BY <1>3 DEF RestResidual, PoolExhausted
    <2>5. ~DropResidual
        BY <1>1, <1>3, FokNeverStops, Zenon DEF DropResidual, EndMatching
    <2>6. CASE FullyFilled
        <3>1. /\ remaining = 0 /\ pc' = "done" /\ trades' = trades
              /\ result'.status = "Ok" /\ result'.filled = incoming.quantity - remaining
            BY <2>6 DEF FullyFilled, EndMatching
        <3>2. incoming.quantity \in Nat \ {0}
            BY <1>1, MatchFacts, Zenon
        <3>3. trades # <<>>
            <4>1. FilledBy(trades) + remaining = incoming.quantity
                BY <1>1, Zenon DEF AccountInv
            <4> QED BY <3>1, <3>2, <4>1, FilledByNone
        <3>4. result'.filled = incoming.quantity
            BY <3>1, <3>2
        <3> QED BY <1>1, <3>1, <3>3, <3>4 DEF FokInv, FokAllOrNothing
    <2> QED BY <2>1, <2>2, <2>3, <2>4, <2>5, <2>6, Zenon DEF Match
<1> QED BY <1>2, <1>3

\* A call that is turned down has no trades and no victims.
LEMMA RejectedFok ==
    ASSUME AccountInv, pc \in {"idle", "fresh"}, NEW in, NEW reason, reason # "Ok",
           Rejected(in, reason)
    PROVE  FokInv'
<1>1. /\ pc' = "done" /\ trades' = trades /\ victims' = victims
      /\ result' = [NoResult EXCEPT !.status = reason]
    BY Zenon DEF Rejected
<1>2. trades = <<>> /\ victims = <<>>
    BY Zenon DEF AccountInv
<1>3. result'.status # "Ok"
    BY <1>1 DEF NoResult
<1> QED BY <1>1, <1>2, <1>3 DEF FokInv, FokAllOrNothing

\* submitEx(): a FOK that is accepted can count on its whole quantity.
LEMMA SubmitFok ==
    ASSUME IInv, PriceInv, AccountInv, pc \in {"idle", "fresh"}, NEW in \in NewOrders,
           SubmitEx(in), UNCHANGED stp
    PROVE  FokInv'
<1>1. CASE RejectReason(in) # "Ok"
    BY <1>1, RejectedFok, Zenon DEF SubmitEx
<1>2. CASE RejectReason(in) = "Ok"
    <2>1. /\ pc' = "match" /\ incoming' = in /\ remaining' = in.quantity /\ pool' = pool
        BY <1>2, Zenon DEF SubmitEx, StartMatching, bookVars
    <2>2. ASSUME in.type = "Fok" PROVE Fillable(incoming)' >= remaining'
        <3>1. ~(AvailableAgainst(in) < in.quantity)
            BY <1>2, <2>2, Zenon DEF RejectReason
        <3>2. BookInv /\ BookPrices
            BY IInvParts, Zenon DEF PriceInv
        <3>3. AvailableAgainst(in) = Fillable(in)
            BY <3>2, AvailableIs, Zenon
        <3>4. Fillable(in) \in Int
            <4>1. pool \in [Nodes -> Orders \cup {NoOrder}]
                BY <3>2, Zenon DEF BookInv, BookTypeOK
            <4> QED BY <4>1, CountedFacts, Zenon DEF Fillable
        <3>5. Fillable(incoming)' = Fillable(in)
            BY <2>1, Zenon DEF Fillable
        <3>6. in.quantity \in Int
            BY DEF NewOrders
        <3> QED BY <2>1, <3>1, <3>3, <3>4, <3>5, <3>6
    <2> QED BY <2>1, <2>2 DEF FokInv, FokAllOrNothing
<1> QED BY <1>1, <1>2

\* The calls: a FOK passes validation only if the book covers it.
LEMMA CallFok ==
    ASSUME IInv, PriceInv, AccountInv, Call \/ SubmitFresh, UNCHANGED stp
    PROVE  FokInv'
<1>1. CASE SubmitFresh
    <2>1. pc = "fresh" /\ SubmitEx(incoming) /\ incoming \in NewOrders
        BY <1>1, IInvParts DEF SubmitFresh, CallTypeOK
    <2> QED BY <2>1, SubmitFok
<1>2. ASSUME pc = "idle", NEW in \in Arrivals, Submit(in) PROVE FokInv'
    BY <1>2, SubmitFok, ArrivalsAssumption DEF Submit
<1>3. ASSUME pc = "idle", NEW id \in OrderIds, Cancel(id) PROVE FokInv'
    <2>1. pc' = "done" /\ incoming' = NoOrder
        BY <1>3 DEF Cancel, AccountInv
    <2> QED BY <2>1 DEF FokInv, FokAllOrNothing
<1>4. ASSUME pc = "idle", NEW id \in OrderIds, NEW in \in Arrivals, Replace(id, in)
      PROVE  FokInv'
    <2>1. CASE ReplaceRejectReason(id, in) # "Ok"
        BY <1>4, <2>1, RejectedFok, Zenon DEF Replace
    <2>2. CASE ReplaceRejectReason(id, in) = "Ok"
        <3>1. pc' = "fresh"
            BY <1>4, <2>2, Zenon DEF Replace
        <3> QED BY <3>1 DEF FokInv, FokAllOrNothing
    <2> QED BY <2>1, <2>2
<1> QED BY <1>1, <1>2, <1>3, <1>4, Zenon DEF Call

\* Every step keeps FokInv: the calls establish it, the loop uses it up, nothing else looks at it.
LEMMA NextFok ==
    IInv /\ PriceInv /\ AccountInv /\ FokInv /\ [Next]_vars => FokInv'
<1> SUFFICES ASSUME IInv, PriceInv, AccountInv, FokInv, [Next]_vars PROVE FokInv'
    BY Zenon
<1>1. IInv'
    BY NextInv, Zenon
<1>2. CASE UNCHANGED vars
    BY <1>2, Zenon DEF FokInv, FokAllOrNothing, Fillable, vars, callVars, bookVars
<1>3. CASE Return \/ Restart \/ RestoreCounters \/ RestoreResting
    <2>1. pc' \in {"idle", "restore"}
        BY <1>3 DEF Return, Restart, RestoreCounters, RestoreResting
    <2> QED BY <2>1 DEF FokInv, FokAllOrNothing
<1> QED BY <1>1, <1>2, <1>3, MatchFok, CallFok, Zenon DEF Next, Step

\* The account of every call is right in every reachable state.
THEOREM AccountInvariant == Spec => []AccountInv
BY InitAccount, NextAccount, BookInvariant, PTL DEF Spec

\* What a FOK may count on covers what it has to fill, in every reachable state.
THEOREM FokInvariant == TickAligned => (Spec => []FokInv)
<1> SUFFICES ASSUME TickAligned PROVE Spec => []FokInv
    OBVIOUS
<1>1. Init => FokInv
    BY DEF Init, FokInv, FokAllOrNothing
<1>2. Spec => []PriceInv
    BY PriceInvariant, Zenon
<1> QED BY <1>1, <1>2, NextFok, AccountInvariant, BookInvariant, PTL DEF Spec

\* A fill-or-kill order is filled completely or leaves no trade and takes nobody out of the book,
\* under every self-trade policy: the pre-scan of availableAgainst() and the loop of matchInto()
\* agree, when prices are on the tick grid.
THEOREM FokAllOrNothingHolds == TickAligned => (Spec => []FokAllOrNothing)
<1> SUFFICES ASSUME TickAligned PROVE Spec => []FokAllOrNothing
    OBVIOUS
<1>1. FokInv => FokAllOrNothing
    BY DEF FokInv
<1>2. Spec => []FokInv
    BY FokInvariant, Zenon
<1> QED BY <1>1, <1>2, PTL
=============================================================================
