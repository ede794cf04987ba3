--------------------------- MODULE BookRefinement ---------------------------
(***************************************************************************)
(* The engine (module OrderBook) implements price-time priority (module    *)
(* PriceTime).  While a snapshot is being restored the abstract book is    *)
(* what is back plus what is still to come.                                *)
(***************************************************************************)
EXTENDS OrderBook

RestingOrders == {pool[n] : n \in LiveNodes} \cup {todo.pool[n] : n \in TodoNodes}
Arrival == IF pc = "match" THEN incoming ELSE NoOrder
Left == IF pc = "match" THEN remaining ELSE 0
FillOf(t) == [passiveId |-> t.passiveId, price |-> t.price, quantity |-> t.quantity]
Fills == [k \in DOMAIN trades |-> FillOf(trades[k])]
Clock == IF pc = "restore" THEN todo.bookSeq ELSE seq

PT == INSTANCE PriceTime WITH
    Capacity <- MaxOrders,
    resting <- RestingOrders,
    arrival <- Arrival,
    left <- Left,
    fills <- Fills,
    clock <- Clock

\* Every behaviour of the engine is one of the abstract price-time book: each step is one of its
\* steps (the restart and each restored order included) or changes nothing it can see.
RefinesPriceTime == PT!Spec
=============================================================================
