----------------------------- MODULE MCOrderBook -----------------------------
(***************************************************************************)
(* Small instances of OrderBook.  An arrival is well formed, or is one of  *)
(* the two kinds that submitEx() and replace() refuse on sight.  A market  *)
(* order has one price only, since its price is never read; what never     *)
(* rests comes with the largest quantity.                                  *)
(***************************************************************************)
EXTENDS BookRefinement, TLC

CONSTANTS Quantities, Types

GoodArrivals ==
    {in \in [id : OrderIds, price : MinPrice .. MaxPrice, quantity : Quantities,
             participant : Participants, side : Sides, type : Types] :
        /\ in.type = "Market" => in.price = MaxPrice
        /\ in.type # "Limit" => in.quantity = Max(Quantities)}

BadArrivals ==
    {in \in [id : OrderIds, price : {MinPrice, MaxPrice + 1}, quantity : {0, 1},
             participant : Participants, side : {"Sell"}, type : {"Limit"}] :
        (in.quantity = 0) # (in.price = MaxPrice + 1)}

AllArrivals == GoodArrivals \cup BadArrivals

\* For runs with Participants = Sides: each side has one participant, and nobody meets themself.
TwoSidedArrivals == {in \in GoodArrivals : in.participant = in.side}

SymmetricIds == Permutations(OrderIds)
Symmetric == Permutations(OrderIds) \cup Permutations(Participants)
=============================================================================
