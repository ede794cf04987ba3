---------------------------- MODULE MCMarketData ----------------------------
(* A small instance of MarketData: two order ids, two participants.        *)
EXTENDS MarketData

Cmd(kind, id, newId, side, price, quantity, participant, type) ==
    [kind |-> kind, id |-> id, newId |-> newId, side |-> side, price |-> price,
     quantity |-> quantity, participant |-> participant, type |-> type]

\* A bid; an ask of another participant that fills it in part; one of the bid's participant; a
\* market order larger than the bid; a cancel; replaces as the gateway sends them, with the same
\* id and no side (Buy by default): two move the bid to either price, one moves an ask to the
\* other side, so that an order with id 2 is on either side in turn.
MCCommands == {
    Cmd("New", 1, 1, "Buy", 2, 2, 1, "Limit"),
    Cmd("New", 2, 2, "Sell", 2, 1, 2, "Limit"),
    Cmd("New", 2, 2, "Sell", 1, 3, 1, "Limit"),
    Cmd("New", 2, 2, "Sell", 0, 3, 2, "Market"),
    Cmd("Cancel", 1, 1, "Buy", 0, 0, 1, "Limit"),
    Cmd("Replace", 1, 1, "Buy", 1, 1, 1, "Limit"),
    Cmd("Replace", 1, 1, "Buy", 2, 1, 1, "Limit"),
    Cmd("Replace", 2, 2, "Buy", 1, 1, 2, "Limit")}

MCFresh == {<<>>}
MCRestart == {<<c>> : c \in MCCommands}
=============================================================================
