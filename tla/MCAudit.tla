------------------------------- MODULE MCAudit -------------------------------
(* A small instance of Audit: two journals, of four and of three commands. *)
EXTENDS Audit

Cmd(kind, id, newId, side, price, quantity, participant, type) ==
    [kind |-> kind, id |-> id, newId |-> newId, side |-> side, price |-> price,
     quantity |-> quantity, participant |-> participant, type |-> type]

Bid(id) == Cmd("New", id, id, "Buy", 2, 1, 1, "Limit")

\* Two bids, an order that fills both and rests, its cancel; and a trade with a replaced order.
MCJournals == {
    <<Bid(1), Bid(2), Cmd("New", 3, 3, "Sell", 2, 3, 2, "Limit"),
      Cmd("Cancel", 3, 3, "Sell", 0, 0, 2, "Limit")>>,
    <<Bid(1), Cmd("Replace", 1, 2, "Buy", 1, 2, 1, "Limit"),
      Cmd("New", 3, 3, "Sell", 0, 1, 3, "Market")>>}

MCCommands == UNION {Range(j) : j \in MCJournals}
=============================================================================
