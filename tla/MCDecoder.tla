----------------------------- MODULE MCDecoder -----------------------------
(* A small instance of Decoder.                                            *)
EXTENDS Decoder

Plain(type) == [type |-> type, length |-> 1 + PayloadSize[Code([type |-> type])]]
New(orderType, timeInForce, quantity, price) ==
    [type |-> "NewOrder", length |-> 40, side |-> 0, orderType |-> orderType,
     timeInForce |-> timeInForce, instrument |-> 1, quantity |-> quantity, price |-> price]
Cancel(instrument) == [type |-> "Cancel", length |-> 21, instrument |-> instrument]
Replace == [type |-> "CancelReplace", length |-> 37, instrument |-> 1, quantity |-> 1, price |-> 2]

Login == Plain("Login")
Bid == New(0, 0, 1, 1)
Ask == New(0, 1, 2, 2)
Refused == <<
    New(1, 2, 1, 0), New(0, 0, 0, 1), New(0, 0, 1, 3), Cancel(2),
    [Plain("Heartbeat") EXCEPT !.length = 8], [type |-> "Unheard", length |-> 5],
    [Plain("Heartbeat") EXCEPT !.length = 65]>>

\* Enough for a session that is stopped twice to overflow; one of every kind; and one that is
\* refused, behind and before good ones.
Session ==
    {<<Login, Cancel(1), Cancel(1), Bid, Ask, Bid, Ask, Bid, Ask>>,
     <<Login, New(1, 0, 1, 0), Replace, Cancel(1), Plain("Heartbeat")>>}
    \cup {<<Plain("Heartbeat"), m, Bid>> : m \in ToSet(Refused)}

\* A snapshot of four orders, more than kCapacity bytes.
Snapshot ==
    {<<Plain("SnapshotStart"), Plain("L3Order"), Plain("L3Order"), Plain("L3Order"),
       Plain("L3Order"), Plain("SnapshotEnd")>>}

\* Such a snapshot; smaller ones with a little of what follows; and a message that is refused.
Feed ==
    Snapshot \cup
    {<<Plain("SnapshotStart"), Plain("L3Order"), Plain("SnapshotEnd"), Plain("L2Delta"),
       Plain("TradeTick")>>,
     <<Plain("SnapshotStart"), Plain("SnapshotEnd"), Plain("L3Fill"), Plain("Heartbeat")>>}

MCCatalogue ==
    <<Login, Bid, Ask, Cancel(1), Replace, New(1, 0, 1, 0), Plain("Heartbeat")>> \o Refused \o
    [i \in DOMAIN MarketData |-> Plain(MarketData[i])]
MCStreams == [session |-> Session, feed |-> Feed]
MCSnapshot == [feed |-> Snapshot]
=============================================================================
