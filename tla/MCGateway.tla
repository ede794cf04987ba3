----------------------------- MODULE MCGateway ------------------------------
(* Clients for Gateway. *)
EXTENDS Gateway

CONSTANTS s1, s2

Order(type, seq, id) == [type |-> type, seq |-> seq, id |-> id]
Login(seq, authentic) == [type |-> "Login", seq |-> seq, id |-> 0, authentic |-> authentic]
Other(type) == [type |-> type, seq |-> 0, id |-> 0]

\* An order that is replaced while another one may trade with it.
Trading == [s \in {s1, s2} |->
    IF s = s1 THEN <<Login(0, TRUE), Order("New", 1, 1), Order("Replace", 2, 1)>>
    ELSE <<Login(4, TRUE), Order("New", 5, 2)>>]

\* The ring fills up, and what is behind a waiting command fills the decoder.
Waiting == [s \in {s1, s2} |->
    IF s = s1 THEN <<>>
    ELSE <<Login(4, TRUE), Order("Cancel", 5, 2), Order("Cancel", 6, 2), Order("Cancel", 7, 2),
           Order("Cancel", 8, 2), Other("Heartbeat"), Other("Heartbeat"), Other("Heartbeat"),
           Other("Heartbeat")>>]

\* Clients that do what they should not.
Unruly(frames) == [s \in {s1, s2} |->
    IF s = s1 THEN <<Login(0, TRUE), Order("New", 1, 1)>> ELSE frames]

MCScripts == {
    Trading,
    Waiting,
    Unruly(<<Order("New", 1, 2)>>),
    Unruly(<<Login(0, FALSE), Order("New", 1, 2)>>),
    Unruly(<<Other("Heartbeat"), Login(0, TRUE), Order("New", 2, 2), Order("New", 1, 2)>>),
    Unruly(<<Login(0, TRUE), Other("Malformed"), Order("New", 1, 2)>>),
    Unruly(<<Login(0, TRUE), Login(0, TRUE)>>),
    Unruly(<<Login(4, TRUE), Order("Cancel", 5, 2), Order("Cancel", 5, 2)>>)}
=============================================================================
