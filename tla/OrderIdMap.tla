----------------------------- MODULE OrderIdMap -----------------------------
(***************************************************************************)
(* The id map of the order book: open addressing with linear probing, and  *)
(* deletion that shifts the rest of the probe chain back instead of        *)
(* leaving tombstones.  The hash is a variable that never changes, so that *)
(* one run covers every way the ids can collide.  OrderBook uses a         *)
(* function from ids in place of the table.                                *)
(***************************************************************************)
EXTENDS Integers, Sequences, FiniteSets, FiniteSetsExt

CONSTANTS Ids,       \* order ids
          Capacity,  \* capacity_, a power of two
          Homes,     \* the slots the hash may choose
          Values,    \* what an id maps to
          EmptySlot, \* State::Empty
          Absent     \* the null pointer find() returns

\* The book sizes the table to at least twice the number of orders it can hold.
ASSUME CapacityAssumption ==
    /\ \E n \in 0 .. 16 : Capacity = 2 ^ n
    /\ 2 * Cardinality(Ids) <= Capacity
    /\ Homes \subseteq 0 .. Capacity - 1
    /\ Absent \notin Values

VARIABLES hash,     \* slot(id), the home slot of an id
          table,    \* keys_, values_ and state_
          arrivals  \* history: the ids in the table, in the order they were inserted

idVars == <<hash, table, arrivals>>

Positions == 0 .. Capacity - 1

EmptyTable == [p \in Positions |-> EmptySlot]

IdInit ==
    /\ hash \in [Ids -> Homes]
    /\ table = EmptyTable
    /\ arrivals = <<>>

Next1(p) == (p + 1) % Capacity

Probed(id, k) == (hash[id] + k) % Capacity

\* How many probes into t until an empty slot or the id itself; Capacity when there is neither.
Probes(t, id) ==
    Min({Capacity} \cup {k \in Positions : \/ t[Probed(id, k)] = EmptySlot
                                           \/ t[Probed(id, k)].key = id})

At(t, id) == Probed(id, Probes(t, id))

Full(t, id) == Probes(t, id) = Capacity

Find(id) ==
    IF Full(table, id) \/ table[At(table, id)] = EmptySlot THEN Absent
    ELSE table[At(table, id)].value

\* The table after an insert of an id it does not hold.
Inserted(t, id, v) == [t EXCEPT ![At(t, id)] = [key |-> id, value |-> v]]

Insert(id, v) ==
    /\ ~Full(table, id) /\ table[At(table, id)] = EmptySlot
    /\ table' = Inserted(table, id, v)
    /\ arrivals' = Append(arrivals, id)
    /\ UNCHANGED hash

\* A duplicate id, or a full table: insert() returns false.
InsertRefused(id) ==
    /\ Full(table, id) \/ table[At(table, id)] # EmptySlot
    /\ UNCHANGED idVars

\* Wrong: the chain is taken not to wrap around the end of the table.
MoveBackUnwrapped(i, j, h) == h <= i

\* Must the element at j, whose home is h, move back into the hole at i?
MoveBack(i, j, h) == IF i <= j THEN h <= i \/ h > j ELSE h <= i /\ h > j

\* Walk forward from the hole at i, having looked at the slots up to j.
RECURSIVE ShiftBack(_, _, _)
ShiftBack(t, i, j) ==
    LET n == Next1(j)
    IN  IF t[n] = EmptySlot THEN [t EXCEPT ![i] = EmptySlot]
        ELSE IF MoveBack(i, n, hash[t[n].key]) THEN ShiftBack([t EXCEPT ![i] = t[n]], n, n)
        ELSE ShiftBack(t, i, n)

Erase(id) ==
    /\ Find(id) # Absent
    /\ table' = ShiftBack(table, At(table, id), At(table, id))
    /\ arrivals' = SelectSeq(arrivals, LAMBDA a : a # id)
    /\ UNCHANGED hash

-----------------------------------------------------------------------------
(* Properties. *)

\* "It leaves the table in the exact state it would have been in had the key never been inserted"
\* (order_id_map.hpp:88-89): the table is what inserting the present ids, in their order, gives.
RECURSIVE InsertAll(_, _)
InsertAll(t, ids) ==
    IF ids = <<>> THEN t ELSE InsertAll(Inserted(t, Head(ids), Find(Head(ids))), Tail(ids))
AsIfNeverInserted == table = InsertAll(EmptyTable, arrivals)
=============================================================================
