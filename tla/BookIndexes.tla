---------------------------- MODULE BookIndexes ----------------------------
(***************************************************************************)
(* The two indexes of one side of the book working together, as            *)
(* restResidual, restoreResting, cancel and matchInto use them: an order   *)
(* enters the id map and its level, and leaves both, found by its id.      *)
(* An id maps to the slot of the level its order rests at.                 *)
(***************************************************************************)
EXTENDS LevelMap, OrderIdMap

vars == <<levelVars, idVars>>

Init == LevelInit /\ IdInit

\* submitEx looks the id up first; the order joins its level and then the id map.
Enter(id, i) == Find(id) = Absent /\ AddOrder(i) /\ Insert(id, i)

\* A second order under a resting id is refused.
Refuse(id) == Find(id) # Absent /\ InsertRefused(id) /\ UNCHANGED levelVars

\* The order is found by its id, unlinked from its level and erased.
Leave(id) == Find(id) # Absent /\ RemoveOrder(Find(id)) /\ Erase(id)

Next == \E id \in Ids : (\E i \in Slots : Enter(id, i)) \/ Refuse(id) \/ Leave(id)

Spec == Init /\ [][Next]_vars

\* The levels hold exactly the orders the id map knows, each where its id leads.
IndexesMatch == \A i \in Slots : count[i] = Cardinality({id \in Ids : Find(id) = i})
=============================================================================
