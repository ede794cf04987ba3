------------------------------- MODULE Channel -------------------------------
(***************************************************************************)
(* A bounded first-in first-out channel: what either ring promises to one  *)
(* consumer.  Nothing is lost, repeated, reordered or made up, and at most *)
(* Capacity values are under way.                                          *)
(***************************************************************************)
EXTENDS Integers, Sequences

CONSTANTS Values, Capacity

VARIABLES sent, received

chVars == <<sent, received>>

ChInit == sent = <<>> /\ received = <<>>

Send ==
    /\ Len(sent) - Len(received) < Capacity
    /\ \E v \in Values : sent' = Append(sent, v)
    /\ UNCHANGED received

Receive ==
    /\ Len(received) < Len(sent)
    /\ received' = Append(received, sent[Len(received) + 1])
    /\ UNCHANGED sent

ChNext == Send \/ Receive

ChSpec == ChInit /\ [][ChNext]_chVars
=============================================================================
