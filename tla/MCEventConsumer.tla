-------------------------- MODULE MCEventConsumer --------------------------
(* Events for EventConsumer: blocks b1 and b2, and validator x slashed. *)
EXTENDS EventConsumer, TLC

CONSTANTS n1, n2, b1, b2, x

Head1 == [kind |-> "head", key |-> b1, slot |-> 0]
Head2 == [kind |-> "head", key |-> b2, slot |-> 1]
\* The chain reorganizes to b1, seen one slot later.
Reorg1 == [kind |-> "reorg", key |-> b1, slot |-> 1]
Slashing == [kind |-> "slashing", key |-> x, slot |-> 0]

AllEvents == {Head1, Head2, Reorg1, Slashing}

NodeSymmetry == Permutations({n1, n2})
=============================================================================
