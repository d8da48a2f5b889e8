-------------------------- MODULE MCBlockProposal --------------------------
(* Model values and proposers for BlockProposal. *)
EXTENDS BlockProposal, TLC

CONSTANTS v1, v2, r1, r2

\* Under r1, v1 proposes in slots 1 and 2, on both sides of an epoch boundary; under
\* r2, v2 proposes in slot 2 and v1 in slot 3.
MovingProposer(root, slot) ==
    CASE root = r1 /\ slot \in {1, 2} -> v1
      [] root = r2 /\ slot = 2 -> v2
      [] root = r2 /\ slot = 3 -> v1
      [] OTHER -> NoValidator
=============================================================================
