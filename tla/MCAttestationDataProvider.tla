--------------------- MODULE MCAttestationDataProvider ---------------------
(* AttestationData of a correct chain and of a wrong one. *)
EXTENDS AttestationDataProvider, TLC

CONSTANTS h1, h2, h3, b1, good, bad, c1, c2

Checkpoint(epoch, root) == [epoch |-> epoch, root |-> root]
Attestation(block, source, target) ==
    [block |-> block, source |-> source, target |-> target]

Correct == Attestation(b1, Checkpoint(0, good), Checkpoint(1, good))
\* The same block and source, with a wrong target of a later epoch.
Wrong == Attestation(b1, Checkpoint(0, good), Checkpoint(2, bad))

CorrectAndWrong == {Correct, Wrong}

Symmetry == Permutations(Host) \cup Permutations(Call)
=============================================================================
