--------------------------- MODULE MCBeaconNodes ---------------------------
EXTENDS BeaconNodes
MCMain == {1, 2}
MCProposal == {}
MCValues == {0, 1}
=============================================================================
