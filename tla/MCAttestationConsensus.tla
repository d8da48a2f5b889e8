----------------------- MODULE MCAttestationConsensus -----------------------
(* AttestationConsensus for TLC: hosts and AttestationData are model values *)
(* given in the configuration.                                             *)
EXTENDS AttestationConsensus, TLC

\* The configuration uses the default threshold.
ASSUME Threshold = MajorityOf(Cardinality(Host))
=============================================================================
