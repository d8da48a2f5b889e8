-------------------------- MODULE AttestationHosts --------------------------
(***************************************************************************)
(* What AttestationConsensus and AttestationDataProvider have in common:   *)
(* the beacon nodes that are asked for AttestationData, and how many of    *)
(* them must agree.                                                        *)
(***************************************************************************)
EXTENDS Naturals, FiniteSets

CONSTANTS
    Host,       \* hostnames of the configured beacon nodes (args.py: unique)
    Data,       \* AttestationData values
    NoData,     \* no AttestationData: None
    Threshold   \* _attestation_consensus_threshold

\* args._process_attestation_consensus_threshold without a value.
MajorityOf(n) == (n \div 2) + 1

ASSUME HostAssumption == IsFiniteSet(Host)
\* args._process_attestation_consensus_threshold: 0 < value <= len(urls).
ASSUME ThresholdAssumption == Threshold \in 1..Cardinality(Host)
ASSUME NoDataAssumption == NoData \notin Data

\* Enough hosts to attest with the data they agree on.
Quorum == {Q \in SUBSET Host : Cardinality(Q) >= Threshold}
=============================================================================
