------------------------ MODULE MCAttestationService ------------------------
(* Model values and duty schedules for AttestationService. *)
EXTENDS AttestationService, TLC

CONSTANTS v1, v2, r1, r2

\* Two validators that swap their slots when the dependent root changes: v1 has
\* the first slot of every epoch under r1, the last one under r2.
SwappingSchedule(root, epoch, v) ==
    epoch * SlotsPerEpoch + (IF (root = r1) = (v = v1) THEN 0 ELSE SlotsPerEpoch - 1)

\* A validator with the last slot of epoch 0 and the first slot of epoch 1.
BoundarySchedule(root, epoch, v) ==
    epoch * SlotsPerEpoch + (IF (root = r1) = (epoch % 2 = 0) THEN SlotsPerEpoch - 1 ELSE 0)

\* The earlier run left nothing, or for each epoch whose root it left all duties of it.
CompleteCacheInit ==
    /\ Init
    /\ \A e \in {0, 1} :
           attesterDuties[e] = IF dependentRoots[e] = NoRoot THEN {}
                               ELSE DutiesOf(dependentRoots[e], e, Validators)

CompleteCacheSpec == CompleteCacheInit /\ [][Next]_vars
=============================================================================
