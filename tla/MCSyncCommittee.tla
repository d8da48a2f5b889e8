-------------------------- MODULE MCSyncCommittee --------------------------
(* Model values and committees for SyncCommittee. *)
EXTENDS SyncCommittee, TLC

CONSTANTS v1, h1

\* v1 is in the committee of the first period only.
EndingCommittee(period) == IF period = 0 THEN {v1} ELSE {}
=============================================================================
