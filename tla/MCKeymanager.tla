---------------------------- MODULE MCKeymanager ----------------------------
(* Model values for Keymanager. *)
EXTENDS Keymanager, TLC

CONSTANTS k1, k2, k3, good, other, bad, fee, x

Symmetric == Permutations({k1, k2, k3})
=============================================================================
