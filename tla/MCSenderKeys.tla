---------------------------- MODULE MCSenderKeys ----------------------------
(***************************************************************************)
(* Small instances of SenderKeys for TLC.                                  *)
(***************************************************************************)
EXTENDS SenderKeys, TLC

CONSTANTS r1, r2, k1, k2, k3

(* Receivers and keys are interchangeable.                                 *)
Symmetry == Permutations(Receivers) \cup Permutations(Keys)
=============================================================================
