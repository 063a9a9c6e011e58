----------------------------- MODULE MCStorage ------------------------------
(***************************************************************************)
(* Small instances of Storage for TLC.                                     *)
(***************************************************************************)
EXTENDS Storage, TLC

CONSTANTS m1, v1, t1, t2, r1, k1, a, b

(* Callers and times are interchangeable.                                  *)
Symmetry == Permutations({a, b}) \cup Permutations({t1, t2})
=============================================================================
