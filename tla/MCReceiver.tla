----------------------------- MODULE MCReceiver -----------------------------
(***************************************************************************)
(* Small instances of Receiver for TLC.                                    *)
(***************************************************************************)
EXTENDS Receiver, TLC

CONSTANTS m1, m2, m3

(* Messages that decrypt are interchangeable.                              *)
Symmetry == Permutations(Msgs \ Bad)
=============================================================================
