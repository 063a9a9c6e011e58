----------------------------- MODULE MCCleanup ------------------------------
(***************************************************************************)
(* A small instance of Cleanup for TLC.                                    *)
(***************************************************************************)
EXTENDS Cleanup

CONSTANTS m1, q1, x1, k1, s1, r1, r2

MCRole  == [c \in Conns |-> IF c = s1 THEN "Sender" ELSE "Receiver"]
MCOwned == [c \in Conns |-> IF c = r1 THEN Queues ELSE {}]
MCRoute == [m \in Msgs |-> <<x1, k1>>]
=============================================================================
