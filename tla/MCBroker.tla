------------------------------ MODULE MCBroker ------------------------------
(***************************************************************************)
(* Small instances of Broker for TLC.                                      *)
(***************************************************************************)
EXTENDS Broker, SequencesExt

CONSTANTS m1, m2, q1, q2, x1, k1, k2, s1, s2, r1, r2

(* s1 and s2 publish, r1 and r2 consume.                                   *)
MCRole == [c \in Conns |-> IF c \in {s1, s2} THEN "Sender" ELSE "Receiver"]

(* The queues of the model carry the name of r1.                           *)
MCOwned == [c \in Conns |-> IF c = r1 THEN Queues ELSE {}]

(* One routing key: every bound queue gets every message.                  *)
MCRoute == [m \in Msgs |-> <<x1, k1>>]

(* Two routing keys: m1 may fan out to queues that m2 does not reach.      *)
MCRouteTwo == [m \in Msgs |-> IF m = m1 THEN <<x1, k1>> ELSE <<x1, k2>>]

SymMsgs == Permutations(Msgs)

(* Keep, written for the proofs, is the filter of the standard modules.    *)
ASSUME KeepIsSelectSeq ==
  \A s \in BoundedSeq(1 .. 3, 4), T \in SUBSET (1 .. 3) :
    Keep(s, T) = SelectSeq(s, LAMBDA x : x \in T)
=============================================================================
