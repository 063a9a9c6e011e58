--------------------------- MODULE MCConnections ----------------------------
(***************************************************************************)
(* Small instances of Connections for TLC.                                 *)
(***************************************************************************)
EXTENDS Connections

CONSTANTS a1, a2, b1, u1, x1, alice, bob, carol, ip1, ip2

MCCnOf == [c \in Conns |-> CASE c \in {a1, a2} -> alice
                             [] c = b1 -> bob
                             [] c = u1 -> carol
                             [] OTHER -> NoCN]

MCIpOf == [c \in Conns |-> IF c \in {a1, u1, x1} THEN ip1 ELSE ip2]
=============================================================================
