------------------------------ MODULE MCSender ------------------------------
(***************************************************************************)
(* Small instances of Sender for TLC.                                      *)
(***************************************************************************)
EXTENDS Sender
=============================================================================
