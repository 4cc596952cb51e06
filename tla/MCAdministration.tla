-------------------------- MODULE MCAdministration --------------------------
(* A small instance of Administration for TLC.                              *)
EXTENDS Administration, TLC

CONSTANTS t1, t2, client1, client9, k1, k2
=============================================================================
