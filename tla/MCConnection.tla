---------------------------- MODULE MCConnection ----------------------------
(***************************************************************************)
(* The connection and the bounds are given in the configuration.           *)
(***************************************************************************)
EXTENDS Connection
=============================================================================
