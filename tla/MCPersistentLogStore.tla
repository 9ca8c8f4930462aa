------------------------ MODULE MCPersistentLogStore ------------------------
(***************************************************************************)
(* The bounds and the shard are given in the configurations.               *)
(***************************************************************************)
EXTENDS PersistentLogStore
=============================================================================
