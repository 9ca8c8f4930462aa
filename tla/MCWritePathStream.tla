-------------------------- MODULE MCWritePathStream --------------------------
(* Client a on node 1 sends two writes; clients b and c on node 2 send a   *)
(* read and nothing, but tell its forwarder the database path, c after a   *)
(* restart.                                                                *)
EXTENDS WritePath, TLC

MCNode == {1, 2}
MCConn == {"a", "b", "c"}
MCMsg == {"a1", "a2", "b1"}
MCDatabase == {"db"}
MCHome == ("a" :> 1) @@ ("b" :> 2) @@ ("c" :> 2)
MCPath == ("a" :> "db") @@ ("b" :> "db") @@ ("c" :> "db")
MCFrom == ("a1" :> "a") @@ ("a2" :> "a") @@ ("b1" :> "b")
MCTag == ("a1" :> 3) @@ ("a2" :> 4) @@ ("b1" :> NoTag)
=============================================================================
