----------------------------- MODULE MCWritePath -----------------------------
(* Two nodes with one client each: a sends a write and a read on node 1,   *)
(* b a write on node 2.                                                    *)
EXTENDS WritePath, TLC

MCNode == {1, 2}
MCConn == {"a", "b"}
MCMsg == {"a1", "a2", "b1"}
MCDatabase == {"db"}
MCHome == ("a" :> 1) @@ ("b" :> 2)
MCPath == ("a" :> "db") @@ ("b" :> "db")
MCFrom == ("a1" :> "a") @@ ("a2" :> "a") @@ ("b1" :> "b")
MCTag == ("a1" :> 3) @@ ("a2" :> 1) @@ ("b1" :> 4)
=============================================================================
