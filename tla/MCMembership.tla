---------------------------- MODULE MCMembership ----------------------------
(* Node 1 is there from the start and knows node 2 as a peer; node 3 is    *)
(* unknown to both.                                                        *)
EXTENDS Membership, TLC

MCPeers == (1 :> {2}) @@ (2 :> {1}) @@ (3 :> {1, 2})
=============================================================================
