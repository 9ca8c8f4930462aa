---------------------------- MODULE MCShardConfig ----------------------------
(***************************************************************************)
(* Two nodes.  In TwoVoters they are the cluster.  In OneVoter node 2 is a *)
(* learner, which may lag behind and be brought up to date by a snapshot.  *)
(* In Laggard a third voter, which is not looked at, makes a quorum with   *)
(* node 1, so that node 2 may lag behind and be elected.                   *)
(***************************************************************************)
EXTENDS ShardConfig, SequencesExt

TwoVoters == {{1, 2}}

OneVoter == {{1}}

Laggard == {{1}, {1, 2}}

Bounds(e, r, b, f, a) == [elect |-> e, restart |-> r, build |-> b, fail |-> f, all |-> a]

Faulty == Bounds(1, 1, 1, 1, 2)

OneElection == Bounds(1, 0, 0, 0, 1)

TwoBuilds == Bounds(0, 0, 2, 0, 2)

(* Between entries, a state machine holds the effect of every command up   *)
(* to last_applied.                                                        *)
MachineIsPrefix ==
  \A n \in Node :
    worker[n] = "idle" =>
      LET i == FoldLeft(Updated, New, SubSeq(log, 1, inner[n].last_applied))
      IN  /\ inner[n].active_shards = i.active_shards
          /\ inner[n].shard_routes = i.shard_routes
=============================================================================
