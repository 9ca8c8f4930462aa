------------------------------ MODULE LogStore ------------------------------
(***************************************************************************)
(* What openraft is promised by a shard's log store, stated as the         *)
(* in-memory LogStore: every call takes effect at once, under one lock,    *)
(* and nothing is ever lost.                                               *)
(*                                                                         *)
(* The caller is openraft (external).  Votes only advance, entries are     *)
(* appended behind the last one, in terms that do not decrease and do not  *)
(* exceed the vote's, and purging only moves forward.                      *)
(***************************************************************************)
EXTENDS RaftLog

VARIABLES
  vote,         \* term of the saved vote, 0 for None
  log,          \* log[i]: term of the entry at index i (its payload is left out)
  last_purged   \* index up to which the log is purged, -1 for None

vars == <<vote, log, last_purged>>

-----------------------------------------------------------------------------
(* LogStore::new is empty; a store that keeps its contents on disk starts  *)
(* with what an earlier process left there.                                *)
Init ==
  /\ vote \in 0..MaxTerm
  /\ log \in Entries
  /\ last_purged \in -1..MaxIndex
  /\ Contiguous(log, last_purged)

save_vote(v) ==
  /\ v >= vote
  /\ vote' = v
  /\ UNCHANGED <<log, last_purged>>

append(es) ==
  /\ Continues(es, log, last_purged, vote)
  /\ log' = Insert(log, es)
  /\ UNCHANGED <<vote, last_purged>>

truncate(index) ==
  /\ log' = Remove(log, From(log, index))
  /\ UNCHANGED <<vote, last_purged>>

purge(index) ==
  /\ index > last_purged
  /\ log' = Remove(log, UpTo(log, index))
  /\ last_purged' = index
  /\ UNCHANGED vote

Next ==
  \/ \E v \in Term : save_vote(v)
  \/ \E es \in Entries : append(es)
  \/ \E index \in Index : truncate(index) \/ purge(index)

Spec == Init /\ [][Next]_vars
=============================================================================
