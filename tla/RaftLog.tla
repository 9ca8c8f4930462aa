------------------------------- MODULE RaftLog -------------------------------
(***************************************************************************)
(* The contents of a Raft log: a map from indexes to entries, of which a   *)
(* prefix may have been purged.                                            *)
(***************************************************************************)
EXTENDS Integers

CONSTANTS
  MaxIndex,   \* bound on log indexes, which start at 0
  MaxTerm,    \* bound on terms
  MaxBatch    \* bound on the entries of one append call

ASSUME RaftLogAssumption ==
  /\ MaxIndex \in Nat
  /\ MaxTerm \in Nat
  /\ MaxBatch \in Nat

-----------------------------------------------------------------------------
Index == 0..MaxIndex

Term == 1..MaxTerm

(* The contents of a BTreeMap from indexes to entries.                     *)
Entries == UNION {[I -> Term] : I \in SUBSET Index}

(* BTreeMap::insert of every entry of es, and removal of the keys K.       *)
Insert(l, es) ==
  [i \in DOMAIN l \cup DOMAIN es |-> IF i \in DOMAIN es THEN es[i] ELSE l[i]]

Remove(l, K) == [i \in DOMAIN l \ K |-> l[i]]

From(l, index) == {i \in DOMAIN l : i >= index}

UpTo(l, index) == {i \in DOMAIN l : i <= index}

(* The entries behind the purged prefix, without a gap.                    *)
Contiguous(l, purged) ==
  \A i \in DOMAIN l : /\ i > purged
                      /\ \A j \in (purged + 1)..i : j \in DOMAIN l

(* Terms do not decrease along the log, and do not exceed the vote's.      *)
Ordered(l, v) ==
  \A i \in DOMAIN l : l[i] <= v /\ \A j \in DOMAIN l : j < i => l[j] <= l[i]

(* es continues the log l that was purged up to `purged'.                  *)
Continues(es, l, purged, v) ==
  /\ \E first, last \in Index :
       /\ first <= last /\ last - first < MaxBatch
       /\ DOMAIN es = first..last
       /\ first > purged
       /\ \A i \in DOMAIN l : i < first
       /\ first = purged + 1 \/ first - 1 \in DOMAIN l
  /\ Ordered(Insert(l, es), v)
=============================================================================
