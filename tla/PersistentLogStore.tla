------------------------- MODULE PersistentLogStore -------------------------
(***************************************************************************)
(* The log store of one shard on one node: a redb file, written by one     *)
(* transaction per call, opened again after every crash.                   *)
(*                                                                         *)
(* redb and the file system are external: a transaction that commits       *)
(* replaces the file's contents atomically and durably, one that does not  *)
(* leaves no trace, and after a commit that reports an error either may be *)
(* the case.  openraft, the caller, is external too: it makes one call at  *)
(* a time, under the rules of module LogStore, and stops for good on a     *)
(* StorageError.                                                           *)
(***************************************************************************)
EXTENDS RaftLog

CONSTANTS
  shard_id,   \* the shard; shard 0 takes over the file of older versions
  Absent      \* a file that does not exist

VARIABLES
  legacy,   \* {data_dir}/raft-log.redb: the file of older versions
  file,     \* {data_dir}/shard-{shard_id}/raft-log.redb, as committed
  pc,       \* where the store is: starting, or in which stage of a call
  call,     \* the call in progress
  txn,      \* contents of the write transaction in progress
  acked,    \* entries openraft was told are flushed, and still wants
  voted,    \* the vote of the last save_vote that returned Ok
  core      \* last log index openraft works with, -1 for None (external)

vars == <<legacy, file, pc, call, txn, acked, voted, core>>

hist == <<acked, voted, core>>

-----------------------------------------------------------------------------
Content == [vote : 0..MaxTerm, log : Entries, last_purged : -1..MaxIndex]

ASSUME PersistentLogStoreAssumption ==
  /\ shard_id \in Nat
  /\ Absent \notin Content

Empty == [vote |-> 0, log |-> [i \in {} |-> 0], last_purged |-> -1]

Max(S) == CHOOSE x \in S : \A y \in S : y <= x

(* Faulty variant: the first entry of the table.                           *)
last_log_idFirst(l) ==
  IF DOMAIN l = {} THEN -1 ELSE CHOOSE x \in DOMAIN l : \A y \in DOMAIN l : x <= y

(* The last_log_id part of get_log_state: the last entry of the table.     *)
last_log_id(l) == IF DOMAIN l = {} THEN -1 ELSE Max(DOMAIN l)

(* What this shard's store holds, wherever it is.                          *)
Stored ==
  CASE file # Absent -> file
    [] file = Absent /\ legacy # Absent /\ shard_id = 0 -> legacy
    [] OTHER -> Empty

(* A new data directory, or one that an older version wrote.               *)
Init ==
  /\ legacy \in {Absent} \cup
               {c \in Content : /\ Contiguous(c.log, c.last_purged) /\ Ordered(c.log, c.vote)
                                /\ c.last_purged >= 0 => c.vote >= 1}
  /\ file = Absent
  /\ pc = "down"
  /\ call = "none"
  /\ txn = Empty
  /\ acked = Stored.log
  /\ voted = Stored.vote
  /\ core = -1

-----------------------------------------------------------------------------
(* PersistentLogStore::new.                                                *)

(* Faulty variant: the legacy file is forgotten.                           *)
MigrateForgotten ==
  /\ pc = "down"
  /\ pc' = "create"
  /\ UNCHANGED <<legacy, file, call, txn, hist>>

(* The legacy file is renamed if the shard has none yet.                   *)
Migrate ==
  /\ pc = "down"
  /\ IF shard_id = 0 /\ legacy # Absent /\ file = Absent
     THEN file' = legacy /\ legacy' = Absent
     ELSE UNCHANGED <<legacy, file>>
  /\ pc' = "create"
  /\ UNCHANGED <<call, txn, hist>>

Create ==
  /\ pc = "create"
  /\ file' = IF file = Absent THEN Empty ELSE file
  /\ pc' = "tables"
  /\ UNCHANGED <<legacy, call, txn, hist>>

(* The tables exist after one more transaction; openraft then resumes from *)
(* get_log_state.                                                          *)
Open ==
  /\ pc = "tables"
  /\ pc' = "idle"
  /\ core' = last_log_id(file.log)
  /\ UNCHANGED <<legacy, file, call, txn, acked, voted>>

-----------------------------------------------------------------------------
(* The calls: everything up to commit() happens inside one transaction.    *)

Begin(name, content) ==
  /\ pc = "idle"
  /\ call' = name
  /\ txn' = content
  /\ pc' = "txn"
  /\ UNCHANGED <<legacy, file, voted>>

save_voteBegin(v) ==
  /\ Begin("save_vote", [file EXCEPT !.vote = v])
  /\ v >= file.vote
  /\ UNCHANGED <<acked, core>>

appendBegin(es) ==
  /\ Begin("append", [file EXCEPT !.log = Insert(file.log, es)])
  /\ Continues(es, file.log, file.last_purged, file.vote)
  /\ core' = Max(DOMAIN es)
  /\ UNCHANGED acked

(* openraft no longer wants the entries it asks to remove.                 *)
truncateBegin(index) ==
  /\ Begin("truncate", [file EXCEPT !.log = Remove(file.log, From(file.log, index))])
  /\ acked' = Remove(acked, From(acked, index))
  /\ core' = IF core < index THEN core ELSE index - 1

(* Faulty variant: the exclusive range `..log_id.index'.                   *)
purgeBeginExclusive(index) ==
  /\ Begin("purge", [file EXCEPT !.log = Remove(file.log, UpTo(file.log, index - 1)),
                                 !.last_purged = index])
  /\ index > file.last_purged
  /\ acked' = Remove(acked, UpTo(acked, index))
  /\ core' = IF core < index THEN index ELSE core

(* Faulty variant: the next index to keep is stored as last_purged.        *)
purgeBeginNext(index) ==
  /\ Begin("purge", [file EXCEPT !.log = Remove(file.log, UpTo(file.log, index)),
                                 !.last_purged = index + 1])
  /\ index > file.last_purged
  /\ acked' = Remove(acked, UpTo(acked, index))
  /\ core' = IF core < index THEN index ELSE core

purgeBegin(index) ==
  /\ Begin("purge", [file EXCEPT !.log = Remove(file.log, UpTo(file.log, index)),
                                 !.last_purged = index])
  /\ index > file.last_purged
  /\ acked' = Remove(acked, UpTo(acked, index))
  /\ core' = IF core < index THEN index ELSE core

(* Faulty variant: purge removes the entries in a transaction of its own.  *)
CommitInTwo ==
  /\ pc = "txn"
  /\ IF call = "purge" /\ file.log # txn.log
     THEN file' = [file EXCEPT !.log = txn.log] /\ UNCHANGED pc
     ELSE file' = txn /\ pc' = "committed"
  /\ UNCHANGED <<legacy, call, txn, hist>>

Commit ==
  /\ pc = "txn"
  /\ file' = txn
  /\ pc' = "committed"
  /\ UNCHANGED <<legacy, call, txn, hist>>

(* An error before commit() returns: `?' drops the transaction.  openraft  *)
(* is told nothing else and stops.                                         *)
Abort ==
  /\ pc = "txn"
  /\ file' \in {file, txn}
  /\ pc' = "failed"
  /\ UNCHANGED <<legacy, call, txn, hist>>

(* append reports the flush to its callback; the other calls return.       *)
Return ==
  /\ pc = "committed"
  /\ acked' = IF call = "append" THEN file.log ELSE acked
  /\ voted' = IF call = "save_vote" THEN file.vote ELSE voted
  /\ call' = "none"
  /\ pc' = "idle"
  /\ UNCHANGED <<legacy, file, txn, core>>

(* The process ends, anywhere, and starts again.                           *)
Crash ==
  /\ pc # "down"
  /\ pc' = "down"
  /\ call' = "none"
  /\ UNCHANGED <<legacy, file, txn, hist>>

Next ==
  \/ Migrate \/ Create \/ Open
  \/ \E v \in Term : save_voteBegin(v)
  \/ \E es \in Entries : appendBegin(es)
  \/ \E index \in Index : truncateBegin(index) \/ purgeBegin(index)
  \/ Commit \/ Abort \/ Return \/ Crash

Spec == Init /\ [][Next]_vars

-----------------------------------------------------------------------------
(* Properties.                                                             *)

Stage == {"down", "create", "tables", "idle", "txn", "committed", "failed"}

(* Every variable keeps its type.                                          *)
TypeOK ==
  /\ legacy \in Content \cup {Absent}
  /\ file \in Content \cup {Absent}
  /\ pc \in Stage
  /\ call \in {"none", "save_vote", "append", "truncate", "purge"}
  /\ txn \in Content
  /\ acked \in Entries
  /\ voted \in 0..MaxTerm
  /\ core \in -1..MaxIndex

(* Whatever crashes, every entry reported as flushed to append's callback  *)
(* and every vote that save_vote returned Ok for is in the file that the   *)
(* next start opens, the file of an older version included.                *)
FlushedIsDurable ==
  /\ \A i \in DOMAIN acked : i \in DOMAIN Stored.log /\ Stored.log[i] = acked[i]
  /\ voted <= Stored.vote

(* The stored log has no gap, neither inside nor behind the purged prefix: *)
(* entries and last_purged change in one transaction.                      *)
NoHole == Contiguous(Stored.log, Stored.last_purged)

(* The store on disk behaves as the in-memory LogStore that never crashes: *)
(* every transaction is one of its calls, everything else is invisible.    *)
Promise ==
  INSTANCE LogStore WITH vote <- Stored.vote, log <- Stored.log,
                         last_purged <- Stored.last_purged

KeepsPromise == Promise!Spec

(* Restarts included, openraft never works with a last log index below     *)
(* what it has flushed, nor below what it has purged as long as an entry   *)
(* is left: get_log_state looks at the entries alone, and reports None     *)
(* when all of them are purged.                                            *)
PositionSurvives ==
  pc = "idle" => /\ \A i \in DOMAIN acked : i <= core
                 /\ DOMAIN file.log # {} => file.last_purged <= core
=============================================================================
