----------------------- MODULE PersistentLogStoreProofs -----------------------
(***************************************************************************)
(* Proofs about PersistentLogStore, for logs, terms and batches of any     *)
(* size and any number of crashes.                                         *)
(***************************************************************************)
EXTENDS PersistentLogStore, WellFoundedInduction, TLAPS

(* The tableau prover first: most steps need no arithmetic.                *)
USE ZenonT(5), SMT

-----------------------------------------------------------------------------
(* The operators on logs.                                                  *)

LEMMA EntriesFacts ==
  ASSUME NEW l \in Entries
  PROVE  DOMAIN l \subseteq Index /\ \A i \in DOMAIN l : l[i] \in Term
BY DEF Entries

LEMMA InsertType ==
  ASSUME NEW l \in Entries, NEW es \in Entries
  PROVE  Insert(l, es) \in Entries
<1>1. Insert(l, es) \in [DOMAIN l \cup DOMAIN es -> Term]
  BY EntriesFacts DEF Insert
<1>2. DOMAIN l \cup DOMAIN es \in SUBSET Index
  BY EntriesFacts
<1>. QED
  BY <1>1, <1>2 DEF Entries

LEMMA RemoveType ==
  ASSUME NEW l \in Entries, NEW K
  PROVE  Remove(l, K) \in Entries
<1>1. Remove(l, K) \in [DOMAIN l \ K -> Term]
  BY EntriesFacts DEF Remove
<1>2. DOMAIN l \ K \in SUBSET Index
  BY EntriesFacts
<1>. QED
  BY <1>1, <1>2 DEF Entries

(* What openraft appends leaves no gap.                                    *)
LEMMA InsertContiguous ==
  ASSUME NEW l \in Entries, NEW es \in Entries, NEW p \in -1..MaxIndex, NEW v,
         Contiguous(l, p), Continues(es, l, p, v)
  PROVE  Contiguous(Insert(l, es), p)
<1>0. DOMAIN l \subseteq Index /\ DOMAIN es \subseteq Index /\ Index \subseteq Int /\ p \in Int
  BY EntriesFacts, RaftLogAssumption DEF Index
<1>1. PICK first \in Index, last \in Index :
        /\ DOMAIN es = first..last /\ first > p
        /\ first = p + 1 \/ first - 1 \in DOMAIN l
  BY DEF Continues
<1>2. DOMAIN Insert(l, es) = DOMAIN l \cup DOMAIN es
  BY DEF Insert
<1> SUFFICES ASSUME NEW i \in DOMAIN l \cup DOMAIN es
             PROVE  i > p /\ \A j \in (p + 1)..i : j \in DOMAIN l \cup DOMAIN es
  BY <1>2 DEF Contiguous
<1>3. CASE i \in DOMAIN l
  BY <1>3 DEF Contiguous
<1>4. CASE i \in DOMAIN es
  <2>1. first \in Int /\ last \in Int /\ i \in Int /\ first <= i /\ i <= last
    BY <1>0, <1>1, <1>4
  <2>2. ASSUME NEW j \in (p + 1)..i PROVE j \in DOMAIN l \cup DOMAIN es
    <3>1. CASE j >= first
      BY <1>0, <1>1, <2>1, <3>1
    <3>2. CASE j < first
      <4>1. first - 1 \in DOMAIN l /\ j \in (p + 1)..(first - 1)
        BY <1>0, <1>1, <2>1, <3>2
      <4>. QED
        BY <4>1 DEF Contiguous
    <3>. QED
      BY <1>0, <2>1, <3>1, <3>2
  <2>. QED
    BY <1>0, <1>1, <2>1, <2>2
<1>. QED
  BY <1>3, <1>4

(* Truncating and purging leave no gap.                                    *)
LEMMA RemoveContiguous ==
  ASSUME NEW l \in Entries, NEW p \in -1..MaxIndex, NEW index \in Index, Contiguous(l, p)
  PROVE  /\ Contiguous(Remove(l, From(l, index)), p)
         /\ index > p => Contiguous(Remove(l, UpTo(l, index)), index)
<1>0. DOMAIN l \subseteq Int /\ index \in Int /\ p \in Int
  BY EntriesFacts, RaftLogAssumption DEF Index
<1>1. /\ DOMAIN Remove(l, From(l, index)) = {i \in DOMAIN l : i < index}
      /\ DOMAIN Remove(l, UpTo(l, index)) = {i \in DOMAIN l : i > index}
  BY <1>0 DEF Remove, From, UpTo
<1>2. Contiguous(Remove(l, From(l, index)), p)
  BY <1>0, <1>1, SMT DEF Contiguous
<1>3. ASSUME index > p PROVE Contiguous(Remove(l, UpTo(l, index)), index)
  BY <1>0, <1>1, <1>3, SMT DEF Contiguous
<1>. QED
  BY <1>2, <1>3

-----------------------------------------------------------------------------
(* The inductive invariant.                                                *)

Running == {"tables", "idle", "txn", "committed", "failed"}

(* The legacy file has been taken over before the shard's file is created. *)
StartInv ==
  /\ (pc = "create" /\ file = Absent) => (legacy = Absent \/ shard_id # 0)
  /\ pc \in Running => file # Absent

(* The transaction in progress is one call of the promised store.          *)
TxnOfCall ==
  \/ \E v \in Term : v >= file.vote /\ txn = [file EXCEPT !.vote = v]
  \/ \E es \in Entries : /\ Continues(es, file.log, file.last_purged, file.vote)
                         /\ txn = [file EXCEPT !.log = Insert(file.log, es)]
  \/ \E index \in Index : txn = [file EXCEPT !.log = Remove(file.log, From(file.log, index))]
  \/ \E index \in Index :
       /\ index > file.last_purged
       /\ txn = [file EXCEPT !.log = Remove(file.log, UpTo(file.log, index)),
                             !.last_purged = index]

(* The contents c hold everything openraft relies on.                      *)
Holds(c) ==
  /\ \A i \in DOMAIN acked : i \in DOMAIN c.log /\ c.log[i] = acked[i]
  /\ voted <= c.vote

StoreInv ==
  /\ TypeOK
  /\ StartInv
  /\ legacy # Absent => Contiguous(legacy.log, legacy.last_purged)
  /\ Contiguous(Stored.log, Stored.last_purged)
  /\ Holds(Stored)
  /\ pc = "txn" => /\ TxnOfCall
                   /\ Contiguous(txn.log, txn.last_purged)
                   /\ Holds(txn)

LEMMA AbsentFacts == Absent \notin Content /\ Empty \in Content
<1>1. Empty.log \in [{} -> Term] /\ {} \in SUBSET Index
  BY DEF Empty
<1>2. Empty.log \in Entries
  BY <1>1 DEF Entries
<1>3. 0 \in 0..MaxTerm /\ -1 \in -1..MaxIndex
  BY RaftLogAssumption
<1>. QED
  BY <1>2, <1>3, PersistentLogStoreAssumption DEF Empty, Content

LEMMA StoredType ==
  ASSUME TypeOK
  PROVE  Stored \in Content
BY AbsentFacts DEF Stored, TypeOK

LEMMA ContentFacts ==
  ASSUME NEW c \in Content
  PROVE  c.vote \in 0..MaxTerm /\ c.log \in Entries /\ c.last_purged \in -1..MaxIndex
BY DEF Content

(* A non-empty set of indexes has a largest element (by the least-number   *)
(* principle on the distance from MaxIndex).                               *)
LEMMA MaxOfIndexes ==
  ASSUME NEW S \in SUBSET Index, S # {}
  PROVE  Max(S) \in S /\ \A y \in S : y <= Max(S)
<1> DEFINE R == OpToRel(<, Nat)
           T == {MaxIndex - i : i \in S}
<1>0. MaxIndex \in Nat /\ \A i \in S : i \in Nat /\ i <= MaxIndex
  BY RaftLogAssumption DEF Index
<1>1. T \subseteq Nat /\ T # {}
  BY <1>0, SMT
<1>2. \A x, y \in Nat : y < x => <<y, x>> \in R
  BY DEF OpToRel
<1>3. IsWellFoundedOn(R, Nat)
  BY NatLessThanWellFounded
<1> HIDE DEF R
<1>4. \E x \in T : \A y \in T : ~ (<<y, x>> \in R)
  BY <1>1, <1>3, WFMin
<1>5. PICK x \in T : \A y \in T : ~ (y < x)
  BY <1>1, <1>2, <1>4
<1>6. PICK m \in S : x = MaxIndex - m
  OBVIOUS
<1>7. ASSUME NEW i \in S PROVE i <= m
  <2>1. ~ (MaxIndex - i < MaxIndex - m)
    BY <1>5, <1>6
  <2>2. i \in Nat /\ m \in Nat
    BY <1>0
  <2>. QED
    BY <1>0, <2>1, <2>2
<1>8. \E z \in S : \A y \in S : y <= z
  BY <1>7
<1>. QED
  BY <1>8 DEF Max

LEMMA LastLogIdType ==
  ASSUME NEW l \in Entries
  PROVE  last_log_id(l) \in -1..MaxIndex
<1>1. CASE DOMAIN l = {}
  BY <1>1, RaftLogAssumption DEF last_log_id
<1>2. CASE DOMAIN l # {}
  <2>1. Max(DOMAIN l) \in Index
    BY <1>2, EntriesFacts, MaxOfIndexes
  <2>. QED
    BY <1>2, <2>1, RaftLogAssumption DEF last_log_id, Index
<1>. QED
  BY <1>1, <1>2

-----------------------------------------------------------------------------
(* The invariant holds initially.                                          *)

LEMMA InitStoreInv == Init => StoreInv
<1> SUFFICES ASSUME Init PROVE StoreInv
  OBVIOUS
<1>1. legacy \in Content \cup {Absent} /\ file = Absent /\ pc = "down" /\ txn = Empty
  BY DEF Init
<1>2. Stored \in Content
  BY <1>1, AbsentFacts DEF Stored
<1>3. TypeOK
  BY <1>1, <1>2, AbsentFacts, ContentFacts, RaftLogAssumption, SMT DEF Init, TypeOK, Stage
<1>4. StartInv
  BY <1>1 DEF StartInv, Running
<1>5. legacy # Absent => Contiguous(legacy.log, legacy.last_purged)
  BY DEF Init
<1>6. Contiguous(Stored.log, Stored.last_purged)
  <2>1. Contiguous(Empty.log, Empty.last_purged)
    BY DEF Contiguous, Empty
  <2>. QED
    BY <1>1, <1>5, <2>1 DEF Stored
<1>7. Holds(Stored)
  <2>1. acked = Stored.log /\ voted = Stored.vote /\ Stored.vote \in Int
    BY <1>2, ContentFacts, RaftLogAssumption DEF Init
  <2>. QED
    BY <2>1 DEF Holds
<1>. QED
  BY <1>1, <1>3, <1>4, <1>5, <1>6, <1>7 DEF StoreInv

-----------------------------------------------------------------------------
(* Starting: the contents are the same before and after.                   *)

LEMMA MigrateStored ==
  ASSUME StoreInv, Migrate
  PROVE  StoreInv' /\ Stored' = Stored
<1>1. Stored' = Stored /\ legacy' \in {legacy, Absent} /\ file' \in Content \cup {Absent}
  BY AbsentFacts DEF StoreInv, TypeOK, Migrate, Stored
<1>2. TypeOK'
  BY <1>1 DEF StoreInv, TypeOK, Migrate, hist, Stage
<1>3. StartInv'
  BY AbsentFacts DEF StoreInv, TypeOK, StartInv, Migrate, Running
<1>4. Holds(Stored)'
  BY <1>1 DEF StoreInv, Holds, Migrate, hist
<1>. QED
  BY <1>1, <1>2, <1>3, <1>4 DEF StoreInv, Migrate

LEMMA CreateStored ==
  ASSUME StoreInv, Create
  PROVE  StoreInv' /\ Stored' = Stored
<1>1. Stored' = Stored /\ file' \in Content
  BY AbsentFacts DEF StoreInv, TypeOK, StartInv, Create, Stored
<1>2. TypeOK'
  BY <1>1 DEF StoreInv, TypeOK, Create, hist, Stage
<1>3. StartInv'
  BY <1>1, AbsentFacts DEF StartInv, Create
<1>4. Holds(Stored)'
  BY <1>1 DEF StoreInv, Holds, Create, hist
<1>. QED
  BY <1>1, <1>2, <1>3, <1>4 DEF StoreInv, Create

LEMMA OpenStored ==
  ASSUME StoreInv, Open
  PROVE  StoreInv' /\ Stored' = Stored
<1>1. Stored' = Stored
  BY DEF Open, Stored
<1>2. file \in Content
  BY DEF StoreInv, TypeOK, StartInv, Running, Open
<1>3. core' \in -1..MaxIndex
  BY <1>2, ContentFacts, LastLogIdType DEF Open
<1>4. TypeOK'
  BY <1>3 DEF StoreInv, TypeOK, Open, Stage
<1>5. StartInv'
  BY DEF StoreInv, StartInv, Open, Running
<1>6. Holds(Stored)'
  BY <1>1 DEF StoreInv, Holds, Open
<1>. QED
  BY <1>1, <1>4, <1>5, <1>6 DEF StoreInv, Open

-----------------------------------------------------------------------------
(* Beginning a call: only the transaction changes.                         *)

LEMMA BeginStored ==
  ASSUME StoreInv, NEW name \in {"save_vote", "append", "truncate", "purge"},
         NEW c \in Content, Begin(name, c),
         acked' \in Entries, core' \in -1..MaxIndex,
         \A i \in DOMAIN acked' : i \in DOMAIN acked /\ acked'[i] = acked[i],
         Contiguous(c.log, c.last_purged),
         TxnOfCall',
         \A i \in DOMAIN acked' : i \in DOMAIN c.log /\ c.log[i] = acked'[i],
         voted <= c.vote
  PROVE  StoreInv' /\ Stored' = Stored
<1>1. Stored' = Stored /\ txn' = c /\ voted' = voted /\ pc' = "txn"
  BY DEF Begin, Stored
<1>2. TypeOK'
  BY <1>1 DEF StoreInv, TypeOK, Begin, Stage
<1>3. StartInv'
  BY DEF StoreInv, StartInv, Begin, Running
<1>4. Holds(Stored)'
  BY <1>1 DEF StoreInv, Holds
<1>5. Holds(txn)'
  BY <1>1 DEF Holds
<1>6. Contiguous(txn.log, txn.last_purged)'
  BY <1>1
<1>7. (legacy # Absent => Contiguous(legacy.log, legacy.last_purged))'
  BY DEF StoreInv, Begin
<1>8. Contiguous(Stored.log, Stored.last_purged)'
  BY <1>1 DEF StoreInv
<1>. QED
  BY <1>1, <1>2, <1>3, <1>4, <1>5, <1>6, <1>7, <1>8 DEF StoreInv

(* An idle store has its file open.                                        *)
LEMMA IdleFacts ==
  ASSUME StoreInv, pc = "idle"
  PROVE  /\ file \in Content /\ Stored = file
         /\ file.vote \in 0..MaxTerm /\ file.log \in Entries
         /\ file.last_purged \in -1..MaxIndex
         /\ Contiguous(file.log, file.last_purged)
         /\ Holds(file)
         /\ acked \in Entries /\ voted \in 0..MaxTerm /\ core \in -1..MaxIndex
<1>1. file \in Content /\ Stored = file
  BY DEF StoreInv, TypeOK, StartInv, Running, Stored
<1>. QED
  BY <1>1, ContentFacts DEF StoreInv, TypeOK

LEMMA SaveVoteStored ==
  ASSUME StoreInv, NEW v \in Term, save_voteBegin(v)
  PROVE  StoreInv' /\ Stored' = Stored
<1> DEFINE c == [file EXCEPT !.vote = v]
<1>0. pc = "idle" /\ Begin("save_vote", c) /\ v >= file.vote /\ UNCHANGED <<acked, core>>
  BY DEF save_voteBegin, Begin
<1>1. v \in 0..MaxTerm
  BY RaftLogAssumption DEF Term
<1>2. c \in Content /\ c.log = file.log /\ c.vote = v /\ c.last_purged = file.last_purged
  BY <1>0, <1>1, IdleFacts DEF Content
<1>3. TxnOfCall'
  <2>1. txn' = c /\ file' = file
    BY <1>0 DEF Begin
  <2>. QED
    BY <1>0, <2>1 DEF TxnOfCall
<1>4. voted <= v
  BY <1>0, <1>1, IdleFacts, RaftLogAssumption DEF Holds
<1> HIDE DEF c
<1>5. \A i \in DOMAIN acked' : i \in DOMAIN c.log /\ c.log[i] = acked'[i]
  BY <1>0, <1>2, IdleFacts DEF Holds
<1>6. acked' \in Entries /\ core' \in -1..MaxIndex /\ Contiguous(c.log, c.last_purged)
  BY <1>0, <1>2, IdleFacts
<1>. QED
  BY <1>0, <1>2, <1>3, <1>4, <1>5, <1>6, BeginStored

LEMMA AppendStored ==
  ASSUME StoreInv, NEW es \in Entries, appendBegin(es)
  PROVE  StoreInv' /\ Stored' = Stored
<1> DEFINE c == [file EXCEPT !.log = Insert(file.log, es)]
<1>0. /\ pc = "idle" /\ Begin("append", c) /\ acked' = acked /\ core' = Max(DOMAIN es)
      /\ Continues(es, file.log, file.last_purged, file.vote)
  BY DEF appendBegin, Begin
<1>1. Insert(file.log, es) \in Entries
  BY <1>0, IdleFacts, InsertType
<1>2. /\ c \in Content /\ c.log = Insert(file.log, es) /\ c.vote = file.vote
      /\ c.last_purged = file.last_purged
  BY <1>0, <1>1, IdleFacts DEF Content
<1>3. TxnOfCall'
  <2>1. txn' = c /\ file' = file
    BY <1>0 DEF Begin
  <2>. QED
    BY <1>0, <2>1 DEF TxnOfCall
<1> HIDE DEF c
<1>4. DOMAIN es # {} /\ \A i \in DOMAIN file.log : i \notin DOMAIN es
  <2>1. PICK first \in Index, last \in Index :
          first <= last /\ DOMAIN es = first..last /\ \A i \in DOMAIN file.log : i < first
    BY <1>0 DEF Continues
  <2>2. first \in Int /\ last \in Int /\ DOMAIN file.log \subseteq Int
    BY <1>0, IdleFacts, EntriesFacts, RaftLogAssumption DEF Index
  <2>3. first \in DOMAIN es
    BY <2>1, <2>2
  <2>. QED
    BY <2>1, <2>2, <2>3
<1>5. \A i \in DOMAIN acked' : i \in DOMAIN c.log /\ c.log[i] = acked'[i]
  BY <1>0, <1>2, <1>4, IdleFacts DEF Holds, Insert
<1>6. core' \in -1..MaxIndex
  <2>1. Max(DOMAIN es) \in Index
    BY <1>4, EntriesFacts, MaxOfIndexes
  <2>. QED
    BY <1>0, <2>1, RaftLogAssumption DEF Index
<1>7. Contiguous(c.log, c.last_purged)
  BY <1>0, <1>2, IdleFacts, InsertContiguous
<1>8. acked' \in Entries /\ voted <= c.vote
  BY <1>0, <1>2, IdleFacts DEF Holds
<1>. QED
  BY <1>0, <1>2, <1>3, <1>5, <1>6, <1>7, <1>8, BeginStored

LEMMA TruncateStored ==
  ASSUME StoreInv, NEW index \in Index, truncateBegin(index)
  PROVE  StoreInv' /\ Stored' = Stored
<1> DEFINE c == [file EXCEPT !.log = Remove(file.log, From(file.log, index))]
<1>0. /\ pc = "idle" /\ Begin("truncate", c) /\ acked' = Remove(acked, From(acked, index))
      /\ core' = IF core < index THEN core ELSE index - 1
  BY DEF truncateBegin, Begin
<1>1. Remove(file.log, From(file.log, index)) \in Entries /\ acked' \in Entries
  BY <1>0, IdleFacts, RemoveType
<1>2. /\ c \in Content /\ c.log = Remove(file.log, From(file.log, index))
      /\ c.vote = file.vote /\ c.last_purged = file.last_purged
  BY <1>0, <1>1, IdleFacts DEF Content
<1>3. TxnOfCall'
  <2>1. txn' = c /\ file' = file
    BY <1>0 DEF Begin
  <2>. QED
    BY <1>0, <2>1 DEF TxnOfCall
<1> HIDE DEF c
<1>4. \A i \in DOMAIN acked' : /\ i \in DOMAIN acked /\ acked'[i] = acked[i]
                              /\ i \in DOMAIN c.log /\ c.log[i] = acked'[i]
  BY <1>0, <1>2, IdleFacts DEF Holds, Remove, From
<1>5. core' \in -1..MaxIndex
  BY <1>0, IdleFacts, RaftLogAssumption DEF Index
<1>6. Contiguous(c.log, c.last_purged)
  BY <1>0, <1>2, IdleFacts, RemoveContiguous
<1>7. voted <= c.vote
  BY <1>0, <1>2, IdleFacts DEF Holds
<1>. QED
  BY <1>0, <1>1, <1>2, <1>3, <1>4, <1>5, <1>6, <1>7, BeginStored

LEMMA PurgeStored ==
  ASSUME StoreInv, NEW index \in Index, purgeBegin(index)
  PROVE  StoreInv' /\ Stored' = Stored
<1> DEFINE c == [file EXCEPT !.log = Remove(file.log, UpTo(file.log, index)),
                             !.last_purged = index]
<1>0. /\ pc = "idle" /\ Begin("purge", c) /\ acked' = Remove(acked, UpTo(acked, index))
      /\ core' = (IF core < index THEN index ELSE core) /\ index > file.last_purged
  BY DEF purgeBegin, Begin
<1>1. /\ Remove(file.log, UpTo(file.log, index)) \in Entries /\ acked' \in Entries
      /\ index \in -1..MaxIndex
  BY <1>0, IdleFacts, RemoveType, RaftLogAssumption DEF Index
<1>2. /\ c \in Content /\ c.log = Remove(file.log, UpTo(file.log, index))
      /\ c.vote = file.vote /\ c.last_purged = index
  BY <1>0, <1>1, IdleFacts DEF Content
<1>3. TxnOfCall'
  <2>1. txn' = c /\ file' = file
    BY <1>0 DEF Begin
  <2>. QED
    BY <1>0, <2>1 DEF TxnOfCall
<1> HIDE DEF c
<1>4. \A i \in DOMAIN acked' : /\ i \in DOMAIN acked /\ acked'[i] = acked[i]
                              /\ i \in DOMAIN c.log /\ c.log[i] = acked'[i]
  BY <1>0, <1>2, IdleFacts DEF Holds, Remove, UpTo
<1>5. core' \in -1..MaxIndex
  BY <1>0, <1>1, IdleFacts
<1>6. Contiguous(c.log, c.last_purged)
  BY <1>0, <1>2, IdleFacts, RemoveContiguous
<1>7. voted <= c.vote
  BY <1>0, <1>2, IdleFacts DEF Holds
<1>. QED
  BY <1>0, <1>1, <1>2, <1>3, <1>4, <1>5, <1>6, <1>7, BeginStored

-----------------------------------------------------------------------------
(* Ending a call: the file keeps its contents or takes the transaction's.  *)

LEMMA EndStored ==
  ASSUME StoreInv, pc = "txn", file' \in {file, txn}, pc' \in {"committed", "failed"},
         UNCHANGED <<legacy, call, txn, hist>>
  PROVE  StoreInv' /\ Stored' = file' /\ Stored = file /\ TxnOfCall
<1>1. file \in Content /\ txn \in Content
  BY DEF StoreInv, TypeOK, StartInv, Running
<1>2. Stored = file /\ Stored' = file' /\ file' \in Content
  BY <1>1, AbsentFacts DEF Stored
<1>3. TypeOK'
  BY <1>2 DEF StoreInv, TypeOK, hist, Stage
<1>4. StartInv'
  BY <1>2, AbsentFacts DEF StartInv
<1>5. Holds(Stored)'
  BY <1>2 DEF StoreInv, Holds, hist
<1>6. Contiguous(Stored.log, Stored.last_purged)'
  BY <1>2 DEF StoreInv
<1>. QED
  BY <1>2, <1>3, <1>4, <1>5, <1>6 DEF StoreInv

LEMMA ReturnStored ==
  ASSUME StoreInv, Return
  PROVE  StoreInv' /\ Stored' = Stored
<1>1. Stored' = Stored /\ Stored = file /\ file \in Content
  BY DEF StoreInv, TypeOK, StartInv, Running, Return, Stored
<1>2. file.log \in Entries /\ file.vote \in 0..MaxTerm
  BY <1>1, ContentFacts
<1>3. TypeOK'
  BY <1>2 DEF StoreInv, TypeOK, Return, Stage
<1>4. StartInv'
  BY DEF StoreInv, StartInv, Return, Running
<1>5. Holds(Stored)'
  <2>1. file.vote <= file.vote
    BY <1>2, RaftLogAssumption
  <2>. QED
    BY <1>1, <2>1 DEF StoreInv, Holds, Return
<1>. QED
  BY <1>1, <1>3, <1>4, <1>5 DEF StoreInv, Return

LEMMA CrashStored ==
  ASSUME StoreInv, Crash
  PROVE  StoreInv' /\ Stored' = Stored
<1>1. Stored' = Stored
  BY DEF Crash, Stored
<1>2. TypeOK'
  BY DEF StoreInv, TypeOK, Crash, hist, Stage
<1>3. StartInv'
  BY DEF StartInv, Crash, Running
<1>4. Holds(Stored)'
  BY <1>1 DEF StoreInv, Holds, Crash, hist
<1>. QED
  BY <1>1, <1>2, <1>3, <1>4 DEF StoreInv, Crash

(* Every step keeps the invariant, and what is stored changes only as a    *)
(* call of the promised store changes it.                                  *)
LEMMA StepStored ==
  ASSUME StoreInv, [Next]_vars
  PROVE  StoreInv' /\ (Stored' = Stored \/ (Stored = file /\ Stored' = txn /\ TxnOfCall))
<1>1. CASE Migrate
  BY <1>1, MigrateStored
<1>2. CASE Create
  BY <1>2, CreateStored
<1>3. CASE Open
  BY <1>3, OpenStored
<1>4. CASE \E v \in Term : save_voteBegin(v)
  BY <1>4, SaveVoteStored
<1>5. CASE \E es \in Entries : appendBegin(es)
  BY <1>5, AppendStored
<1>6. CASE \E index \in Index : truncateBegin(index)
  BY <1>6, TruncateStored
<1>7. CASE \E index \in Index : purgeBegin(index)
  BY <1>7, PurgeStored
<1>8. CASE Commit
  <2>1. /\ pc = "txn" /\ file' = txn /\ pc' = "committed"
        /\ UNCHANGED <<legacy, call, txn, hist>>
    BY <1>8 DEF Commit
  <2>. QED
    BY <2>1, EndStored
<1>9. CASE Abort
  <2>1. /\ pc = "txn" /\ file' \in {file, txn} /\ pc' = "failed"
        /\ UNCHANGED <<legacy, call, txn, hist>>
    BY <1>9 DEF Abort
  <2>. QED
    BY <2>1, EndStored
<1>10. CASE Return
  BY <1>10, ReturnStored
<1>11. CASE Crash
  BY <1>11, CrashStored
<1>12. CASE UNCHANGED vars
  <2>1. Stored' = Stored
    BY <1>12 DEF vars, Stored
  <2>2. TypeOK' /\ StartInv'
    BY <1>12 DEF StoreInv, TypeOK, StartInv, vars
  <2>3. Holds(Stored)' /\ (pc = "txn" => Holds(txn))'
    BY <1>12, <2>1 DEF StoreInv, Holds, vars
  <2>4. (pc = "txn" => TxnOfCall)'
    BY <1>12 DEF StoreInv, TxnOfCall, vars
  <2>. QED
    BY <1>12, <2>1, <2>2, <2>3, <2>4 DEF StoreInv, vars
<1>. QED
  BY <1>1, <1>2, <1>3, <1>4, <1>5, <1>6, <1>7, <1>8, <1>9, <1>10, <1>11, <1>12 DEF Next

LEMMA StoreInvariant == Spec => []StoreInv
<1>1. Init => StoreInv
  BY InitStoreInv
<1>2. StoreInv /\ [Next]_vars => StoreInv'
  BY StepStored
<1>. QED
  BY <1>1, <1>2, PTL DEF Spec

-----------------------------------------------------------------------------
(* The theorems.                                                           *)

(* Every variable of the redb store keeps its type, for logs of any size   *)
(* and any number of crashes.                                              *)
THEOREM StoreTypeCorrect == Spec => []TypeOK
<1>1. StoreInv => TypeOK
  BY DEF StoreInv
<1>. QED
  BY <1>1, StoreInvariant, PTL

(* What append reported as flushed and save_vote as saved is in the file   *)
(* that the next start opens, wherever PersistentLogStore crashes: inside  *)
(* a transaction, between commit and callback, or during the migration.    *)
THEOREM FlushedSurvivesCrash == Spec => []FlushedIsDurable
<1>1. StoreInv => FlushedIsDurable
  BY DEF StoreInv, Holds, FlushedIsDurable
<1>. QED
  BY <1>1, StoreInvariant, PTL

(* The log that PersistentLogStore holds never has a gap, neither between  *)
(* entries nor behind META_LAST_PURGED, since purge changes both in one    *)
(* transaction.                                                            *)
THEOREM LogHasNoHole == Spec => []NoHole
<1>1. StoreInv => NoHole
  BY DEF StoreInv, NoHole
<1>. QED
  BY <1>1, StoreInvariant, PTL

(* No entry of the file, once a call has returned, is beyond the index     *)
(* that openraft works with.                                               *)
Within(l) == \A i \in DOMAIN l : i <= core

PositionInv ==
  /\ pc \in {"idle", "committed"} => Within(file.log)
  /\ pc = "txn" => Within(txn.log)

LEMMA BeginPosition ==
  ASSUME StoreInv, pc = "idle", Within(file.log),
         \/ \E v \in Term : save_voteBegin(v)
         \/ \E es \in Entries : appendBegin(es)
         \/ \E index \in Index : truncateBegin(index) \/ purgeBegin(index)
  PROVE  pc' = "txn" /\ \A i \in DOMAIN txn'.log : i <= core'
<1>0. file \in Content /\ file.log \in Entries /\ core \in Int
  BY IdleFacts, RaftLogAssumption
<1>1. DOMAIN file.log \subseteq Int /\ \A i \in DOMAIN file.log : i <= core
  BY <1>0, EntriesFacts, RaftLogAssumption DEF Index, Within
<1>2. ASSUME NEW v \in Term, save_voteBegin(v)
      PROVE  pc' = "txn" /\ \A i \in DOMAIN txn'.log : i <= core'
  <2>1. txn'.log = file.log /\ core' = core /\ pc' = "txn"
    BY <1>0, <1>2 DEF save_voteBegin, Begin, Content
  <2>. QED
    BY <1>1, <2>1
<1>3. ASSUME NEW es \in Entries, appendBegin(es)
      PROVE  pc' = "txn" /\ \A i \in DOMAIN txn'.log : i <= core'
  <2>1. /\ txn'.log = Insert(file.log, es) /\ core' = Max(DOMAIN es) /\ pc' = "txn"
        /\ Continues(es, file.log, file.last_purged, file.vote)
    BY <1>0, <1>3 DEF appendBegin, Begin, Content
  <2>2. PICK first \in Index, last \in Index :
          first <= last /\ DOMAIN es = first..last /\ \A i \in DOMAIN file.log : i < first
    BY <2>1 DEF Continues
  <2>3. first \in Int /\ last \in Int /\ DOMAIN es \in SUBSET Index /\ first \in DOMAIN es
    BY <2>2, EntriesFacts, RaftLogAssumption DEF Index
  <2>4. Max(DOMAIN es) \in DOMAIN es /\ \A i \in DOMAIN es : i <= Max(DOMAIN es)
    BY <2>3, MaxOfIndexes
  <2>5. Max(DOMAIN es) \in Int /\ first <= Max(DOMAIN es)
    BY <2>2, <2>3, <2>4
  <2>6. \A i \in DOMAIN file.log : i <= Max(DOMAIN es)
    BY <1>1, <2>2, <2>3, <2>5
  <2>. QED
    BY <2>1, <2>4, <2>6 DEF Insert
<1>4. ASSUME NEW index \in Index, truncateBegin(index)
      PROVE  pc' = "txn" /\ \A i \in DOMAIN txn'.log : i <= core'
  <2>1. /\ txn'.log = Remove(file.log, From(file.log, index)) /\ pc' = "txn"
        /\ core' = IF core < index THEN core ELSE index - 1
    BY <1>0, <1>4 DEF truncateBegin, Begin, Content
  <2>2. \A i \in DOMAIN txn'.log : i \in DOMAIN file.log /\ ~ (i >= index)
    BY <2>1 DEF Remove, From
  <2>. QED
    BY <1>0, <1>1, <2>1, <2>2, RaftLogAssumption DEF Index
<1>5. ASSUME NEW index \in Index, purgeBegin(index)
      PROVE  pc' = "txn" /\ \A i \in DOMAIN txn'.log : i <= core'
  <2>1. /\ txn'.log = Remove(file.log, UpTo(file.log, index)) /\ pc' = "txn"
        /\ core' = IF core < index THEN index ELSE core
    BY <1>0, <1>5 DEF purgeBegin, Begin, Content
  <2>2. \A i \in DOMAIN txn'.log : i \in DOMAIN file.log
    BY <2>1 DEF Remove
  <2>. QED
    BY <1>0, <1>1, <2>1, <2>2, RaftLogAssumption DEF Index
<1>. QED
  BY <1>2, <1>3, <1>4, <1>5

(* After every call and every restart, the last log index that openraft    *)
(* has from get_log_state and from its own calls covers all it was told is *)
(* flushed, and all it has purged while an entry is left.                  *)
THEOREM PositionIsKept == Spec => []PositionSurvives
<1>1. Init => PositionInv
  BY DEF Init, PositionInv
<1>2. StoreInv /\ PositionInv /\ [Next]_vars => PositionInv'
  <2> SUFFICES ASSUME StoreInv, PositionInv, [Next]_vars PROVE PositionInv'
    OBVIOUS
  <2>1. CASE Open
    <3>1. file.log \in Entries
      BY <2>1, ContentFacts DEF Open, StoreInv, TypeOK, StartInv, Running
    <3>2. DOMAIN file.log # {} => \A i \in DOMAIN file.log : i <= Max(DOMAIN file.log)
      BY <3>1, EntriesFacts, MaxOfIndexes
    <3>. QED
      BY <2>1, <3>2 DEF Open, PositionInv, Within, last_log_id
  <2>2. CASE \/ \E v \in Term : save_voteBegin(v)
             \/ \E es \in Entries : appendBegin(es)
             \/ \E index \in Index : truncateBegin(index) \/ purgeBegin(index)
    <3>1. pc = "idle" /\ Within(file.log)
      BY <2>2 DEF save_voteBegin, appendBegin, truncateBegin, purgeBegin, Begin, PositionInv
    <3>2. pc' = "txn" /\ \A i \in DOMAIN txn'.log : i <= core'
      BY <2>2, <3>1, BeginPosition
    <3>. QED
      BY <3>2 DEF PositionInv, Within
  <2>3. CASE Commit \/ Abort \/ Return \/ Crash \/ Migrate \/ Create \/ UNCHANGED vars
    BY <2>3 DEF Commit, Abort, Return, Crash, Migrate, Create, vars, hist, PositionInv, Within
  <2>. QED
    BY <2>1, <2>2, <2>3 DEF Next
<1>3. StoreInv /\ PositionInv => PositionSurvives
  <2> SUFFICES ASSUME StoreInv, PositionInv, pc = "idle"
               PROVE  /\ \A i \in DOMAIN acked : i <= core
                      /\ DOMAIN file.log # {} => file.last_purged <= core
    BY DEF PositionSurvives
  <2>1. /\ file.log \in Entries /\ file.last_purged \in Int /\ core \in Int
        /\ Contiguous(file.log, file.last_purged) /\ Holds(file)
    BY IdleFacts, RaftLogAssumption
  <2>2. DOMAIN file.log \subseteq Int /\ \A i \in DOMAIN file.log : i <= core
    BY <2>1, EntriesFacts, RaftLogAssumption DEF Index, PositionInv, Within
  <2>. QED
    BY <2>1, <2>2, SMT DEF Holds, Contiguous
<1>. QED
  BY <1>1, <1>2, <1>3, StoreInvariant, PTL DEF Spec

(* PersistentLogStore, with its crashes, failed transactions and migration *)
(* of the legacy file, implements the in-memory LogStore that never        *)
(* crashes.                                                                *)
THEOREM ImplementsLogStore == Spec => KeepsPromise
<1>1. StoreInv => Promise!Init
  <2> SUFFICES ASSUME StoreInv PROVE Promise!Init
    OBVIOUS
  <2>1. /\ Stored.vote \in 0..MaxTerm /\ Stored.log \in Entries
        /\ Stored.last_purged \in -1..MaxIndex
        /\ Contiguous(Stored.log, Stored.last_purged)
    BY StoredType, ContentFacts DEF StoreInv
  <2>. QED
    BY <2>1 DEF Promise!Init, Promise!Entries, Promise!Index, Promise!Term,
                Promise!Contiguous, Entries, Index, Term, Contiguous
<1>2. StoreInv /\ [Next]_vars => [Promise!Next]_(Promise!vars)
  <2> SUFFICES ASSUME StoreInv, [Next]_vars PROVE [Promise!Next]_(Promise!vars)
    OBVIOUS
  <2>1. CASE Stored' = Stored
    BY <2>1 DEF Promise!vars
  <2>2. CASE Stored = file /\ Stored' = txn /\ TxnOfCall
    <3>0. file \in Content
      BY <2>2, StoredType DEF StoreInv
    <3>1. CASE \E v \in Term : v >= file.vote /\ txn = [file EXCEPT !.vote = v]
      <4>1. PICK v \in Term : v >= file.vote /\ txn = [file EXCEPT !.vote = v]
        BY <3>1
      <4>2. txn.vote = v /\ txn.log = file.log /\ txn.last_purged = file.last_purged
        BY <3>0, <4>1 DEF Content
      <4>3. Promise!save_vote(v) /\ v \in Promise!Term
        BY <2>2, <4>1, <4>2 DEF Promise!save_vote, Promise!Term, Term
      <4>. QED
        BY <4>3 DEF Promise!Next
    <3>2. CASE \E es \in Entries :
                 /\ Continues(es, file.log, file.last_purged, file.vote)
                 /\ txn = [file EXCEPT !.log = Insert(file.log, es)]
      <4>1. PICK es \in Entries :
              /\ Continues(es, file.log, file.last_purged, file.vote)
              /\ txn = [file EXCEPT !.log = Insert(file.log, es)]
        BY <3>2
      <4>2. /\ txn.vote = file.vote /\ txn.log = Insert(file.log, es)
            /\ txn.last_purged = file.last_purged
        BY <3>0, <4>1 DEF Content
      <4>3. Promise!Insert(file.log, es) = Insert(file.log, es)
        BY DEF Promise!Insert, Insert
      <4>4. Promise!Continues(es, file.log, file.last_purged, file.vote)
        BY <4>1, <4>3 DEF Promise!Continues, Promise!Index, Promise!Ordered,
                          Continues, Index, Ordered
      <4>5. Promise!append(es)
        BY <2>2, <4>2, <4>3, <4>4 DEF Promise!append
      <4>6. es \in Promise!Entries
        BY DEF Promise!Entries, Promise!Index, Promise!Term, Entries, Index, Term
      <4>. QED
        BY <4>5, <4>6 DEF Promise!Next
    <3>3. CASE \E index \in Index :
                 txn = [file EXCEPT !.log = Remove(file.log, From(file.log, index))]
      <4>1. PICK index \in Index :
              txn = [file EXCEPT !.log = Remove(file.log, From(file.log, index))]
        BY <3>3
      <4>2. /\ txn.vote = file.vote /\ txn.last_purged = file.last_purged
            /\ txn.log = Remove(file.log, From(file.log, index))
        BY <3>0, <4>1 DEF Content
      <4>3. Promise!truncate(index) /\ index \in Promise!Index
        BY <2>2, <4>2 DEF Promise!truncate, Promise!Remove, Promise!From, Promise!Index,
                          Remove, From, Index
      <4>. QED
        BY <4>3 DEF Promise!Next
    <3>4. CASE \E index \in Index :
                 /\ index > file.last_purged
                 /\ txn = [file EXCEPT !.log = Remove(file.log, UpTo(file.log, index)),
                                       !.last_purged = index]
      <4>1. PICK index \in Index :
              /\ index > file.last_purged
              /\ txn = [file EXCEPT !.log = Remove(file.log, UpTo(file.log, index)),
                                    !.last_purged = index]
        BY <3>4
      <4>2. /\ txn.vote = file.vote /\ txn.last_purged = index
            /\ txn.log = Remove(file.log, UpTo(file.log, index))
        BY <3>0, <4>1 DEF Content
      <4>3. Promise!purge(index) /\ index \in Promise!Index
        BY <2>2, <4>1, <4>2 DEF Promise!purge, Promise!Remove, Promise!UpTo, Promise!Index,
                                Remove, UpTo, Index
      <4>. QED
        BY <4>3 DEF Promise!Next
    <3>. QED
      BY <2>2, <3>1, <3>2, <3>3, <3>4 DEF TxnOfCall
  <2>. QED
    BY <2>1, <2>2, StepStored
<1>. QED
  BY <1>1, <1>2, StoreInvariant, PTL DEF Spec, KeepsPromise, Promise!Spec
=============================================================================
