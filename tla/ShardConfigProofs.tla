-------------------------- MODULE ShardConfigProofs --------------------------
(***************************************************************************)
(* Proofs about ShardConfig, for any nodes, modules and shards and any     *)
(* number of commands, elections, restarts, snapshots and failures.        *)
(***************************************************************************)
EXTENDS ShardConfig, FiniteSetTheorems, SequenceTheorems, TLAPS

(* The tableau prover first: most steps need no arithmetic.                *)
USE ZenonT(5), SMT

-----------------------------------------------------------------------------
(* What install_snapshot replays.                                          *)

(* Listing lists a finite set, every element once.                         *)
LEMMA ListingFacts ==
  ASSUME NEW S, IsFiniteSet(S)
  PROVE  /\ Listing(S) \in Seq(S)
         /\ \A x \in S : \E i \in DOMAIN Listing(S) : Listing(S)[i] = x
         /\ \A i, j \in DOMAIN Listing(S) : Listing(S)[i] = Listing(S)[j] => i = j
<1> DEFINE c == Cardinality(S)
<1>1. c \in Nat /\ ExistsBijection(1..c, S)
  BY FS_CardinalityType
<1>2. Listing(S) \in Bijection(1..c, S)
  BY <1>1 DEF ExistsBijection, Listing
<1>3. Listing(S) \in [1..c -> S]
  BY <1>2 DEF Bijection, Injection
<1>4. Listing(S) \in Seq(S)
  BY <1>1, <1>3, SeqDef
<1>. QED
  BY <1>2, <1>3, <1>4 DEF Bijection, Injection, Surjection, IsInjective

(* The commands for a finite number of shards or modules are finitely      *)
(* many.                                                                   *)
LEMMA CommandsFinite ==
  ASSUME NEW S \in SUBSET Shard, NEW M \in SUBSET Module, NEW r
  PROVE  /\ IsFiniteSet({CreateShard(s) : s \in S})
         /\ IsFiniteSet({AddRoute(m, r[m]) : m \in M})
<1>1. IsFiniteSet(S) /\ IsFiniteSet(M)
  BY ShardConfigAssumption, FS_Subset
<1>2. [s \in S |-> CreateShard(s)] \in Surjection(S, {CreateShard(s) : s \in S})
  BY DEF Surjection
<1>3. [m \in M |-> AddRoute(m, r[m])] \in Surjection(M, {AddRoute(m, r[m]) : m \in M})
  BY DEF Surjection
<1>. QED
  BY <1>1, <1>2, <1>3, FS_Surjection

LEMMA CommandFacts ==
  ASSUME NEW cmd \in Command
  PROVE  /\ cmd.tag \in {"CreateShard", "AddRoute", "RemoveRoute"}
         /\ cmd.tag = "CreateShard" => cmd.shard \in Shard \ {0}
         /\ cmd.tag = "AddRoute" => cmd.module \in Module /\ cmd.shard \in Shard
         /\ cmd.tag = "RemoveRoute" => cmd.module \in Module
BY DEF Command, CreateShard, AddRoute, RemoveRoute

LEMMA MachineFacts ==
  ASSUME NEW i \in Machine
  PROVE  /\ i.last_applied \in 0..MaxCommands /\ i.last_applied \in Nat
         /\ i.active_shards \subseteq Shard \ {0}
         /\ i.shard_routes \in [Module -> Shard \cup {NoRoute}]
BY ShardConfigAssumption, SMT DEF Machine

(* The replay of a machine i creates each of its shards, and says of every *)
(* module that has a route, once, what the route is.  There is nothing     *)
(* else in it.                                                             *)
LEMMA ReplayFacts ==
  ASSUME NEW i \in Machine
  PROVE  /\ Replay(i) \in Seq(Command)
         /\ \A s \in i.active_shards : \E k \in DOMAIN Replay(i) : Replay(i)[k] = CreateShard(s)
         /\ \A m \in Module : i.shard_routes[m] # NoRoute =>
              \E k \in DOMAIN Replay(i) :
                /\ Replay(i)[k] = AddRoute(m, i.shard_routes[m])
                /\ \A j \in DOMAIN Replay(i) : j > k => ~ Concerns(Replay(i)[j], m)
         /\ \A k \in DOMAIN Replay(i) :
              \/ \E s \in i.active_shards : Replay(i)[k] = CreateShard(s)
              \/ \E m \in Module : /\ i.shard_routes[m] # NoRoute
                                   /\ Replay(i)[k] = AddRoute(m, i.shard_routes[m])
<1> DEFINE R == {x \in Module : i.shard_routes[x] # NoRoute}
           C == {CreateShard(s) : s \in i.active_shards}
           A == {AddRoute(m, i.shard_routes[m]) : m \in R}
           c == Listing(C)
           a == Listing(A)
<1>1. Replay(i) = c \o a
  BY DEF Replay
<1>2. IsFiniteSet(C) /\ IsFiniteSet(A)
  <2>1. i.active_shards \in SUBSET Shard /\ R \in SUBSET Module
    BY MachineFacts
  <2>. QED
    BY <2>1, CommandsFinite
<1>3. C \subseteq Command /\ A \subseteq Command
  BY MachineFacts DEF Command
<1>4. /\ c \in Seq(C) /\ \A x \in C : \E k \in DOMAIN c : c[k] = x
      /\ a \in Seq(A) /\ \A x \in A : \E k \in DOMAIN a : a[k] = x
      /\ \A j, k \in DOMAIN a : a[j] = a[k] => j = k
  BY <1>2, ListingFacts
<1> HIDE DEF c, a
<1>5. c \in Seq(Command) /\ a \in Seq(Command)
  BY <1>3, <1>4, SeqMonotonic
<1>6. /\ DOMAIN c = 1..Len(c) /\ Len(c) \in Nat
      /\ DOMAIN a = 1..Len(a) /\ Len(a) \in Nat
  BY <1>5, LenProperties
<1>7. /\ c \o a \in Seq(Command) /\ DOMAIN (c \o a) = 1..(Len(c) + Len(a))
      /\ \A k \in 1..(Len(c) + Len(a)) :
           (c \o a)[k] = IF k <= Len(c) THEN c[k] ELSE a[k - Len(c)]
  BY <1>5, ConcatProperties, LenProperties, SMT
<1>8. ASSUME NEW s \in i.active_shards
      PROVE  \E k \in DOMAIN Replay(i) : Replay(i)[k] = CreateShard(s)
  <2>1. PICK k \in DOMAIN c : c[k] = CreateShard(s)
    BY <1>4
  <2>. QED
    BY <1>1, <1>6, <1>7, <2>1
<1>9. ASSUME NEW m \in Module, i.shard_routes[m] # NoRoute
      PROVE  \E k \in DOMAIN Replay(i) :
               /\ Replay(i)[k] = AddRoute(m, i.shard_routes[m])
               /\ \A j \in DOMAIN Replay(i) : j > k => ~ Concerns(Replay(i)[j], m)
  <2>1. AddRoute(m, i.shard_routes[m]) \in A
    BY <1>9
  <2>2. PICK k \in DOMAIN a : a[k] = AddRoute(m, i.shard_routes[m])
    BY <1>4, <2>1
  <2>3. k + Len(c) \in 1..(Len(c) + Len(a)) /\ (c \o a)[k + Len(c)] = a[k]
    BY <1>6, <1>7, <2>2
  <2>4. ASSUME NEW j \in 1..(Len(c) + Len(a)), j > k + Len(c), Concerns((c \o a)[j], m)
        PROVE  FALSE
    <3>1. j - Len(c) \in DOMAIN a /\ (c \o a)[j] = a[j - Len(c)] /\ j - Len(c) # k
      BY <1>6, <1>7, <2>2, <2>4
    <3>2. a[j - Len(c)] \in A
      BY <1>4, <1>6, <3>1, ElementOfSeq
    <3>3. PICK x \in R : a[j - Len(c)] = AddRoute(x, i.shard_routes[x])
      BY <3>2
    <3>4. x = m
      BY <2>4, <3>1, <3>3 DEF Concerns, AddRoute
    <3>. QED
      BY <1>4, <2>2, <3>1, <3>3, <3>4
  <2>. QED
    BY <1>1, <1>7, <2>2, <2>3, <2>4
<1>10. ASSUME NEW k \in DOMAIN Replay(i)
       PROVE  \/ \E s \in i.active_shards : Replay(i)[k] = CreateShard(s)
              \/ \E m \in Module : /\ i.shard_routes[m] # NoRoute
                                   /\ Replay(i)[k] = AddRoute(m, i.shard_routes[m])
  <2>1. \/ k \in 1..Len(c) /\ Replay(i)[k] = c[k]
        \/ k - Len(c) \in 1..Len(a) /\ Replay(i)[k] = a[k - Len(c)]
    BY <1>1, <1>6, <1>7, <1>10, SMT
  <2>2. Replay(i)[k] \in C \/ Replay(i)[k] \in A
    BY <1>4, <2>1, ElementOfSeq
  <2>. QED
    BY <2>2
<1>. QED
  BY <1>1, <1>7, <1>8, <1>9, <1>10

-----------------------------------------------------------------------------
(* Where a module is routed in the end.                                    *)

LEMMA ConcatFacts ==
  ASSUME NEW q \in Seq(Command), NEW p \in Seq(Command)
  PROVE  /\ q \o p \in Seq(Command)
         /\ DOMAIN q = 1..Len(q) /\ Len(q) \in Nat
         /\ DOMAIN p = 1..Len(p) /\ Len(p) \in Nat
         /\ DOMAIN (q \o p) = 1..(Len(q) + Len(p))
         /\ \A k \in 1..Len(q) : (q \o p)[k] = q[k]
         /\ \A k \in 1..Len(p) : (q \o p)[k + Len(q)] = p[k]
         /\ \A k \in 1..(Len(q) + Len(p)) : k > Len(q) => (q \o p)[k] = p[k - Len(q)]
<1>1. Len(q) \in Nat /\ Len(p) \in Nat /\ DOMAIN q = 1..Len(q) /\ DOMAIN p = 1..Len(p)
  BY LenProperties
<1>2. /\ q \o p \in Seq(Command) /\ Len(q \o p) = Len(q) + Len(p)
      /\ \A k \in 1..(Len(q) + Len(p)) :
           (q \o p)[k] = IF k <= Len(q) THEN q[k] ELSE p[k - Len(q)]
  BY ConcatProperties
<1>3. DOMAIN (q \o p) = 1..(Len(q) + Len(p))
  BY <1>2, LenProperties
<1>. QED
  BY <1>1, <1>2, <1>3

(* Commands that do not concern a module change nothing for it.            *)
LEMMA EndsAtMore ==
  ASSUME NEW q \in Seq(Command), NEW p \in Seq(Command), NEW r, NEW m, NEW t,
         EndsAt(q, r, m, t), \A k \in DOMAIN p : ~ Concerns(p[k], m)
  PROVE  EndsAt(q \o p, r, m, t)
<1>1. ASSUME NEW j \in DOMAIN (q \o p), Concerns((q \o p)[j], m)
      PROVE  j \in DOMAIN q /\ (q \o p)[j] = q[j]
  BY <1>1, ConcatFacts, SMT
<1>2. \A k \in DOMAIN q : k \in DOMAIN (q \o p) /\ (q \o p)[k] = q[k]
  BY ConcatFacts, SMT
<1>. QED
  BY <1>1, <1>2, Zenon DEF EndsAt

(* The last command that concerns a module decides.                        *)
LEMMA EndsAtLast ==
  ASSUME NEW q \in Seq(Command), NEW p \in Seq(Command), NEW r, NEW m, NEW t,
         NEW k \in DOMAIN p, Concerns(p[k], m), Target(p[k]) = t,
         \A j \in DOMAIN p : j > k => ~ Concerns(p[j], m)
  PROVE  EndsAt(q \o p, r, m, t)
<1>1. k + Len(q) \in DOMAIN (q \o p) /\ (q \o p)[k + Len(q)] = p[k]
  BY ConcatFacts, SMT
<1>2. ASSUME NEW j \in DOMAIN (q \o p), j > k + Len(q)
      PROVE  ~ Concerns((q \o p)[j], m)
  <2>1. j - Len(q) \in DOMAIN p /\ j - Len(q) > k /\ (q \o p)[j] = p[j - Len(q)]
    BY <1>2, ConcatFacts, SMT
  <2>. QED
    BY <2>1
<1>. QED
  BY <1>1, <1>2 DEF EndsAt

(* The listener does the first command.                                    *)
LEMMA EndsAtTail ==
  ASSUME NEW q \in Seq(Command), q # <<>>, NEW r \in [Module -> Shard \cup {NoRoute}],
         NEW m \in Module, NEW t, EndsAt(q, r, m, t)
  PROVE  EndsAt(Tail(q), Rerouted(r, Head(q)), m, t)
<1>1. /\ DOMAIN q = 1..Len(q) /\ Len(q) \in Nat /\ Len(q) > 0 /\ Head(q) = q[1]
      /\ DOMAIN Tail(q) = 1..(Len(q) - 1)
      /\ \A k \in 1..(Len(q) - 1) : Tail(q)[k] = q[k + 1]
  BY HeadTailProperties, LenProperties, EmptySeq, SMT
<1>2. Head(q) \in Command
  BY HeadTailProperties
<1>3. CASE \E k \in DOMAIN q : k > 1 /\ Concerns(q[k], m)
  <2>1. PICK k \in DOMAIN q : /\ Concerns(q[k], m) /\ Target(q[k]) = t
                              /\ \A j \in DOMAIN q : j > k => ~ Concerns(q[j], m)
    BY <1>3 DEF EndsAt
  <2>2. k > 1
    BY <1>1, <1>3, <2>1, SMT
  <2>3. k - 1 \in DOMAIN Tail(q) /\ Tail(q)[k - 1] = q[k]
    BY <1>1, <2>2, SMT
  <2>4. \A j \in DOMAIN Tail(q) : j > k - 1 => ~ Concerns(Tail(q)[j], m)
    BY <1>1, <2>1, SMT
  <2>. QED
    BY <2>1, <2>3, <2>4 DEF EndsAt
<1>4. CASE \A k \in DOMAIN q : k > 1 => ~ Concerns(q[k], m)
  <2>1. \A k \in DOMAIN Tail(q) : ~ Concerns(Tail(q)[k], m)
    BY <1>1, <1>4, SMT
  <2>2. CASE Concerns(Head(q), m)
    <3>1. Target(Head(q)) = t
      BY <1>1, <1>4, <2>2, SMT DEF EndsAt
    <3>2. Rerouted(r, Head(q))[m] = t
      BY <1>2, <2>2, <3>1, CommandFacts
      DEF Concerns, Target, Rerouted, add_route, remove_route
    <3>. QED
      BY <2>1, <3>2 DEF EndsAt
  <2>3. CASE ~ Concerns(Head(q), m)
    <3>1. r[m] = t
      BY <1>1, <1>4, <2>3, SMT DEF EndsAt
    <3>2. Rerouted(r, Head(q))[m] = t
      BY <1>2, <2>3, <3>1, CommandFacts
      DEF Concerns, Rerouted, add_route, remove_route
    <3>. QED
      BY <2>1, <3>2 DEF EndsAt
  <2>. QED
    BY <2>2, <2>3
<1>. QED
  BY <1>3, <1>4

(* An old entry and a new one, after a command or a replay is appended.    *)
LEMMA AppendKeeps ==
  ASSUME NEW q \in Seq(Command), NEW cmd \in Command, NEW i \in 1..Len(q)
  PROVE  Append(q, cmd)[i] = q[i]
BY AppendProperties, LenProperties, SMT

LEMMA ConcatOld ==
  ASSUME NEW q \in Seq(Command), NEW p \in Seq(Command)
  PROVE  \A i \in DOMAIN q : i \in DOMAIN (q \o p) /\ (q \o p)[i] = q[i]
BY ConcatFacts, SMT

LEMMA ConcatNew ==
  ASSUME NEW q \in Seq(Command), NEW p \in Seq(Command), NEW k \in DOMAIN p
  PROVE  k + Len(q) \in DOMAIN (q \o p) /\ (q \o p)[k + Len(q)] = p[k]
BY ConcatFacts, SMT

-----------------------------------------------------------------------------
(***************************************************************************)
(* The listener goes through the log in order.  Its first h commands are   *)
(* done, and the sequence q that is coming follows them.                   *)
(***************************************************************************)
Slice(q, lg, h) == \A i \in 1..Len(q) : q[i] = lg[h + i]

(* The shards S and the creation l under way account for the creations.    *)
Creates(S, l, lg, h) ==
  \A s \in Shard : (\E j \in 1..h : lg[j] = CreateShard(s)) =>
    s \in S \/ l = [pc |-> "create", shard |-> s]

(* The routes r are of the log, and their shards were created by then.     *)
Routed(S, r, lg, h) ==
  \A m \in Module, s \in Shard : r[m] = s =>
    \E i \in 1..h : /\ lg[i] = AddRoute(m, s)
                    /\ (\E j \in 1..(i - 1) : lg[j] = CreateShard(s)) => s \in S

LEMMA SliceAppend ==
  ASSUME NEW q \in Seq(Command), NEW lg, NEW h \in Nat, Slice(q, lg, h), NEW cmd \in Command,
         lg[h + (Len(q) + 1)] = cmd
  PROVE  Slice(q \o <<cmd>>, lg, h) /\ Len(q \o <<cmd>>) = Len(q) + 1
<1>1. <<cmd>> \in Seq(Command) /\ Len(<<cmd>>) = 1 /\ <<cmd>>[1] = cmd
  OBVIOUS
<1>2. /\ Len(q) \in Nat /\ Len(q \o <<cmd>>) = Len(q) + 1
      /\ \A k \in 1..Len(q) : (q \o <<cmd>>)[k] = q[k]
      /\ (q \o <<cmd>>)[Len(q) + 1] = cmd
  BY <1>1, ConcatProperties, LenProperties, SMT
<1>3. ASSUME NEW i \in 1..(Len(q) + 1) PROVE (q \o <<cmd>>)[i] = lg[h + i]
  <2>1. i \in 1..Len(q) \/ i = Len(q) + 1
    BY <1>2
  <2>. QED
    BY <1>2, <2>1 DEF Slice
<1>. QED
  BY <1>2, <1>3 DEF Slice

LEMMA SliceTail ==
  ASSUME NEW q \in Seq(Command), q # <<>>, NEW lg, NEW h \in Nat, Slice(q, lg, h)
  PROVE  /\ Slice(Tail(q), lg, h + 1) /\ Head(q) = lg[h + 1]
         /\ Len(q) \in Nat /\ Len(q) >= 1 /\ Len(Tail(q)) = Len(q) - 1
<1>1. /\ Len(q) \in Nat /\ Len(q) >= 1 /\ Len(Tail(q)) = Len(q) - 1 /\ Head(q) = q[1]
      /\ \A k \in 1..(Len(q) - 1) : Tail(q)[k] = q[k + 1]
  BY HeadTailProperties, LenProperties, EmptySeq, SMT
<1>2. ASSUME NEW i \in 1..(Len(q) - 1) PROVE Tail(q)[i] = lg[h + 1 + i]
  <2>1. i + 1 \in 1..Len(q) /\ h + (i + 1) = h + 1 + i
    BY <1>1, SMT
  <2>2. q[i + 1] = lg[h + (i + 1)]
    BY <2>1 DEF Slice
  <2>. QED
    BY <1>1, <2>1, <2>2
<1>. QED
  BY <1>1, <1>2, SMT DEF Slice

LEMMA NothingHandled ==
  ASSUME NEW S, NEW l, NEW lg
  PROVE  /\ 0 \in Nat /\ Len(<<>>) = 0 /\ 0 + Len(<<>>) = 0 /\ Slice(<<>>, lg, 0)
         /\ Creates(S, l, lg, 0) /\ Routed(S, NoRoutes, lg, 0)
<1>1. Len(<<>>) = 0 /\ 1..0 = {}
  OBVIOUS
<1>2. \A m \in Module : NoRoutes[m] \notin Shard
  BY ShardConfigAssumption DEF NoRoutes
<1>. QED
  BY <1>1, <1>2 DEF Slice, Creates, Routed

(* Nothing changes when the log and the shards grow.                       *)
LEMMA DoneGrows ==
  ASSUME NEW h \in Nat, NEW lg, NEW lg2, \A j \in 1..h : lg2[j] = lg[j],
         NEW S, NEW S2, S \subseteq S2, NEW l, NEW l2, NEW r,
         l2 = l \/ l.pc # "create" \/ l.shard \in S2,
         Creates(S, l, lg, h), Routed(S, r, lg, h)
  PROVE  Creates(S2, l2, lg2, h) /\ Routed(S2, r, lg2, h)
<1>2. Creates(S2, l2, lg2, h)
  <2>1. ASSUME NEW s \in Shard, \E j \in 1..h : lg2[j] = CreateShard(s)
        PROVE  s \in S2 \/ l2 = [pc |-> "create", shard |-> s]
    <3>1. s \in S \/ l = [pc |-> "create", shard |-> s]
      BY <2>1 DEF Creates
    <3>2. l = [pc |-> "create", shard |-> s] => l.pc = "create" /\ l.shard = s
      OBVIOUS
    <3>. QED
      BY <3>1, <3>2
  <2>. QED
    BY <2>1 DEF Creates
<1>3. Routed(S2, r, lg2, h)
  <2>1. ASSUME NEW m \in Module, NEW s \in Shard, r[m] = s
        PROVE  \E i \in 1..h : /\ lg2[i] = AddRoute(m, s)
                               /\ (\E j \in 1..(i - 1) : lg2[j] = CreateShard(s)) => s \in S2
    <3>1. PICK i \in 1..h : /\ lg[i] = AddRoute(m, s)
                            /\ (\E j \in 1..(i - 1) : lg[j] = CreateShard(s)) => s \in S
      BY <2>1 DEF Routed
    <3>2. \A j \in 1..(i - 1) : j \in 1..h
      BY <3>1
    <3>. QED
      BY <3>1, <3>2
  <2>. QED
    BY <2>1 DEF Routed
<1>. QED
  BY <1>2, <1>3

(* The next command is handled, and nothing was being created.             *)
LEMMA DoneNext ==
  ASSUME NEW h \in Nat, NEW lg, NEW cmd \in Command, lg[h + 1] = cmd,
         NEW S, NEW l, NEW l2, l.pc # "create",
         NEW r \in [Module -> Shard \cup {NoRoute}], Creates(S, l, lg, h), Routed(S, r, lg, h),
         cmd.tag = "CreateShard" => cmd.shard \in S \/ l2 = [pc |-> "create", shard |-> cmd.shard]
  PROVE  Creates(S, l2, lg, h + 1) /\ Routed(S, Rerouted(r, cmd), lg, h + 1)
<1>1. \A j \in 1..(h + 1) : j \in 1..h \/ j = h + 1
  OBVIOUS
<1>2. \A s \in Shard : (\E j \in 1..h : lg[j] = CreateShard(s)) => s \in S
  <2>1. \A s \in Shard : l # [pc |-> "create", shard |-> s]
    OBVIOUS
  <2>. QED
    BY <2>1 DEF Creates
<1>3. ASSUME NEW s \in Shard, cmd = CreateShard(s)
      PROVE  s \in S \/ l2 = [pc |-> "create", shard |-> s]
  <2>1. cmd.tag = "CreateShard" /\ cmd.shard = s
    BY <1>3 DEF CreateShard
  <2>. QED
    BY <2>1
<1>4. Creates(S, l2, lg, h + 1)
  BY <1>1, <1>2, <1>3 DEF Creates
<1>5. ASSUME NEW m \in Module, NEW s \in Shard, Rerouted(r, cmd)[m] = s
      PROVE  \E i \in 1..(h + 1) : /\ lg[i] = AddRoute(m, s)
                                   /\ (\E j \in 1..(i - 1) : lg[j] = CreateShard(s)) => s \in S
  <2>0. cmd \in Command /\ s # NoRoute
    BY ShardConfigAssumption
  <2>1. cmd = AddRoute(m, s) \/ r[m] = s
    <3>1. CASE cmd.tag = "CreateShard"
      BY <1>5, <3>1 DEF Rerouted
    <3>2. CASE cmd.tag = "AddRoute"
      <4>1. PICK m2 \in Module, s2 \in Shard : cmd = AddRoute(m2, s2)
        BY <2>0, <3>2 DEF Command, CreateShard, AddRoute, RemoveRoute
      <4>2. Rerouted(r, cmd) = [r EXCEPT ![m2] = s2]
        BY <3>2, <4>1 DEF Rerouted, add_route, AddRoute
      <4>. QED
        BY <1>5, <4>1, <4>2
    <3>3. CASE cmd.tag = "RemoveRoute"
      <4>1. Rerouted(r, cmd) = [r EXCEPT ![cmd.module] = NoRoute]
        BY <3>3 DEF Rerouted, remove_route
      <4>. QED
        BY <1>5, <2>0, <4>1
    <3>. QED
      BY <2>0, <3>1, <3>2, <3>3, CommandFacts
  <2>2. CASE cmd = AddRoute(m, s)
    <3>1. h + 1 \in 1..(h + 1) /\ lg[h + 1] = AddRoute(m, s)
      BY <2>2
    <3>2. (\E j \in 1..((h + 1) - 1) : lg[j] = CreateShard(s)) => s \in S
      BY <1>2, SMT
    <3>. QED
      BY <3>1, <3>2
  <2>3. CASE r[m] = s
    <3>1. PICK i \in 1..h : /\ lg[i] = AddRoute(m, s)
                            /\ (\E j \in 1..(i - 1) : lg[j] = CreateShard(s)) => s \in S
      BY <2>3 DEF Routed
    <3>2. i \in 1..(h + 1)
      BY <3>1
    <3>. QED
      BY <3>1, <3>2
  <2>. QED
    BY <2>1, <2>2, <2>3
<1>6. Routed(S, Rerouted(r, cmd), lg, h + 1)
  BY <1>5 DEF Routed
<1>. QED
  BY <1>4, <1>6

-----------------------------------------------------------------------------
(* Conversely, the first h commands account for the pool and the router.   *)

(* Module m is routed to t by the first h commands of lg.                  *)
Stands(lg, h, m, t) ==
  \/ /\ t = NoRoute
     /\ \A i \in 1..h : ~ Concerns(lg[i], m)
  \/ \E i \in 1..h :
       /\ Concerns(lg[i], m) /\ Target(lg[i]) = t
       /\ \A j \in 1..h : j > i => ~ Concerns(lg[j], m)

Exact(S, l, r, lg, h) ==
  /\ Held(S, l) \subseteq Made(lg, h)
  /\ \A m \in Module : Stands(lg, h, m, r[m])

LEMMA ExactNothing ==
  ASSUME NEW l, l.pc # "create", NEW lg
  PROVE  Exact({0}, l, NoRoutes, lg, 0)
<1>1. 1..0 = {}
  OBVIOUS
<1>2. Held({0}, l) \subseteq Made(lg, 0)
  BY DEF Held, Made
<1>3. \A m \in Module : NoRoutes[m] = NoRoute
  BY DEF NoRoutes
<1>. QED
  BY <1>1, <1>2, <1>3 DEF Exact, Stands

LEMMA ExactGrows ==
  ASSUME NEW h \in Nat, NEW lg, NEW lg2, \A j \in 1..h : lg2[j] = lg[j],
         NEW S, NEW S2, NEW l, NEW l2, NEW r,
         Held(S2, l2) \subseteq Held(S, l), Exact(S, l, r, lg, h)
  PROVE  Exact(S2, l2, r, lg2, h)
<1>1. Made(lg2, h) = Made(lg, h)
  BY DEF Made
<1>2. ASSUME NEW m \in Module PROVE Stands(lg2, h, m, r[m])
  <2>1. Stands(lg, h, m, r[m])
    BY DEF Exact
  <2>. QED
    BY <2>1 DEF Stands
<1>. QED
  BY <1>1, <1>2 DEF Exact

LEMMA StandsNext ==
  ASSUME NEW h \in Nat, NEW lg, NEW cmd \in Command, lg[h + 1] = cmd, NEW m \in Module,
         NEW r \in [Module -> Shard \cup {NoRoute}], Stands(lg, h, m, r[m])
  PROVE  Stands(lg, h + 1, m, Rerouted(r, cmd)[m])
<1>1. /\ \A j \in 1..(h + 1) : j \in 1..h \/ j = h + 1
      /\ \A j \in 1..h : j \in 1..(h + 1) /\ ~ (j > h + 1)
      /\ h + 1 \in 1..(h + 1) /\ ~ (h + 1 > h + 1)
  OBVIOUS
<1>2. CASE Concerns(cmd, m)
  <2>1. Rerouted(r, cmd)[m] = Target(cmd)
    BY <1>2, CommandFacts DEF Concerns, Target, Rerouted, add_route, remove_route
  <2>2. \A j \in 1..(h + 1) : j > h + 1 => ~ Concerns(lg[j], m)
    BY <1>1
  <2>. QED
    BY <1>1, <1>2, <2>1, <2>2 DEF Stands
<1>3. CASE ~ Concerns(cmd, m)
  <2>1. Rerouted(r, cmd)[m] = r[m]
    BY <1>3, CommandFacts DEF Concerns, Rerouted, add_route, remove_route
  <2>. QED
    BY <1>1, <1>3, <2>1 DEF Stands
<1>. QED
  BY <1>2, <1>3

LEMMA ExactNext ==
  ASSUME NEW h \in Nat, NEW lg, NEW cmd \in Command, lg[h + 1] = cmd,
         NEW S, NEW l, NEW l2, NEW r \in [Module -> Shard \cup {NoRoute}], Exact(S, l, r, lg, h),
         \A s \in Held(S, l2) : s \in Held(S, l) \/ (s \in Shard /\ cmd = CreateShard(s))
  PROVE  Exact(S, l2, Rerouted(r, cmd), lg, h + 1)
<1>1. h + 1 \in 1..(h + 1) /\ \A j \in 1..h : j \in 1..(h + 1)
  OBVIOUS
<1>2. ASSUME NEW s \in Held(S, l2) PROVE s \in Made(lg, h + 1)
  <2>1. CASE s \in Held(S, l)
    <3>1. s \in Made(lg, h)
      BY <2>1 DEF Exact
    <3>. QED
      BY <1>1, <3>1 DEF Made
  <2>2. CASE s \in Shard /\ cmd = CreateShard(s)
    BY <1>1, <2>2 DEF Made
  <2>. QED
    BY <2>1, <2>2
<1>3. ASSUME NEW m \in Module PROVE Stands(lg, h + 1, m, Rerouted(r, cmd)[m])
  BY StandsNext DEF Exact
<1>. QED
  BY <1>2, <1>3 DEF Exact

(* The same, of the prefix of the log.                                     *)
LEMMA StandsPrefix ==
  ASSUME NEW lg \in Seq(Command), NEW h \in 0..Len(lg), NEW m \in Module, NEW t,
         Stands(lg, h, m, t)
  PROVE  EndsAt(SubSeq(lg, 1, h), NoRoutes, m, t)
<1>1. Len(lg) \in Nat
  BY LenProperties
<1>2. DOMAIN SubSeq(lg, 1, h) = 1..h /\ \A i \in 1..h : SubSeq(lg, 1, h)[i] = lg[i]
  BY <1>1
<1>3. NoRoutes[m] = NoRoute
  BY DEF NoRoutes
<1>. QED
  BY <1>2, <1>3 DEF Stands, EndsAt

-----------------------------------------------------------------------------
LEMMA TailOfConcat ==
  ASSUME NEW q \in Seq(Command), q # <<>>, NEW p \in Seq(Command)
  PROVE  /\ q \o p # <<>> /\ Head(q \o p) = Head(q)
         /\ Tail(q \o p) = Tail(q) \o p
<1>1. /\ DOMAIN q = 1..Len(q) /\ Len(q) \in Nat /\ Len(q) > 0 /\ Len(p) \in Nat
      /\ q \o p \in Seq(Command) /\ Len(q \o p) = Len(q) + Len(p)
      /\ \A k \in 1..(Len(q) + Len(p)) :
           (q \o p)[k] = IF k <= Len(q) THEN q[k] ELSE p[k - Len(q)]
  BY LenProperties, EmptySeq, ConcatProperties, SMT
<1>2. q \o p # <<>> /\ Head(q \o p) = Head(q)
  BY <1>1
<1>3. /\ Tail(q) \in Seq(Command) /\ Len(Tail(q)) = Len(q) - 1
      /\ \A k \in 1..(Len(q) - 1) : Tail(q)[k] = q[k + 1]
  BY HeadTailProperties
<1>4. /\ Tail(q \o p) \in Seq(Command) /\ Len(Tail(q \o p)) = Len(q) + Len(p) - 1
      /\ \A k \in 1..(Len(q) + Len(p) - 1) : Tail(q \o p)[k] = (q \o p)[k + 1]
  BY <1>1, <1>2, HeadTailProperties, SMT
<1>5. /\ Tail(q) \o p \in Seq(Command) /\ Len(Tail(q) \o p) = Len(q) - 1 + Len(p)
      /\ \A k \in 1..(Len(q) - 1 + Len(p)) :
           (Tail(q) \o p)[k] = IF k <= Len(q) - 1 THEN Tail(q)[k] ELSE p[k - (Len(q) - 1)]
  BY <1>3, ConcatProperties, SMT
<1>6. ASSUME NEW k \in 1..(Len(q) + Len(p) - 1)
      PROVE  Tail(q \o p)[k] = (Tail(q) \o p)[k]
  BY <1>1, <1>3, <1>4, <1>5, SMT
<1>7. Tail(q \o p) = Tail(q) \o p
  BY <1>1, <1>4, <1>5, <1>6, SeqEqual, SMT
<1>. QED
  BY <1>2, <1>7

(* A creation that is coming is either the one taken or still coming.      *)
LEMMA TailHas ==
  ASSUME NEW q \in Seq(Command), q # <<>>, NEW s,
         \E i \in DOMAIN q : q[i] = CreateShard(s)
  PROVE  Head(q) = CreateShard(s) \/ \E i \in DOMAIN Tail(q) : Tail(q)[i] = CreateShard(s)
<1>1. /\ DOMAIN q = 1..Len(q) /\ Len(q) \in Nat /\ Head(q) = q[1]
      /\ DOMAIN Tail(q) = 1..(Len(q) - 1)
      /\ \A k \in 1..(Len(q) - 1) : Tail(q)[k] = q[k + 1]
  BY HeadTailProperties, LenProperties, EmptySeq, SMT
<1>2. PICK i \in DOMAIN q : q[i] = CreateShard(s)
  OBVIOUS
<1>3. CASE i = 1
  BY <1>1, <1>2, <1>3
<1>4. CASE i # 1
  <2>1. i - 1 \in DOMAIN Tail(q) /\ Tail(q)[i - 1] = q[i]
    BY <1>1, <1>4, SMT
  <2>. QED
    BY <1>2, <2>1
<1>. QED
  BY <1>3, <1>4

-----------------------------------------------------------------------------
(* Types.                                                                  *)

LEMMA NewType == New \in Machine /\ NoRoutes \in [Module -> Shard \cup {NoRoute}]
BY ShardConfigAssumption, SMT DEF New, NoRoutes, Machine

LEMMA ReroutedType ==
  ASSUME NEW r \in [Module -> Shard \cup {NoRoute}], NEW cmd \in Command
  PROVE  Rerouted(r, cmd) \in [Module -> Shard \cup {NoRoute}]
BY CommandFacts DEF Rerouted, add_route, remove_route

LEMMA UpdatedFacts ==
  ASSUME NEW i \in Machine, NEW cmd \in Command
  PROVE  /\ Updated(i, cmd) \in Machine
         /\ Updated(i, cmd).last_applied = i.last_applied
         /\ Updated(i, cmd).shard_routes = Rerouted(i.shard_routes, cmd)
         /\ Updated(i, cmd).active_shards =
              IF cmd.tag = "CreateShard" THEN i.active_shards \cup {cmd.shard} ELSE i.active_shards
<1>1. Rerouted(i.shard_routes, cmd) \in [Module -> Shard \cup {NoRoute}]
  BY MachineFacts, ReroutedType
<1>2. cmd.tag = "CreateShard" => cmd.shard \in Shard \ {0}
  BY CommandFacts
<1>. QED
  BY <1>1, <1>2 DEF Updated, Machine

LEMMA SpendFacts ==
  ASSUME NEW kind \in Kind \ {"all"}, TypeOK, Spend(kind)
  PROVE  /\ budget' \in [Kind -> Nat] /\ \A k \in Kind : budget'[k] <= Budget[k]
         /\ budget'[kind] < Budget[kind]
         /\ \A k \in Kind \ {kind, "all"} : budget'[k] = budget[k]
<1>1. /\ budget \in [Kind -> Nat] /\ Budget \in [Kind -> Nat] /\ "all" \in Kind
      /\ \A k \in Kind : budget[k] <= Budget[k]
  BY ShardConfigAssumption DEF TypeOK, Kind
<1>2. budget[kind] > 0 /\ budget["all"] > 0
  BY DEF Spend
<1>3. budget' = [k \in Kind |-> IF k \in {kind, "all"} THEN budget[k] - 1 ELSE budget[k]]
  BY <1>1 DEF Spend
<1>. QED
  BY <1>1, <1>2, <1>3, SMT

LEMMA CoveredGrows ==
  ASSUME NEW x \in Machine \cup {NoSnapshot}, NEW n, Covered(x, n),
         stored[n] \in Nat, stored'[n] \in Nat, stored[n] <= stored'[n]
  PROVE  x # NoSnapshot => x.last_applied <= stored'[n]
BY MachineFacts, SMT DEF Covered

(* What a node has stays covered by its log when the log grows.            *)
LEMMA StoreGrows ==
  ASSUME TypeOK, NEW n \in Node, stored'[n] \in Nat, stored[n] <= stored'[n],
         UNCHANGED <<purged, machine>>
  PROVE  /\ purged'[n] <= stored'[n] /\ inner'[n].last_applied <= stored'[n]
         /\ Covered(builder[n], n)' /\ Covered(cached_snapshot[n], n)'
<1>1. /\ builder[n] \in Machine \cup {NoSnapshot} /\ Covered(builder[n], n)
      /\ cached_snapshot[n] \in Machine \cup {NoSnapshot} /\ Covered(cached_snapshot[n], n)
      /\ stored[n] \in 0..MaxCommands /\ purged[n] \in 0..MaxCommands /\ purged[n] <= stored[n]
      /\ inner[n] \in Machine /\ inner[n].last_applied <= stored[n]
  BY DEF TypeOK
<1>2. stored[n] \in Nat /\ purged[n] \in Nat /\ inner[n].last_applied \in Nat
  BY <1>1, MachineFacts, ShardConfigAssumption, SMT
<1>3. /\ builder[n] # NoSnapshot => builder[n].last_applied <= stored'[n]
      /\ cached_snapshot[n] # NoSnapshot => cached_snapshot[n].last_applied <= stored'[n]
  BY <1>1, <1>2, CoveredGrows
<1>4. Covered(builder[n], n)' /\ Covered(cached_snapshot[n], n)'
  BY <1>3 DEF Covered, machine
<1>5. purged[n] <= stored'[n] /\ inner[n].last_applied <= stored'[n]
  BY <1>1, <1>2
<1>. QED
  BY <1>4, <1>5 DEF machine

LEMMA InitType == Init => TypeOK
<1>1. Init => Voter \subseteq Node
  BY ShardConfigAssumption DEF Voter
<1>2. <<>> \in Seq(Command) /\ Len(<<>>) = 0
  BY EmptySeq
<1>. QED
  BY <1>1, <1>2, NewType, ShardConfigAssumption, SMT DEF Init, TypeOK, Idle, Covered, New

(* The API and openraft.                                                   *)
LEMMA RaftType ==
  ASSUME TypeOK
  PROVE  /\ \A cmd \in Command : client_write(cmd) => TypeOK'
         /\ \A n \in Node : (Replicate(n) \/ Elect(n) \/ Purge(n)) => TypeOK'
<1>1. ASSUME NEW cmd \in Command, client_write(cmd) PROVE TypeOK'
  <2>1. PICK Q \in Quorum :
          /\ \A n \in Q : stored[n] = Len(log)
          /\ stored' = [n \in Node |-> IF n \in Q THEN stored[n] + 1 ELSE stored[n]]
    BY <1>1 DEF client_write
  <2>2. log' \in Seq(Command) /\ Len(log') = Len(log) + 1 /\ Len(log) \in Nat
    BY <1>1, AppendProperties, LenProperties, SMT DEF client_write, TypeOK
  <2>3. Len(log') <= MaxCommands
    BY <1>1, <2>2, ShardConfigAssumption, SMT DEF client_write
  <2>4. stored' \in [Node -> 0..MaxCommands] /\ \A n \in Node : stored[n] <= stored'[n] /\ stored'[n] <= Len(log')
    BY <2>1, <2>2, <2>3, ShardConfigAssumption, SMT DEF TypeOK
  <2>5. UNCHANGED <<leader, initialized, budget, purged, machine, queue, pool>>
    BY <1>1 DEF client_write
  <2>6. ASSUME NEW n \in Node
        PROVE  /\ purged'[n] <= stored'[n] /\ inner'[n].last_applied <= stored'[n]
               /\ Covered(builder[n], n)' /\ Covered(cached_snapshot[n], n)'
    <3>1. stored'[n] \in Nat /\ stored[n] <= stored'[n]
      BY <2>4, ShardConfigAssumption, SMT
    <3>. QED
      BY <2>5, <3>1, StoreGrows
  <2>. QED
    BY <2>2, <2>3, <2>4, <2>5, <2>6 DEF TypeOK, machine, pool
<1>2. ASSUME NEW n \in Node, Replicate(n) PROVE TypeOK'
  <2>1. Len(log) \in Nat /\ Len(log) <= MaxCommands
    BY LenProperties DEF TypeOK
  <2>2. /\ stored' \in [Node -> 0..MaxCommands]
        /\ \A k \in Node : stored[k] <= stored'[k] /\ stored'[k] <= Len(log)
    BY <1>2, <2>1, ShardConfigAssumption, SMT DEF Replicate, TypeOK
  <2>3. UNCHANGED <<cluster, budget, purged, machine, queue, pool>>
    BY <1>2 DEF Replicate
  <2>4. ASSUME NEW k \in Node
        PROVE  /\ purged'[k] <= stored'[k] /\ inner'[k].last_applied <= stored'[k]
               /\ Covered(builder[k], k)' /\ Covered(cached_snapshot[k], k)'
    <3>1. stored'[k] \in Nat /\ stored[k] <= stored'[k]
      BY <2>2, ShardConfigAssumption, SMT
    <3>. QED
      BY <2>3, <3>1, StoreGrows
  <2>. QED
    BY <2>2, <2>3, <2>4 DEF TypeOK, cluster, machine, pool
<1>3. ASSUME NEW n \in Node, Elect(n) PROVE TypeOK'
  <2>1. budget' \in [Kind -> Nat] /\ \A k \in Kind : budget'[k] <= Budget[k]
    BY <1>3, SpendFacts DEF Elect, Kind
  <2>. QED
    BY <1>3, <2>1 DEF Elect, TypeOK, store, machine, pool, Covered
<1>4. ASSUME NEW n \in Node, Purge(n) PROVE TypeOK'
  <2>1. cached_snapshot[n].last_applied \in Nat /\ cached_snapshot[n].last_applied <= stored[n]
    BY <1>4, MachineFacts DEF Purge, TypeOK, Covered
  <2>2. /\ purged' \in [Node -> 0..MaxCommands]
        /\ \A k \in Node : purged'[k] <= stored[k]
    BY <1>4, <2>1, ShardConfigAssumption, SMT DEF Purge, TypeOK
  <2>. QED
    BY <1>4, <2>2 DEF Purge, TypeOK, cluster, machine, pool, Covered
<1>. QED
  BY <1>1, <1>2, <1>3, <1>4

LEMMA CurrentType ==
  ASSUME TypeOK, NEW n \in Node, worker[n] \in {"stamped", "updated"}
  PROVE  inner[n].last_applied \in 1..Len(log) /\ Current(n) \in Command
<1>1. inner[n].last_applied \in 1..Len(log)
  BY MachineFacts, LenProperties, ShardConfigAssumption, SMT DEF TypeOK
<1>. QED
  BY <1>1, ElementOfSeq DEF TypeOK, Current

(* apply.                                                                  *)
LEMMA ApplyType ==
  ASSUME TypeOK, NEW n \in Node, ApplyStamp(n) \/ ApplyUpdate(n) \/ ApplyDispatch(n)
  PROVE  TypeOK'
<1>1. CASE ApplyStamp(n)
  <2>1. inner[n] \in Machine /\ inner[n].last_applied \in Nat
    BY MachineFacts DEF TypeOK
  <2>2. inner[n].last_applied + 1 \in 0..MaxCommands /\ inner[n].last_applied + 1 <= stored[n]
    BY <1>1, <2>1, ShardConfigAssumption, SMT DEF ApplyStamp, TypeOK
  <2>3. [inner[n] EXCEPT !.last_applied = inner[n].last_applied + 1] \in Machine
    BY <2>1, <2>2 DEF Machine
  <2>4. inner' = [inner EXCEPT ![n] = [inner[n] EXCEPT !.last_applied = inner[n].last_applied + 1]]
    BY <1>1 DEF ApplyStamp
  <2>5. inner' \in [Node -> Machine]
    BY <2>3, <2>4 DEF TypeOK
  <2>6. \A k \in Node : inner'[k].last_applied <= stored[k]
    BY <2>1, <2>2, <2>4 DEF TypeOK, Machine
  <2>7. \A k \in Node : worker'[k] \in {"stamped", "updated"} => inner'[k].last_applied > 0
    BY <1>1, <2>1, <2>4, SMT DEF TypeOK, Machine, ApplyStamp
  <2>. QED
    BY <1>1, <2>5, <2>6, <2>7 DEF ApplyStamp, TypeOK, cluster, store, pool, Covered
<1>2. CASE ApplyUpdate(n)
  <2>1. Current(n) \in Command /\ inner[n] \in Machine
    BY <1>2, CurrentType DEF ApplyUpdate, TypeOK
  <2>2. inner' = [inner EXCEPT ![n] = Updated(inner[n], Current(n))]
    BY <1>2 DEF ApplyUpdate
  <2>0. /\ Updated(inner[n], Current(n)) \in Machine
        /\ Updated(inner[n], Current(n)).last_applied = inner[n].last_applied
    BY <2>1, UpdatedFacts
  <2>3. inner' \in [Node -> Machine]
    BY <2>0, <2>2 DEF TypeOK
  <2>4. \A k \in Node : inner'[k].last_applied = inner[k].last_applied
    BY <2>0, <2>2 DEF TypeOK
  <2>5. \A k \in Node : worker'[k] \in {"stamped", "updated"} => worker[k] \in {"stamped", "updated"}
    BY <1>2 DEF ApplyUpdate, TypeOK
  <2>. QED
    BY <1>2, <2>3, <2>4, <2>5 DEF ApplyUpdate, TypeOK, cluster, store, pool, Covered
<1>3. CASE ApplyDispatch(n)
  <2>1. Append(queue[n], Current(n)) \in Seq(Command)
    BY <1>3, CurrentType, AppendProperties DEF ApplyDispatch, TypeOK
  <2>2. queue' \in [Node -> Seq(Command)]
    BY <1>3, <2>1 DEF ApplyDispatch, TypeOK
  <2>. QED
    BY <1>3, <2>2 DEF ApplyDispatch, TypeOK, cluster, store, pool, Covered
<1>. QED
  BY <1>1, <1>2, <1>3

(* build_snapshot and install_snapshot.                                    *)
LEMMA SnapshotType ==
  ASSUME TypeOK, NEW n \in Node,
         \/ BuildRead(n) \/ BuildCache(n)
         \/ InstallInner(n) \/ InstallReplay(n) \/ InstallCache(n)
  PROVE  TypeOK'
<1>1. CASE BuildRead(n)
  <2>1. budget' \in [Kind -> Nat] /\ \A k \in Kind : budget'[k] <= Budget[k]
    BY <1>1, SpendFacts DEF BuildRead, Kind
  <2>. QED
    BY <1>1, <2>1 DEF BuildRead, TypeOK, cluster, store, pool, Covered
<1>2. CASE BuildCache(n)
  BY <1>2 DEF BuildCache, TypeOK, cluster, store, pool, Covered
<1>3. CASE InstallInner(n)
  <2> DEFINE x == cached_snapshot[leader]
  <2>1. leader \in Node /\ x \in Machine /\ Covered(x, leader)
    BY <1>3 DEF InstallInner, TypeOK
  <2>2. x.last_applied \in 0..MaxCommands /\ x.last_applied \in Nat
    BY <2>1, MachineFacts
  <2>3. x # NoSnapshot /\ stored[n] < x.last_applied
    BY <1>3 DEF InstallInner
  <2>4. x.last_applied <= Len(log)
    BY <2>1, <2>2, <2>3, LenProperties, ShardConfigAssumption, SMT DEF TypeOK, Covered
  <2>5. /\ inner' = [inner EXCEPT ![n] = x]
        /\ stored' = [stored EXCEPT ![n] = x.last_applied]
        /\ purged' = [purged EXCEPT ![n] = x.last_applied]
        /\ worker' = [worker EXCEPT ![n] = "installed"]
        /\ UNCHANGED <<cluster, budget, builder, cached_snapshot, queue, pool>>
    BY <1>3 DEF InstallInner
  <2> HIDE DEF x
  <2>6. /\ inner' \in [Node -> Machine]
        /\ stored' \in [Node -> 0..MaxCommands] /\ purged' \in [Node -> 0..MaxCommands]
    BY <2>1, <2>2, <2>5 DEF TypeOK
  <2>7. \A k \in Node : /\ stored[k] \in Nat /\ stored'[k] \in Nat
                        /\ stored[k] <= stored'[k] /\ stored'[k] <= Len(log)
    BY <2>2, <2>3, <2>4, <2>5, SMT DEF TypeOK
  <2>8. ASSUME NEW k \in Node
        PROVE  Covered(builder[k], k)' /\ Covered(cached_snapshot[k], k)'
    <3>1. /\ builder[k] \in Machine \cup {NoSnapshot} /\ Covered(builder[k], k)
          /\ cached_snapshot[k] \in Machine \cup {NoSnapshot} /\ Covered(cached_snapshot[k], k)
      BY DEF TypeOK
    <3>2. /\ builder[k] # NoSnapshot => builder[k].last_applied <= stored'[k]
          /\ cached_snapshot[k] # NoSnapshot => cached_snapshot[k].last_applied <= stored'[k]
      BY <2>7, <3>1, CoveredGrows
    <3>. QED
      BY <2>5, <3>2 DEF Covered
  <2>9. ASSUME NEW k \in Node
        PROVE  /\ purged'[k] <= stored'[k] /\ inner'[k].last_applied <= stored'[k]
               /\ worker'[k] \in {"stamped", "updated"} => inner'[k].last_applied > 0
    <3>1. CASE k = n
      BY <2>2, <2>5, <3>1, SMT DEF TypeOK
    <3>2. CASE k # n
      BY <2>5, <3>2 DEF TypeOK
    <3>. QED
      BY <3>1, <3>2
  <2>. QED
    BY <2>5, <2>6, <2>7, <2>8, <2>9 DEF TypeOK, cluster, pool
<1>4. CASE InstallReplay(n)
  <2>1. queue[n] \o Replay(inner[n]) \in Seq(Command)
    <3>1. queue[n] \in Seq(Command) /\ inner[n] \in Machine
      BY DEF TypeOK
    <3>. QED
      BY <3>1, ReplayFacts, ConcatProperties
  <2>2. queue' \in [Node -> Seq(Command)]
    BY <1>4, <2>1 DEF InstallReplay, TypeOK
  <2>. QED
    BY <1>4, <2>2 DEF InstallReplay, TypeOK, cluster, store, pool, Covered
<1>5. CASE InstallCache(n)
  BY <1>5 DEF InstallCache, TypeOK, cluster, store, pool, Covered
<1>. QED
  BY <1>1, <1>2, <1>3, <1>4, <1>5

(* The frame of the steps that leave log, stores and machines alone.       *)
LEMMA PoolFrame ==
  ASSUME TypeOK, UNCHANGED <<log, leader, store, machine>>,
         initialized' \subseteq Shard,
         budget' \in [Kind -> Nat], \A k \in Kind : budget'[k] <= Budget[k],
         queue' \in [Node -> Seq(Command)],
         shards' \in [Node -> SUBSET Shard], \A n \in Node : 0 \in shards'[n],
         routes' \in [Node -> [Module -> Shard \cup {NoRoute}]],
         listener' \in [Node -> [pc : {"recv", "create", "check", "init"}, shard : Shard]]
  PROVE  TypeOK'
BY DEF TypeOK, store, machine, Covered

(* The listener.                                                           *)
LEMMA ListenerType ==
  ASSUME TypeOK, NEW n \in Node,
         \/ HandleCreateShard(n) \/ HandleRoute(n) \/ CreateOk(n) \/ CreateErr(n)
         \/ CheckLeader(n) \/ Initialize(n) \/ InitializeErr(n)
  PROVE  TypeOK'
<1> DEFINE Listener == [pc : {"recv", "create", "check", "init"}, shard : Shard]
<1>0. /\ initialized \subseteq Shard
      /\ budget \in [Kind -> Nat] /\ \A k \in Kind : budget[k] <= Budget[k]
      /\ queue \in [Node -> Seq(Command)] /\ queue[n] \in Seq(Command)
      /\ shards \in [Node -> SUBSET Shard] /\ \A k \in Node : 0 \in shards[k]
      /\ routes \in [Node -> [Module -> Shard \cup {NoRoute}]]
      /\ routes[n] \in [Module -> Shard \cup {NoRoute}]
      /\ listener \in [Node -> Listener] /\ listener[n] \in Listener
  BY DEF TypeOK
<1>1. Idle \in Listener
  BY ShardConfigAssumption DEF Idle
<1>2. \A tag : ListenerTakes(n, tag) =>
        /\ queue[n] # <<>> /\ Head(queue[n]).tag = tag
        /\ Head(queue[n]) \in Command /\ queue' \in [Node -> Seq(Command)]
        /\ UNCHANGED <<cluster, store, budget, machine>>
  <2>1. queue[n] # <<>> => Head(queue[n]) \in Command /\ Tail(queue[n]) \in Seq(Command)
    BY <1>0, HeadTailProperties
  <2>. QED
    BY <1>0, <2>1 DEF ListenerTakes
<1>3. CASE HandleCreateShard(n)
  <2>1. Head(queue[n]).shard \in Shard
    BY <1>2, <1>3, CommandFacts DEF HandleCreateShard
  <2>2. listener' \in [Node -> Listener]
    BY <1>0, <1>1, <1>3, <2>1 DEF HandleCreateShard
  <2>. QED
    BY <1>0, <1>2, <1>3, <2>2, PoolFrame DEF HandleCreateShard, cluster
<1>4. CASE HandleRoute(n)
  <2>1. Rerouted(routes[n], Head(queue[n])) \in [Module -> Shard \cup {NoRoute}]
    BY <1>0, <1>2, <1>4, ReroutedType DEF HandleRoute
  <2>2. routes' \in [Node -> [Module -> Shard \cup {NoRoute}]]
    BY <1>0, <1>4, <2>1 DEF HandleRoute
  <2>. QED
    BY <1>0, <1>2, <1>4, <2>2, PoolFrame DEF HandleRoute, cluster
<1>5. CASE CreateOk(n)
  <2>1. /\ shards' \in [Node -> SUBSET Shard] /\ \A k \in Node : 0 \in shards'[k]
        /\ listener' \in [Node -> Listener]
    BY <1>0, <1>5 DEF CreateOk
  <2>. QED
    BY <1>0, <1>5, <2>1, PoolFrame DEF CreateOk, cluster
<1>6. CASE CreateErr(n)
  <2>1. budget' \in [Kind -> Nat] /\ \A k \in Kind : budget'[k] <= Budget[k]
    BY <1>6, SpendFacts DEF CreateErr, Kind
  <2>2. listener' \in [Node -> Listener]
    BY <1>0, <1>1, <1>6 DEF CreateErr
  <2>. QED
    BY <1>0, <1>6, <2>1, <2>2, PoolFrame DEF CreateErr, cluster
<1>7. CASE CheckLeader(n)
  <2>1. listener' \in [Node -> Listener]
    BY <1>0, <1>1, <1>7 DEF CheckLeader
  <2>. QED
    BY <1>0, <1>7, <2>1, PoolFrame DEF CheckLeader, cluster
<1>8. CASE Initialize(n)
  <2>1. listener' \in [Node -> Listener] /\ initialized' \subseteq Shard
    BY <1>0, <1>1, <1>8 DEF Initialize
  <2>. QED
    BY <1>0, <1>8, <2>1, PoolFrame DEF Initialize
<1>9. CASE InitializeErr(n)
  <2>1. budget' \in [Kind -> Nat] /\ \A k \in Kind : budget'[k] <= Budget[k]
    BY <1>9, SpendFacts DEF InitializeErr, Kind
  <2>2. listener' \in [Node -> Listener]
    BY <1>0, <1>1, <1>9 DEF InitializeErr
  <2>. QED
    BY <1>0, <1>9, <2>1, <2>2, PoolFrame DEF InitializeErr, cluster
<1>. QED
  BY <1>3, <1>4, <1>5, <1>6, <1>7, <1>8, <1>9

LEMMA RestartType ==
  ASSUME TypeOK, NEW n \in Node, Restart(n)
  PROVE  TypeOK'
<1>1. budget' \in [Kind -> Nat] /\ \A k \in Kind : budget'[k] <= Budget[k]
  BY SpendFacts DEF Restart, Kind
<1>2. <<>> \in Seq(Command) /\ Idle \in [pc : {"recv", "create", "check", "init"}, shard : Shard]
  BY EmptySeq, ShardConfigAssumption DEF Idle
<1>3. /\ inner' \in [Node -> Machine]
      /\ worker' \in [Node -> {"idle", "stamped", "updated", "installed", "replayed"}]
      /\ builder' \in [Node -> Machine \cup {NoSnapshot}]
      /\ cached_snapshot' \in [Node -> Machine \cup {NoSnapshot}]
      /\ queue' \in [Node -> Seq(Command)]
      /\ shards' \in [Node -> SUBSET Shard]
      /\ routes' \in [Node -> [Module -> Shard \cup {NoRoute}]]
      /\ listener' \in [Node -> [pc : {"recv", "create", "check", "init"}, shard : Shard]]
  BY <1>2, NewType, ShardConfigAssumption, SMT DEF Restart, TypeOK
<1>4. ASSUME NEW k \in Node
      PROVE  /\ 0 \in shards'[k]
             /\ inner'[k].last_applied <= stored[k]
             /\ worker'[k] \in {"stamped", "updated"} => inner'[k].last_applied > 0
             /\ builder'[k] # NoSnapshot => builder'[k].last_applied <= stored[k]
             /\ cached_snapshot'[k] # NoSnapshot => cached_snapshot'[k].last_applied <= stored[k]
  <2>1. CASE k = n
    BY <2>1, SMT DEF Restart, TypeOK, New
  <2>2. CASE k # n
    BY <2>2 DEF Restart, TypeOK, Covered
  <2>. QED
    BY <2>1, <2>2
<1>. QED
  BY <1>1, <1>3, <1>4 DEF Restart, TypeOK, store, Covered

LEMMA ApiCommands ==
  /\ \A s \in Shard : shard_create(s) => CreateShard(s) \in Command
  /\ \A m \in Module, s \in Shard : AddRoute(m, s) \in Command
  /\ \A m \in Module : RemoveRoute(m) \in Command
BY DEF shard_create, Command

(* Every variable of the shard configuration keeps its type.               *)
THEOREM ConfigTypeCorrect == Spec => []TypeOK
<1>1. TypeOK /\ [Next]_vars => TypeOK'
  <2> SUFFICES ASSUME TypeOK, [Next]_vars PROVE TypeOK'
    OBVIOUS
  <2>1. CASE CreateShardCommand \/ AddRouteCommand \/ RemoveRouteCommand
    BY <2>1, RaftType, ApiCommands
    DEF CreateShardCommand, AddRouteCommand, RemoveRouteCommand,
        shard_create, shard_add_route, shard_remove_route
  <2>2. ASSUME NEW n \in Node, Progress(n) PROVE TypeOK'
    BY <2>2, RaftType, ApplyType, SnapshotType, ListenerType DEF Progress
  <2>3. ASSUME NEW n \in Node,
               \/ Elect(n) \/ Purge(n) \/ BuildRead(n) \/ BuildCache(n)
               \/ CreateErr(n) \/ InitializeErr(n) \/ Restart(n)
        PROVE  TypeOK'
    BY <2>3, RaftType, SnapshotType, ListenerType, RestartType
  <2>4. CASE UNCHANGED vars
    BY <2>4 DEF vars, cluster, store, machine, pool, TypeOK, Covered
  <2>. QED
    BY <2>1, <2>2, <2>3, <2>4 DEF Next
<1>. QED
  BY <1>1, InitType, PTL DEF Spec
=============================================================================
