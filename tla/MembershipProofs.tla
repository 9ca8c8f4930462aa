-------------------------- MODULE MembershipProofs --------------------------
(***************************************************************************)
(* Proofs about Membership, for any number of nodes, shards, operators,    *)
(* calls and elections.                                                    *)
(***************************************************************************)
EXTENDS Membership, FiniteSetTheorems, SequenceTheorems, TLAPS

(* The tableau prover first: most steps need no arithmetic.                *)
USE ZenonT(5), SMT

-----------------------------------------------------------------------------
(* Sorted lists of shards.                                                 *)

LEMMA SortedExists ==
  ASSUME NEW S \in SUBSET Nat, IsFiniteSet(S)
  PROVE  \E q \in Bijection(1..Cardinality(S), S) :
           \A i, j \in DOMAIN q : i < j => q[i] < q[j]
<1> DEFINE n == Cardinality(S)
           B(x) == {y \in S : y <= x}
           rank == [x \in S |-> Cardinality(B(x))]
           T == {rank[x] : x \in S}
           q == [i \in 1..n |-> CHOOSE x \in S : rank[x] = i]
<1>1. n \in Nat
  BY FS_CardinalityType
<1>2. ASSUME NEW x \in S PROVE rank[x] \in 1..n
  <2>1. IsFiniteSet(B(x)) /\ Cardinality(B(x)) <= n
    BY FS_Subset
  <2>2. Cardinality(B(x)) \in Nat
    BY <2>1, FS_CardinalityType
  <2>3. x \in B(x)
    OBVIOUS
  <2>4. Cardinality(B(x)) # 0
    BY <2>1, <2>3, FS_EmptySet
  <2>5. rank[x] = Cardinality(B(x))
    OBVIOUS
  <2>6. rank[x] \in Nat /\ rank[x] # 0 /\ rank[x] <= n
    BY <2>1, <2>2, <2>4, <2>5
  <2> HIDE DEF rank, B, n
  <2>. QED
    BY <1>1, <2>6
<1>3. ASSUME NEW x \in S, NEW y \in S, x < y PROVE rank[x] < rank[y]
  <2>1. B(x) \in SUBSET B(y) /\ y \in B(y) /\ y \notin B(x)
    <3>1. x \in Nat /\ y \in Nat /\ \A z \in S : z \in Nat
      OBVIOUS
    <3>2. y <= y /\ ~ (y <= x) /\ \A z \in S : z <= x => z <= y
      BY <1>3, <3>1
    <3>. QED
      BY <3>2
  <2>2. IsFiniteSet(B(y))
    BY FS_Subset
  <2>3. Cardinality(B(x)) <= Cardinality(B(y)) /\ Cardinality(B(x)) # Cardinality(B(y))
    BY <2>1, <2>2, FS_Subset
  <2>4. rank[x] = Cardinality(B(x)) /\ rank[y] = Cardinality(B(y))
    OBVIOUS
  <2>5. rank[x] \in Nat /\ rank[y] \in Nat
    BY <1>1, <1>2, SMT
  <2> HIDE DEF rank, B
  <2>. QED
    BY <2>3, <2>4, <2>5
<1>4. rank \in [S -> T]
  OBVIOUS
<1> HIDE DEF rank
<1>5. \A x, y \in S : rank[x] = rank[y] => x = y
  <2> SUFFICES ASSUME NEW x \in S, NEW y \in S, rank[x] = rank[y] PROVE x = y
    OBVIOUS
  <2>1. x < y \/ y < x \/ x = y
    OBVIOUS
  <2>2. rank[x] \in Nat
    BY <1>1, <1>2, SMT
  <2>. QED
    BY <1>3, <2>1, <2>2
<1>6. T = 1..n
  <2>1. rank \in Bijection(S, T)
    BY <1>4, <1>5 DEF Bijection, Injection, Surjection, IsInjective
  <2>2. Cardinality(T) = n
    BY <2>1, FS_Bijection DEF ExistsBijection
  <2>3. T \in SUBSET (1..n)
    BY <1>2
  <2> HIDE DEF T, n
  <2>4. IsFiniteSet(1..n) /\ Cardinality(1..n) = n
    BY <1>1, FS_Interval
  <2>. QED
    BY <2>2, <2>3, <2>4, FS_Subset
<1>7. ASSUME NEW i \in 1..n PROVE q[i] \in S /\ rank[q[i]] = i
  <2>1. \E x \in S : rank[x] = i
    BY <1>6
  <2>. QED
    BY <2>1
<1>8. q \in [1..n -> S] /\ DOMAIN q = 1..n
  BY <1>7
<1> HIDE DEF q, T, n
<1>9. q \in Bijection(1..n, S)
  <2>1. \A i, j \in 1..n : q[i] = q[j] => i = j
    BY <1>7
  <2>2. \A x \in S : q[rank[x]] = x
    BY <1>2, <1>5, <1>7
  <2>. QED
    BY <1>2, <1>8, <2>1, <2>2 DEF Bijection, Injection, Surjection, IsInjective
<1>10. ASSUME NEW i \in 1..n, NEW j \in 1..n, i < j PROVE q[i] < q[j]
  <2>1. q[i] \in S /\ q[j] \in S /\ rank[q[i]] = i /\ rank[q[j]] = j
    BY <1>7
  <2>2. q[i] \in Nat /\ q[j] \in Nat
    BY <2>1
  <2>3. q[i] < q[j] \/ q[j] < q[i] \/ q[i] = q[j]
    BY <2>2
  <2>4. q[j] < q[i] => j < i
    BY <1>3, <2>1
  <2>5. ~ (j < i) /\ i # j
    BY <1>1, <1>10
  <2>. QED
    BY <2>1, <2>3, <2>4, <2>5
<1>. QED
  BY <1>8, <1>9, <1>10 DEF n

(* list_shards starts with shard 0.                                        *)
LEMMA ListFacts ==
  ASSUME NEW n, pool[n] \in SUBSET Shard, 0 \in pool[n]
  PROVE  /\ list_shards(n) \in Seq(Shard) /\ list_shards(n) # <<>>
         /\ Head(list_shards(n)) = 0
         /\ pool[n] \subseteq Range(list_shards(n))
<1> DEFINE S == pool[n]
           c == Cardinality(S)
           q == list_shards(n)
<1>1. S \in SUBSET Nat /\ IsFiniteSet(S) /\ S \subseteq Shard
  BY MembershipAssumption, FS_Subset
<1>2. c \in Nat
  BY <1>1, FS_CardinalityType
<1>3. q \in Bijection(1..c, S) /\ \A i, j \in DOMAIN q : i < j => q[i] < q[j]
  BY <1>1, SortedExists DEF list_shards
<1> HIDE DEF c, q
<1>4. q \in [1..c -> S] /\ DOMAIN q = 1..c /\ \A x \in S : \E i \in 1..c : q[i] = x
  BY <1>3 DEF Bijection, Injection, Surjection
<1>5. q \in [1..c -> Shard]
  BY <1>1, <1>4
<1>6. q \in Seq(Shard) /\ Len(q) = c
  BY <1>2, <1>5
<1>7. PICK i \in 1..c : q[i] = 0
  BY <1>4
<1>8. 1 \in 1..c /\ (i # 1 => 1 < i)
  BY <1>2
<1>9. q # <<>> /\ Head(q) = q[1]
  BY <1>2, <1>6, <1>8
<1>10. q[1] = 0
  <2>1. q[1] \in Nat
    BY <1>1, <1>4, <1>8
  <2>2. i # 1 => q[1] < 0
    BY <1>3, <1>4, <1>7, <1>8
  <2>. QED
    BY <1>7, <2>1, <2>2
<1>. QED
  BY <1>4, <1>6, <1>9, <1>10 DEF q, Range

-----------------------------------------------------------------------------
(* Voter sets.                                                             *)

Voters == (SUBSET Node) \ {{}}
Config == {<<V>> : V \in Voters} \cup {<<V, W>> : V, W \in Voters}

(* Nobody leaves on the way to the goal; or one does at most.              *)
Growing(c) == c # <<>> => voter_ids(c) \subseteq Goal(c)
AtMostOne(S) == \A x, y \in S : x = y
OneLess(c) == c # <<>> => AtMostOne(voter_ids(c) \ Goal(c))
Close(v, w) == AtMostOne((v \ w) \cup (w \ v))

LEMMA UniformFacts ==
  ASSUME NEW V \in Voters
  PROVE  /\ <<V>> \in Config /\ <<V>> # <<>> /\ Len(<<V>>) = 1
         /\ voter_ids(<<V>>) = V /\ Goal(<<V>>) = V /\ {} \notin Range(<<V>>)
<1>1. Range(<<V>>) = {V} /\ Len(<<V>>) = 1
  <2>1. DOMAIN <<V>> = {1} /\ <<V>>[1] = V /\ Len(<<V>>) = 1
    OBVIOUS
  <2>. QED
    BY <2>1, Zenon DEF Range
<1>2. V # {}
  BY DEF Voters
<1>3. <<V>> \in Config /\ <<V>> # <<>> /\ <<V>>[1] = V
  BY DEF Config
<1>4. voter_ids(<<V>>) = V /\ {} \notin Range(<<V>>)
  BY <1>1, <1>2, Zenon DEF voter_ids
<1>5. Goal(<<V>>) = V
  BY <1>1, <1>3 DEF Goal
<1>. QED
  BY <1>1, <1>3, <1>4, <1>5

LEMMA JointFacts ==
  ASSUME NEW V \in Voters, NEW W \in Voters
  PROVE  /\ <<V, W>> \in Config /\ <<V, W>> # <<>> /\ Len(<<V, W>>) = 2
         /\ voter_ids(<<V, W>>) = V \cup W /\ Goal(<<V, W>>) = W /\ {} \notin Range(<<V, W>>)
<1>1. Range(<<V, W>>) = {V, W} /\ Len(<<V, W>>) = 2
  <2>1. DOMAIN <<V, W>> = {1, 2} /\ <<V, W>>[1] = V /\ <<V, W>>[2] = W /\ Len(<<V, W>>) = 2
    OBVIOUS
  <2>. QED
    BY <2>1, Zenon DEF Range
<1>2. V # {} /\ W # {}
  BY DEF Voters
<1>3. <<V, W>> \in Config /\ <<V, W>> # <<>> /\ <<V, W>>[2] = W
  BY DEF Config
<1>4. voter_ids(<<V, W>>) = V \cup W /\ {} \notin Range(<<V, W>>)
  BY <1>1, <1>2, Zenon DEF voter_ids
<1>5. Goal(<<V, W>>) = W
  BY <1>1, <1>3 DEF Goal
<1>. QED
  BY <1>1, <1>3, <1>4, <1>5

LEMMA NoVoters == voter_ids(<<>>) = {}
  BY DEF voter_ids, Range

LEMMA ConfigFacts ==
  ASSUME NEW c \in Config
  PROVE  /\ c # <<>> /\ Len(c) \in {1, 2} /\ {} \notin Range(c)
         /\ Goal(c) \in Voters /\ Goal(c) \subseteq voter_ids(c) /\ voter_ids(c) \in SUBSET Node
         /\ Len(c) = 1 => voter_ids(c) = Goal(c)
<1>1. ASSUME NEW V \in Voters, c = <<V>>
      PROVE /\ c # <<>> /\ Len(c) \in {1, 2} /\ {} \notin Range(c)
            /\ Goal(c) \in Voters /\ Goal(c) \subseteq voter_ids(c) /\ voter_ids(c) \in SUBSET Node
            /\ Len(c) = 1 => voter_ids(c) = Goal(c)
  BY <1>1, UniformFacts DEF Voters
<1>2. ASSUME NEW V \in Voters, NEW W \in Voters, c = <<V, W>>
      PROVE /\ c # <<>> /\ Len(c) \in {1, 2} /\ {} \notin Range(c)
            /\ Goal(c) \in Voters /\ Goal(c) \subseteq voter_ids(c) /\ voter_ids(c) \in SUBSET Node
            /\ Len(c) = 1 => voter_ids(c) = Goal(c)
  BY <1>2, JointFacts, SMT DEF Voters
<1>. QED
  BY <1>1, <1>2 DEF Config

LEMMA CoherentFacts ==
  ASSUME NEW c \in Config, NEW W \in Voters
  PROVE  LET n == next_coherent(c, W)
         IN  /\ n \in Config /\ Goal(n) = W
             /\ W \subseteq voter_ids(n) /\ voter_ids(n) \subseteq W \cup voter_ids(c)
             /\ voter_ids(c) \subseteq W => Growing(n)
             /\ Close(voter_ids(c), W) => OneLess(n) /\ Close(voter_ids(c), voter_ids(n))
<1> DEFINE n == next_coherent(c, W)
           v == voter_ids(c)
<1>1. Goal(c) \in Voters /\ Goal(c) \subseteq v
  BY ConfigFacts
<1>2. /\ n \in Config /\ Goal(n) = W
      /\ W \subseteq voter_ids(n) /\ voter_ids(n) \subseteq W \cup Goal(c)
  BY <1>1, UniformFacts, JointFacts, SMT DEF next_coherent
<1> HIDE DEF n, v
<1>3. voter_ids(n) \ W \subseteq v \ W /\ v \ voter_ids(n) \subseteq v \ W
      /\ voter_ids(n) \ v \subseteq W \ v
  BY <1>1, <1>2
<1>4. v \subseteq W => Growing(n)
  BY <1>1, <1>2 DEF Growing
<1>5. Close(v, W) => OneLess(n) /\ Close(v, voter_ids(n))
  BY <1>2, <1>3 DEF Close, OneLess, AtMostOne
<1>. QED
  BY <1>1, <1>2, <1>4, <1>5 DEF n, v

LEMMA OneIsCount ==
  ASSUME NEW S, AtMostOne(S)
  PROVE  Cardinality(S) <= 1
<1>1. CASE S = {}
  BY <1>1, FS_EmptySet, SMT
<1>2. CASE S # {}
  <2>1. PICK x : S = {x}
    BY <1>2, SMT DEF AtMostOne
  <2>2. Cardinality({x}) = 1
    BY FS_Singleton
  <2>. QED
    BY <2>1, <2>2
<1>. QED
  BY <1>1, <1>2

-----------------------------------------------------------------------------
(* The inductive invariant.                                                *)

Entry == [configs : Config, nodes : SUBSET Node, by : Operator \cup {None}]
Pc == {"idle", "ok", "error", "add_learner", "learning", "read", "change", "changing", "uniform"}
Calls == [pc : Pc, kind : {"add", "remove"}, node : Node \cup {0}, via : Node \cup {0},
          listed : SUBSET Shard, todo : Seq(Shard), voters : SUBSET Node]
Hist == [calls : Nat, elections : Nat, removed : BOOLEAN, overlapped : BOOLEAN,
         dropped : BOOLEAN, latest : Operator \cup {None}]
Listeners == [pc : {"members", "initialize"}, shard : Shard, members : SUBSET Node]

TypeInv ==
  /\ configs \in [Shard -> Config \cup {<<>>}]
  /\ nodes \in [Shard -> SUBSET Node]
  /\ proposed \in [Shard -> Entry \cup {None}]
  /\ leader \in [Shard -> Node \cup {NoLeader}]
  /\ created \in SUBSET (Shard \ {0})
  /\ pool \in [Node -> SUBSET Shard]
  /\ listener \in [Node -> Listeners \cup {None}]
  /\ call \in [Operator -> Calls]
  /\ hist \in Hist

PoolInv ==
  /\ \A n \in Node : 0 \in pool[n] /\ pool[n] \subseteq created \cup {0}
  /\ \A n \in Node : listener[n] # None => listener[n].shard \in created

(* A shard has a leader and proposals only when it is initialized, and a   *)
(* pending proposal of a call belongs to the shard that the call is at.    *)
ShardInv(s) ==
  /\ leader[s] # NoLeader \/ proposed[s] # None => configs[s] # <<>>
  /\ configs[s] = <<>> => nodes[s] = {}
  /\ voter_ids(configs[s]) \subseteq nodes[s]
  /\ proposed[s] # None =>
       /\ voter_ids(proposed[s].configs) \subseteq proposed[s].nodes
       /\ proposed[s].by # None =>
            /\ call[proposed[s].by].pc \in {"learning", "changing"}
            /\ Current(proposed[s].by) = s

CallInv(k) ==
  /\ Running(k) => /\ call[k].node \in Node /\ call[k].via \in Node
                   /\ call[k].todo # <<>>
                   /\ ~ hist.overlapped => hist.latest = k
                   /\ ~ hist.removed => call[k].kind = "add"
  /\ call[k].kind = "add" /\ call[k].pc \in {"learning", "read", "change"} =>
       configs[Current(k)] # <<>>
  /\ call[k].pc = "ok" => call[k].todo = <<>>

BaseInv ==
  /\ TypeInv /\ PoolInv
  /\ \A s \in Shard : ShardInv(s)
  /\ \A k \in Operator : CallInv(k)

(* The call k that runs alone, or was the last to run, has done with the   *)
(* shards that it has left behind.                                         *)
Meant(k, V) == (call[k].node \in V) <=> call[k].kind = "add"

Settled(k, s) ==
  configs[s] # <<>> /\ proposed[s] = None /\ Meant(k, voter_ids(configs[s]))

DoneInv(k) ==
  (hist.latest = k /\ ~ hist.overlapped) =>
    /\ \A s \in call[k].listed \ Range(call[k].todo) : Settled(k, s)
    /\ At(k, "change") => Meant(k, call[k].voters)
    /\ At(k, "changing") => \A s \in Shard :
         proposed[s] # None /\ proposed[s].by = k => Meant(k, Goal(proposed[s].configs))
    /\ At(k, "uniform") => /\ proposed[Current(k)] = None
                           /\ configs[Current(k)] # <<>>
                           /\ Meant(k, Goal(configs[Current(k)]))

(* Only adding nodes: memberships grow, and all stay within shard 0's.     *)
GrowShard(s) ==
  /\ Growing(configs[s])
  /\ voter_ids(configs[s]) \subseteq nodes[0]
  /\ proposed[s] # None =>
       /\ Growing(proposed[s].configs)
       /\ voter_ids(proposed[s].configs) \subseteq nodes[0]
       /\ voter_ids(configs[s]) \subseteq voter_ids(proposed[s].configs)
       /\ nodes[s] \subseteq proposed[s].nodes
       /\ proposed[s].by # None /\ At(proposed[s].by, "learning") =>
            call[proposed[s].by].node \in proposed[s].nodes

GrowCall(k) ==
  Running(k) =>
    /\ call[k].node \in nodes[0] \/ (call[k].pc \in {"add_learner", "learning"} /\ Current(k) = 0)
    /\ At(k, "change") => /\ call[k].voters \subseteq nodes[0]
                          /\ voter_ids(configs[Current(k)]) \subseteq call[k].voters
                          /\ proposed[Current(k)] # None =>
                               voter_ids(proposed[Current(k)].configs) \subseteq call[k].voters

Grown ==
  /\ \A s \in Shard : GrowShard(s)
  /\ \A k \in Operator : GrowCall(k)
  /\ \A n \in Node : listener[n] # None => listener[n].members \subseteq nodes[0]

GrowInv == (~ hist.removed /\ ~ hist.overlapped) => Grown

(* Voters come and go one by one.                                          *)
OneShard(s) ==
  /\ OneLess(configs[s])
  /\ proposed[s] # None =>
       /\ OneLess(proposed[s].configs)
       /\ Close(voter_ids(configs[s]), voter_ids(proposed[s].configs))

OneCall(k) ==
  At(k, "change") /\ call[k].voters # {} =>
    /\ configs[Current(k)] # <<>>
    /\ Close(voter_ids(Effective(Current(k))), call[k].voters)

Single == (\A s \in Shard : OneShard(s)) /\ (\A k \in Operator : OneCall(k))

OneInv == (~ hist.overlapped /\ ~ hist.dropped) => Single

(* The nodes' own instances, and the lists that they were initialized with.*)
OwnInv ==
  /\ founded \in [Shard -> SUBSET SUBSET Node]
  /\ failed \in [Node -> SUBSET Shard] /\ started \in [Node -> SUBSET Shard]
  /\ \A n \in Node : /\ started[n] \subseteq pool[n] /\ failed[n] \subseteq created \ pool[n]
                     /\ listener[n] # None => listener[n].shard \in pool[n]
  /\ \A s \in Shard : founded[s] = {} <=> configs[s] = <<>>

Inv ==
  /\ BaseInv
  /\ OwnInv
  /\ Whole => (\A k \in Operator : DoneInv(k)) /\ GrowInv /\ OneInv

LEMMA InitInv == Init => Inv
<1> SUFFICES ASSUME Init PROVE Inv
  OBVIOUS
<1>1. /\ \A s \in Shard : configs[s] = <<>> /\ nodes[s] = {} /\ proposed[s] = None /\ leader[s] = NoLeader
      /\ \A n \in Node : pool[n] = {0} /\ listener[n] = None
      /\ \A k \in Operator : call[k] = NewCall
      /\ created = {}
      /\ hist.latest = None
  BY DEF Init
<1>2. NewCall \in Calls /\ NewCall.pc = "idle"
  BY DEF NewCall, Calls, Pc
<1>3. TypeInv
  <2>1. hist \in Hist
    BY DEF Init, Hist
  <2>2. /\ configs \in [Shard -> Config \cup {<<>>}] /\ nodes \in [Shard -> SUBSET Node]
        /\ proposed \in [Shard -> Entry \cup {None}] /\ leader \in [Shard -> Node \cup {NoLeader}]
    BY DEF Init
  <2>3. /\ created \in SUBSET (Shard \ {0}) /\ pool \in [Node -> SUBSET Shard]
        /\ listener \in [Node -> Listeners \cup {None}] /\ call \in [Operator -> Calls]
    BY <1>2, MembershipAssumption DEF Init
  <2>. QED
    BY <2>1, <2>2, <2>3 DEF TypeInv
<1>4. PoolInv
  BY <1>1 DEF PoolInv
<1>5. ASSUME NEW s \in Shard PROVE ShardInv(s)
  BY <1>1, NoVoters DEF ShardInv
<1>6. ASSUME NEW k \in Operator PROVE CallInv(k) /\ DoneInv(k) /\ GrowCall(k) /\ ~ At(k, "change")
  <2>1. call[k].pc = "idle" /\ hist.latest # k
    BY <1>1, <1>2, MembershipAssumption
  <2>. QED
    BY <2>1 DEF CallInv, DoneInv, GrowCall, Running, At
<1>7. ASSUME NEW s \in Shard PROVE GrowShard(s)
  BY <1>1, NoVoters DEF GrowShard, Growing
<1>8. GrowInv
  BY <1>1, <1>6, <1>7 DEF GrowInv, Grown
<1>9. OneInv
  BY <1>1, <1>6 DEF OneInv, Single, OneShard, OneCall, OneLess
<1>10. OwnInv
  BY <1>1, MembershipAssumption DEF Init, OwnInv
<1>. QED
  BY <1>3, <1>4, <1>5, <1>6, <1>8, <1>9, <1>10 DEF Inv, BaseInv

-----------------------------------------------------------------------------
(* What the steps of a call do.                                            *)

LEMMA RunningFacts ==
  ASSUME BaseInv, NEW k \in Operator, Running(k)
  PROVE  /\ call[k] \in Calls /\ call[k].node \in Node /\ call[k].via \in Node
         /\ call[k].todo \in Seq(Shard) /\ call[k].todo # <<>> /\ call[k].voters \in SUBSET Node
         /\ call[k].listed \in SUBSET Shard /\ call[k].kind \in {"add", "remove"}
         /\ Current(k) \in Shard
<1>1. call[k] \in Calls /\ CallInv(k)
  BY DEF BaseInv, TypeInv
<1>2. /\ call[k].todo \in Seq(Shard) /\ call[k].voters \in SUBSET Node
      /\ call[k].listed \in SUBSET Shard /\ call[k].kind \in {"add", "remove"}
  BY <1>1 DEF Calls
<1>3. call[k].node \in Node /\ call[k].via \in Node /\ call[k].todo # <<>>
  BY <1>1 DEF CallInv
<1>4. Current(k) \in Shard
  BY <1>2, <1>3, HeadTailProperties DEF Current
<1>. QED
  BY <1>1, <1>2, <1>3, <1>4

(* c goes on at pc, with nothing else changed.                             *)
Goes(c, d, pc) ==
  /\ d \in Calls /\ d.pc = pc
  /\ d.kind = c.kind /\ d.node = c.node /\ d.via = c.via
  /\ d.listed = c.listed /\ d.todo = c.todo

LEMMA GoesFacts ==
  ASSUME NEW c \in Calls, NEW pc \in Pc, NEW V \in SUBSET Node
  PROVE  /\ Goes(c, [c EXCEPT !.pc = pc], pc)
         /\ Goes(c, [c EXCEPT !.pc = pc, !.voters = V], pc)
         /\ [c EXCEPT !.pc = pc, !.voters = V].voters = V
  BY DEF Goes, Calls

(* The three kinds of proposal.                                            *)
Learner(k, s, c, ns) == c = configs[s] /\ ns = nodes[s] \cup {call[k].node}

Change(k, s, c, ns) ==
  /\ At(k, "change") /\ call[k].voters \in Voters /\ call[k].voters \subseteq nodes[s]
  /\ c = next_coherent(configs[s], call[k].voters) /\ ns = Kept(s, c)

Unjoin(k, s, c, ns) ==
  At(k, "uniform") /\ c = <<Goal(configs[s])>> /\ ns = Kept(s, c)

LEMMA Proposing ==
  ASSUME BaseInv, NEW k \in Operator, add_learner(k) \/ change_membership(k) \/ Uniform(k)
  PROVE  LET s == Current(k)
         IN  /\ Running(k) /\ call[k].pc \notin {"learning", "changing"}
             /\ s \in Shard /\ configs[s] \in Config /\ proposed[s] = None
             /\ UNCHANGED <<configs, nodes, leader, created, pool, listener, hist>>
             /\ \E c \in Config, ns \in SUBSET Node, d \in Calls :
                  /\ voter_ids(c) \subseteq ns
                  /\ proposed' = [proposed EXCEPT ![s] = [configs |-> c, nodes |-> ns, by |-> k]]
                  /\ call' = [call EXCEPT ![k] = d]
                  /\ \/ Learner(k, s, c, ns) /\ Goes(call[k], d, "learning")
                     \/ (Change(k, s, c, ns) \/ Unjoin(k, s, c, ns)) /\ Goes(call[k], d, "changing")
<1> DEFINE s == Current(k)
<1>1. Running(k) /\ call[k].pc \notin {"learning", "changing"}
  BY DEF add_learner, change_membership, Uniform, At, Running
<1>2. /\ call[k] \in Calls /\ call[k].node \in Node /\ call[k].via \in Node /\ s \in Shard
      /\ call[k].voters \in SUBSET Node /\ call \in [Operator -> Calls]
  BY <1>1, RunningFacts DEF BaseInv, TypeInv
<1>3. ~ Refused(k, s) /\ UNCHANGED <<configs, nodes, leader, created, pool, listener, hist>>
  BY DEF add_learner, change_membership, Uniform, Propose
<1>4. proposed[s] = None /\ leader[s] = call[k].via
  BY <1>3 DEF Refused
<1>5. ShardInv(s) /\ configs[s] \in Config \cup {<<>>} /\ nodes[s] \in SUBSET Node
  BY <1>2 DEF BaseInv, TypeInv
<1>6. configs[s] \in Config /\ voter_ids(configs[s]) \subseteq nodes[s]
  BY <1>2, <1>4, <1>5, MembershipAssumption DEF ShardInv
<1>7. Goal(configs[s]) \in Voters /\ Goal(configs[s]) \subseteq voter_ids(configs[s])
  BY <1>6, ConfigFacts
<1> HIDE DEF s
<1>8. CASE add_learner(k)
  <2> DEFINE d == [call[k] EXCEPT !.pc = "learning"]
             ns == nodes[s] \cup {call[k].node}
  <2>1. /\ proposed' = [proposed EXCEPT ![s] = [configs |-> configs[s], nodes |-> ns, by |-> k]]
        /\ call' = [call EXCEPT ![k] = d]
    BY <1>2, <1>8 DEF add_learner, Propose, s
  <2>2. Goes(call[k], d, "learning") /\ d \in Calls
    <3>1. "learning" \in Pc /\ {} \in SUBSET Node
      BY DEF Pc
    <3>2. Goes(call[k], d, "learning")
      BY <1>2, <3>1, GoesFacts
    <3> HIDE DEF d
    <3>. QED
      BY <3>2 DEF Goes
  <2>3. Learner(k, s, configs[s], ns) /\ ns \in SUBSET Node /\ voter_ids(configs[s]) \subseteq ns
    BY <1>2, <1>5, <1>6 DEF Learner
  <2> HIDE DEF d, ns
  <2>. QED
    BY <1>1, <1>2, <1>3, <1>4, <1>6, <2>1, <2>2, <2>3 DEF s
<1>9. CASE change_membership(k)
  <2> DEFINE d == [call[k] EXCEPT !.pc = "changing", !.voters = {}]
             c == next_coherent(configs[s], call[k].voters)
  <2>1. /\ proposed' = [proposed EXCEPT ![s] = [configs |-> c, nodes |-> Kept(s, c), by |-> k]]
        /\ call' = [call EXCEPT ![k] = d]
        /\ At(k, "change") /\ call[k].voters # {} /\ call[k].voters \subseteq nodes[s]
    BY <1>2, <1>9 DEF change_membership, Propose, Acceptable, s
  <2>2. Goes(call[k], d, "changing") /\ d \in Calls
    <3>1. "changing" \in Pc /\ {} \in SUBSET Node
      BY DEF Pc
    <3>2. Goes(call[k], d, "changing")
      BY <1>2, <3>1, GoesFacts
    <3> HIDE DEF d
    <3>. QED
      BY <3>2 DEF Goes
  <2>3. call[k].voters \in Voters
    BY <1>2, <2>1 DEF Voters
  <2>4. c \in Config /\ voter_ids(c) \subseteq call[k].voters \cup voter_ids(configs[s])
    BY <1>6, <2>3, CoherentFacts
  <2>5. Change(k, s, c, Kept(s, c))
    BY <2>1, <2>3 DEF Change
  <2> HIDE DEF d, c
  <2>6. Kept(s, c) \in SUBSET Node /\ voter_ids(c) \subseteq Kept(s, c)
    BY <1>5, <1>6, <2>1, <2>4 DEF Kept
  <2>. QED
    BY <1>1, <1>2, <1>3, <1>4, <1>6, <2>1, <2>2, <2>4, <2>5, <2>6 DEF s
<1>10. CASE Uniform(k)
  <2> DEFINE d == [call[k] EXCEPT !.pc = "changing"]
             c == <<Goal(configs[s])>>
  <2>1. /\ proposed' = [proposed EXCEPT ![s] = [configs |-> c, nodes |-> Kept(s, c), by |-> k]]
        /\ call' = [call EXCEPT ![k] = d]
        /\ At(k, "uniform")
    BY <1>2, <1>10 DEF Uniform, Propose, s
  <2>2. Goes(call[k], d, "changing") /\ d \in Calls
    <3>1. "changing" \in Pc /\ {} \in SUBSET Node
      BY DEF Pc
    <3>2. Goes(call[k], d, "changing")
      BY <1>2, <3>1, GoesFacts
    <3> HIDE DEF d
    <3>. QED
      BY <3>2 DEF Goes
  <2>3. c \in Config /\ voter_ids(c) \subseteq voter_ids(configs[s])
    BY <1>7, UniformFacts
  <2>4. Unjoin(k, s, c, Kept(s, c))
    BY <2>1 DEF Unjoin
  <2> HIDE DEF d, c
  <2>5. Kept(s, c) \in SUBSET Node /\ voter_ids(c) \subseteq Kept(s, c)
    BY <1>5, <1>6, <2>3 DEF Kept
  <2>. QED
    BY <1>1, <1>2, <1>3, <1>4, <1>6, <2>1, <2>2, <2>3, <2>4, <2>5 DEF s
<1>. QED
  BY <1>8, <1>9, <1>10

(* What a call does when its proposal is committed.                        *)
Moves(c, d) ==
  /\ d \in Calls
  /\ d.kind = c.kind /\ d.node = c.node /\ d.listed = c.listed
  /\ d.todo = Tail(c.todo)
  /\ \/ d.todo = <<>> /\ d.pc = "ok"
     \/ d.todo # <<>> /\ d.pc = First(c.kind) /\ d.via = c.via

Resumes(c, d, cs) ==
  \/ c.pc = "learning" /\ Goes(c, d, "read")
  \/ c.pc = "changing" /\ Len(cs) = 2 /\ Goes(c, d, "uniform")
  \/ c.pc = "changing" /\ Len(cs) = 1 /\ Moves(c, d)

LEMMA ResumeFacts ==
  ASSUME NEW c \in Calls, c.pc \in {"learning", "changing"}, c.todo # <<>>, NEW cs \in Config
  PROVE  Resumes(c, Resume(c, cs), cs)
<1>1. Len(cs) \in {1, 2}
  BY ConfigFacts
<1>2. "read" \in Pc /\ "uniform" \in Pc /\ "ok" \in Pc /\ First(c.kind) \in Pc /\ {} \in SUBSET Node
  BY DEF Pc, First
<1>3. CASE c.pc = "learning"
  <2>1. Resume(c, cs) = [c EXCEPT !.pc = "read"]
    BY <1>3 DEF Resume
  <2>2. Goes(c, [c EXCEPT !.pc = "read"], "read")
    BY <1>2, GoesFacts
  <2>. QED
    BY <1>3, <2>1, <2>2 DEF Resumes
<1>4. CASE c.pc = "changing" /\ Len(cs) = 2
  <2>1. Resume(c, cs) = [c EXCEPT !.pc = "uniform"]
    BY <1>4 DEF Resume
  <2>2. Goes(c, [c EXCEPT !.pc = "uniform"], "uniform")
    BY <1>2, GoesFacts
  <2>. QED
    BY <1>4, <2>1, <2>2 DEF Resumes
<1>5. CASE c.pc = "changing" /\ Len(cs) = 1
  <2>1. Resume(c, cs) = NextShard(c)
    BY <1>5 DEF Resume
  <2>2. Tail(c.todo) \in Seq(Shard)
    <3>1. c.todo \in Seq(Shard)
      BY DEF Calls
    <3>. QED
      BY <3>1, HeadTailProperties
  <2>3. CASE Tail(c.todo) = <<>>
    <3>1. NextShard(c) = [c EXCEPT !.pc = "ok", !.todo = Tail(c.todo), !.via = 0]
      BY <2>3 DEF NextShard
    <3>2. Moves(c, NextShard(c))
      BY <1>2, <2>2, <2>3, <3>1 DEF Moves, Calls
    <3>. QED
      BY <1>5, <2>1, <3>2 DEF Resumes
  <2>4. CASE Tail(c.todo) # <<>>
    <3>1. NextShard(c) = [c EXCEPT !.pc = First(c.kind), !.todo = Tail(c.todo)]
      BY <2>4 DEF NextShard
    <3>2. Moves(c, NextShard(c))
      BY <1>2, <2>2, <2>4, <3>1 DEF Moves, Calls
    <3>. QED
      BY <1>5, <2>1, <3>2 DEF Resumes
  <2>. QED
    BY <2>3, <2>4
<1>. QED
  BY <1>1, <1>3, <1>4, <1>5

LEMMA Committing ==
  ASSUME BaseInv, NEW s \in Shard, Commit(s)
  PROVE  LET p == proposed[s]
         IN  /\ p # None /\ p \in Entry /\ voter_ids(p.configs) \subseteq p.nodes
             /\ configs' = [configs EXCEPT ![s] = p.configs]
             /\ nodes' = [nodes EXCEPT ![s] = p.nodes]
             /\ proposed' = [proposed EXCEPT ![s] = None]
             /\ leader' \in [Shard -> Node \cup {NoLeader}] /\ \A t \in Shard \ {s} : leader'[t] = leader[t]
             /\ UNCHANGED <<created, pool, listener, hist>>
             /\ \/ p.by = None /\ UNCHANGED call
                \/ \E k \in Operator, d \in Calls :
                     /\ p.by = k /\ Current(k) = s /\ call[k].pc \in {"learning", "changing"}
                     /\ Resumes(call[k], d, p.configs)
                     /\ call' = [call EXCEPT ![k] = d]
<1> DEFINE p == proposed[s]
<1>1. ShardInv(s) /\ p # None /\ p \in Entry /\ leader \in [Shard -> Node \cup {NoLeader}]
  BY DEF BaseInv, TypeInv, Commit
<1>2. /\ configs' = [configs EXCEPT ![s] = p.configs]
      /\ nodes' = [nodes EXCEPT ![s] = p.nodes]
      /\ proposed' = [proposed EXCEPT ![s] = None]
      /\ leader' = [leader EXCEPT ![s] = IF @ \in voter_ids(p.configs) THEN @ ELSE NoLeader]
      /\ call' = IF p.by = None THEN call ELSE [call EXCEPT ![p.by] = Resume(call[p.by], p.configs)]
      /\ UNCHANGED <<created, pool, listener, hist>>
  BY DEF Commit
<1>3. voter_ids(p.configs) \subseteq p.nodes /\ p.configs \in Config /\ p.by \in Operator \cup {None}
  BY <1>1 DEF ShardInv, Entry
<1>4. leader' \in [Shard -> Node \cup {NoLeader}] /\ \A t \in Shard \ {s} : leader'[t] = leader[t]
  BY <1>1, <1>2
<1>5. ASSUME p.by # None
      PROVE  /\ Current(p.by) = s /\ call[p.by].pc \in {"learning", "changing"}
             /\ Resumes(call[p.by], Resume(call[p.by], p.configs), p.configs)
             /\ Resume(call[p.by], p.configs) \in Calls
  <2>1. p.by \in Operator /\ Current(p.by) = s /\ call[p.by].pc \in {"learning", "changing"}
    BY <1>1, <1>3, <1>5 DEF ShardInv
  <2>2. Running(p.by)
    BY <2>1 DEF Running
  <2>3. call[p.by] \in Calls /\ call[p.by].todo # <<>>
    BY <2>1, <2>2, RunningFacts
  <2>4. Resumes(call[p.by], Resume(call[p.by], p.configs), p.configs)
    BY <1>3, <2>1, <2>3, ResumeFacts
  <2>. QED
    BY <2>1, <2>4 DEF Resumes, Goes, Moves
<1> HIDE DEF p
<1>6. CASE p.by = None
  BY <1>1, <1>2, <1>3, <1>4, <1>6 DEF p
<1>7. CASE p.by # None
  BY <1>1, <1>2, <1>3, <1>4, <1>5, <1>7 DEF p
<1>. QED
  BY <1>6, <1>7

(* An election keeps the pending proposal, without its caller, or not.     *)
LEMMA Electing ==
  ASSUME BaseInv, NEW s \in Shard, NEW n \in Node, Elect(s, n)
  PROVE  LET p == proposed[s]
         IN  /\ configs[s] \in Config
             /\ leader' = [leader EXCEPT ![s] = n]
             /\ UNCHANGED <<configs, nodes, created, pool, listener>>
             /\ \E e \in Entry \cup {None} :
                  /\ proposed' = [proposed EXCEPT ![s] = e]
                  /\ e # None => /\ p # None /\ e.by = None
                                 /\ e.configs = p.configs /\ e.nodes = p.nodes
                  /\ e = None /\ p # None => hist'.dropped \/ p.by # None
             /\ \/ (p = None \/ p.by = None) /\ UNCHANGED call
                \/ /\ p # None /\ p.by \in Operator
                   /\ call' = [call EXCEPT ![p.by] = [NewCall EXCEPT !.pc = "error"]]
             /\ hist'.removed = hist.removed /\ hist'.overlapped = hist.overlapped
             /\ hist'.latest = hist.latest /\ (hist.dropped => hist'.dropped)
             /\ hist' \in Hist
<1> DEFINE p == proposed[s]
           kept == p # None /\ p.by = None
           drop == kept /\ proposed'[s] = None
<1>1. /\ CanCommit(s, configs[s]) /\ leader' = [leader EXCEPT ![s] = n]
      /\ \/ p # None /\ proposed' = [proposed EXCEPT ![s].by = None]
         \/ proposed' = [proposed EXCEPT ![s] = None]
      /\ call' = IF p = None \/ kept THEN call ELSE Fail(call, p.by)
      /\ hist' = [hist EXCEPT !.elections = IF leader[s] = NoLeader THEN @ ELSE @ + 1,
                              !.dropped = @ \/ drop]
      /\ UNCHANGED <<configs, nodes, created, pool, listener>>
  BY DEF Elect
<1>2. /\ proposed \in [Shard -> Entry \cup {None}] /\ configs[s] \in Config \cup {<<>>}
      /\ hist \in Hist
  BY DEF BaseInv, TypeInv
<1>3. configs[s] \in Config
  BY <1>1, <1>2 DEF CanCommit
<1> HIDE DEF drop
<1>4. /\ hist'.removed = hist.removed /\ hist'.overlapped = hist.overlapped
      /\ hist'.latest = hist.latest /\ hist'.dropped = (hist.dropped \/ drop)
      /\ hist' \in Hist
  <2> DEFINE b == hist.dropped \/ drop
             m == IF leader[s] = NoLeader THEN hist.elections ELSE hist.elections + 1
  <2>1. b \in BOOLEAN /\ hist' = [hist EXCEPT !.elections = m, !.dropped = b]
    BY <1>1
  <2>2. m \in Nat
    BY <1>2, SMT DEF Hist
  <2> HIDE DEF b, m
  <2>3. /\ hist'.removed = hist.removed /\ hist'.overlapped = hist.overlapped
        /\ hist'.latest = hist.latest /\ hist'.dropped = b /\ hist' \in Hist
    BY <1>2, <2>1, <2>2 DEF Hist
  <2>. QED
    BY <2>3 DEF b
<1>5. \/ (p = None \/ p.by = None) /\ UNCHANGED call
      \/ /\ p # None /\ p.by \in Operator
         /\ call' = [call EXCEPT ![p.by] = [NewCall EXCEPT !.pc = "error"]]
  <2>1. p # None => p.by \in Operator \cup {None}
    BY <1>2 DEF Entry
  <2>2. CASE p = None \/ kept
    BY <1>1, <2>2
  <2>3. CASE ~ (p = None \/ kept)
    <3>1. call' = Fail(call, p.by)
      BY <1>1, <2>3
    <3>. QED
      BY <2>1, <2>3, <3>1 DEF Fail
  <2>. QED
    BY <2>2, <2>3
<1>6. \E e \in Entry \cup {None} :
        /\ proposed' = [proposed EXCEPT ![s] = e]
        /\ e # None => /\ p # None /\ e.by = None
                       /\ e.configs = p.configs /\ e.nodes = p.nodes
        /\ e = None /\ p # None => drop \/ p.by # None
  <2>1. CASE p # None /\ proposed' = [proposed EXCEPT ![s].by = None]
    <3> DEFINE e == [p EXCEPT !.by = None]
    <3>1. proposed' = [proposed EXCEPT ![s] = e] /\ p \in Entry
      BY <1>2, <2>1
    <3>2. e \in Entry /\ e.by = None /\ e.configs = p.configs /\ e.nodes = p.nodes
      BY <3>1 DEF Entry
    <3> HIDE DEF e
    <3>3. proposed'[s] = e
      BY <1>2, <3>1
    <3>4. e = None => drop \/ p.by # None
      BY <2>1, <3>3 DEF drop
    <3>. QED
      BY <2>1, <3>1, <3>2, <3>4
  <2>2. CASE proposed' = [proposed EXCEPT ![s] = None]
    <3>1. proposed'[s] = None
      BY <1>2, <2>2
    <3>2. p # None => drop \/ p.by # None
      BY <3>1 DEF drop
    <3>. QED
      BY <2>2, <3>2
  <2>. QED
    BY <1>1, <2>1, <2>2
<1>7. drop => hist'.dropped
  BY <1>4
<1>8. hist.dropped => hist'.dropped
  BY <1>4
<1> HIDE DEF p
<1>. QED
  BY <1>1, <1>3, <1>4, <1>5, <1>6, <1>7, <1>8 DEF p

LEMMA Beginning ==
  ASSUME BaseInv, NEW k \in Operator, NEW kind \in {"add", "remove"}, NEW n \in Node,
         NEW via \in Node, Begin(k, kind, n, via)
  PROVE  /\ ~ Running(k) /\ UNCHANGED <<raft, created, pool, listener>>
         /\ \E d \in Calls :
              /\ call' = [call EXCEPT ![k] = d]
              /\ d.pc = First(kind) /\ d.kind = kind /\ d.node = n /\ d.via = via
              /\ d.todo # <<>> /\ Head(d.todo) = 0 /\ d.listed \subseteq Range(d.todo)
         /\ hist' \in Hist /\ hist'.latest = k /\ hist'.dropped = hist.dropped
         /\ ~ hist'.removed => ~ hist.removed /\ kind = "add"
         /\ ~ hist'.overlapped => ~ hist.overlapped /\ \A o \in Operator : ~ Running(o)
<1> DEFINE d == [pc |-> First(kind), kind |-> kind, node |-> n, via |-> via,
                 listed |-> pool[via], todo |-> list_shards(via), voters |-> {}]
           r == hist.removed \/ kind = "remove"
           o == hist.overlapped \/ \E a \in Operator : Running(a)
<1>1. /\ ~ Running(k) /\ UNCHANGED <<raft, created, pool, listener>>
      /\ call' = [call EXCEPT ![k] = d]
      /\ hist' = [hist EXCEPT !.calls = @ + 1, !.removed = r, !.overlapped = o, !.latest = k]
  BY DEF Begin
<1>2. pool[via] \in SUBSET Shard /\ 0 \in pool[via] /\ hist \in Hist
  BY DEF BaseInv, TypeInv, PoolInv
<1>3. /\ list_shards(via) \in Seq(Shard) /\ list_shards(via) # <<>>
      /\ Head(list_shards(via)) = 0 /\ pool[via] \subseteq Range(list_shards(via))
  BY <1>2, ListFacts
<1>4. First(kind) \in Pc
  BY DEF First, Pc
<1>5. /\ d \in Calls /\ d.pc = First(kind) /\ d.kind = kind /\ d.node = n /\ d.via = via
      /\ d.todo = list_shards(via) /\ d.listed = pool[via]
  BY <1>2, <1>3, <1>4 DEF Calls
<1>6. r \in BOOLEAN /\ o \in BOOLEAN
  OBVIOUS
<1>7. ~ r => ~ hist.removed /\ kind = "add"
  OBVIOUS
<1>8. ~ o => ~ hist.overlapped /\ \A a \in Operator : ~ Running(a)
  OBVIOUS
<1> HIDE DEF d, r, o
<1>9. /\ hist' \in Hist /\ hist'.latest = k /\ hist'.dropped = hist.dropped
      /\ hist'.removed = r /\ hist'.overlapped = o
  <2> DEFINE m == hist.calls + 1
  <2>1. hist.calls \in Nat /\ k \in Operator \cup {None}
    BY <1>2 DEF Hist
  <2>2. m \in Nat
    BY <2>1
  <2>3. hist' = [hist EXCEPT !.calls = m, !.removed = r, !.overlapped = o, !.latest = k]
    BY <1>1
  <2> HIDE DEF m
  <2>. QED
    BY <1>2, <1>6, <2>1, <2>2, <2>3 DEF Hist
<1>. QED
  BY <1>1, <1>3, <1>5, <1>7, <1>8, <1>9

-----------------------------------------------------------------------------
(* The steps preserve BaseInv.                                             *)

(* What another step leaves of a shard.                                    *)
ShardSame(s) ==
  /\ leader'[s] = leader[s] /\ configs'[s] = configs[s] /\ nodes'[s] = nodes[s]
  /\ proposed'[s] = proposed[s]

(* A shard's pending proposal does not notice steps of calls that have     *)
(* none in it.                                                             *)
LEMMA ShardFrame ==
  ASSUME NEW s \in Shard, ShardInv(s), ShardSame(s), NEW k \in Operator,
         proposed[s] # None => proposed[s].by # k,
         TypeInv, \A o \in Operator : o # k => call'[o] = call[o]
  PROVE  ShardInv(s)'
<1>1. proposed[s] # None /\ proposed[s].by # None =>
        call'[proposed[s].by] = call[proposed[s].by]
  BY DEF TypeInv, Entry
<1>. QED
  BY <1>1 DEF ShardInv, ShardSame, Current

(* A call goes on with what it is about.                                   *)
LEMMA CallFrame ==
  ASSUME NEW o \in Operator, CallInv(o), TypeInv, call'[o] = call[o], hist' = hist,
         \A s \in Shard : configs[s] # <<>> => configs'[s] # <<>>
  PROVE  CallInv(o)'
<1>1. CASE Running(o)
  <2>1. call[o].todo \in Seq(Shard) /\ call[o].todo # <<>>
    BY <1>1 DEF CallInv, TypeInv, Calls
  <2>2. Head(call[o].todo) \in Shard
    BY <2>1, HeadTailProperties
  <2>. QED
    BY <2>2 DEF CallInv, Running, Current
<1>2. CASE ~ Running(o)
  BY <1>2 DEF CallInv, Running, Current
<1>. QED
  BY <1>1, <1>2

LEMMA BasePropose ==
  ASSUME BaseInv, NEW k \in Operator, add_learner(k) \/ change_membership(k) \/ Uniform(k)
  PROVE  BaseInv'
<1> DEFINE s == Current(k)
<1>1. /\ Running(k) /\ call[k].pc \notin {"learning", "changing"}
      /\ s \in Shard /\ configs[s] \in Config /\ proposed[s] = None
      /\ UNCHANGED <<configs, nodes, leader, created, pool, listener, hist>>
  BY Proposing
<1>2. PICK c \in Config, ns \in SUBSET Node, d \in Calls :
        /\ voter_ids(c) \subseteq ns
        /\ proposed' = [proposed EXCEPT ![s] = [configs |-> c, nodes |-> ns, by |-> k]]
        /\ call' = [call EXCEPT ![k] = d]
        /\ Goes(call[k], d, "learning") \/ Goes(call[k], d, "changing")
  BY Proposing
<1> DEFINE e == [configs |-> c, nodes |-> ns, by |-> k]
<1>3. e \in Entry /\ e.configs = c /\ e.nodes = ns /\ e.by = k
  BY DEF Entry
<1>4. proposed' = [proposed EXCEPT ![s] = e]
  BY <1>2
<1>5. TypeInv /\ PoolInv /\ (\A t \in Shard : ShardInv(t)) /\ (\A o \in Operator : CallInv(o))
  BY DEF BaseInv
<1> HIDE DEF s, e
<1>6. /\ proposed'[s] = e /\ \A t \in Shard \ {s} : proposed'[t] = proposed[t]
      /\ call'[k] = d /\ \A o \in Operator : o # k => call'[o] = call[o]
  BY <1>1, <1>2, <1>4, <1>5 DEF TypeInv
<1>7. TypeInv'
  BY <1>1, <1>2, <1>3, <1>4, <1>5, SMT DEF TypeInv
<1>8. PoolInv'
  BY <1>1, <1>5 DEF PoolInv
<1>9. ASSUME NEW t \in Shard PROVE ShardInv(t)'
  <2>1. CASE t = s
    <3>1. call'[k].pc \in {"learning", "changing"} /\ Head(call'[k].todo) = s
      BY <1>2, <1>6 DEF Goes, s, Current
    <3>2. configs[s] # <<>>
      BY <1>1, ConfigFacts
    <3>. QED
      BY <1>1, <1>2, <1>3, <1>5, <1>6, <2>1, <3>1, <3>2 DEF ShardInv, Current
  <2>2. CASE t # s
    <3>1. proposed[t] # None => proposed[t].by # k
      BY <1>1, <1>5, MembershipAssumption DEF ShardInv
    <3>2. ShardSame(t)
      BY <1>1, <1>6, <2>2 DEF ShardSame
    <3>. QED
      BY <1>5, <1>6, <3>1, <3>2, ShardFrame
  <2>. QED
    BY <2>1, <2>2
<1>10. ASSUME NEW o \in Operator PROVE CallInv(o)'
  <2>1. CASE o = k
    <3>1. CallInv(k) /\ configs[s] # <<>>
      BY <1>1, <1>5, ConfigFacts
    <3>2. call'[k].todo = call[k].todo /\ Head(call'[k].todo) = s
      BY <1>2, <1>6 DEF Goes, s, Current
    <3>3. /\ call'[k].kind = call[k].kind /\ call'[k].node = call[k].node
          /\ call'[k].via = call[k].via /\ call'[k].pc \in {"learning", "changing"}
      BY <1>2, <1>6 DEF Goes
    <3>. QED
      BY <1>1, <2>1, <3>1, <3>2, <3>3 DEF CallInv, Current
  <2>2. CASE o # k
    BY <1>1, <1>5, <1>6, <2>2, CallFrame
  <2>. QED
    BY <2>1, <2>2
<1>. QED
  BY <1>7, <1>8, <1>9, <1>10 DEF BaseInv

LEMMA EffectiveFacts ==
  ASSUME TypeInv, NEW s \in Shard
  PROVE  Effective(s) \in Config \cup {<<>>} /\ voter_ids(Effective(s)) \in SUBSET Node
<1>1. Effective(s) \in Config \cup {<<>>}
  BY DEF Effective, TypeInv, Entry
<1>. QED
  BY <1>1, ConfigFacts, NoVoters

(* What read_voters keeps for change_membership.                           *)
Wanted(k) == LET now == voter_ids(Effective(Current(k)))
             IN  IF call[k].kind = "add" THEN now \cup {call[k].node} ELSE now \ {call[k].node}

LEMMA Reading ==
  ASSUME BaseInv, NEW k \in Operator, read_voters(k)
  PROVE  /\ Running(k) /\ At(k, "read") /\ Current(k) \in Shard
         /\ UNCHANGED <<raft, created, pool, listener, hist>>
         /\ \E d \in Calls : /\ call' = [call EXCEPT ![k] = d]
                            /\ Goes(call[k], d, "change") /\ d.voters = Wanted(k)
<1>1. /\ At(k, "read") /\ UNCHANGED <<raft, created, pool, listener, hist>>
      /\ call' = [call EXCEPT ![k].pc = "change", ![k].voters = Wanted(k)]
  BY DEF read_voters, Wanted
<1>2. Running(k)
  BY <1>1 DEF At, Running
<1>3. call[k] \in Calls /\ call[k].node \in Node /\ Current(k) \in Shard
  BY <1>2, RunningFacts
<1>4. call \in [Operator -> Calls] /\ TypeInv
  BY DEF BaseInv, TypeInv
<1>5. voter_ids(Effective(Current(k))) \in SUBSET Node
  BY <1>3, <1>4, EffectiveFacts
<1>6. Wanted(k) \in SUBSET Node /\ "change" \in Pc
  BY <1>3, <1>5 DEF Wanted, Pc
<1> DEFINE d == [call[k] EXCEPT !.pc = "change", !.voters = Wanted(k)]
<1>7. call' = [call EXCEPT ![k] = d]
  BY <1>1, <1>4
<1>8. Goes(call[k], d, "change") /\ d.voters = Wanted(k)
  BY <1>3, <1>6, GoesFacts
<1> HIDE DEF d
<1>9. d \in Calls
  BY <1>8 DEF Goes
<1>. QED
  BY <1>1, <1>2, <1>3, <1>7, <1>8, <1>9

Error == [NewCall EXCEPT !.pc = "error"]

LEMMA ErrorFacts == Error \in Calls /\ Error.pc = "error"
<1>1. NewCall \in Calls
  BY DEF NewCall, Calls, Pc
<1>2. "error" \in Pc
  BY DEF Pc
<1>. QED
  BY <1>1, <1>2 DEF Error, Calls

LEMMA Failing ==
  ASSUME NEW k \in Operator, CallFails(k)
  PROVE  /\ Running(k) /\ call[k].pc \notin {"learning", "changing"}
         /\ UNCHANGED <<raft, created, pool, listener, hist>>
         /\ call' = [call EXCEPT ![k] = Error]
  BY DEF CallFails, Fail, Error, Running, At

-----------------------------------------------------------------------------

LEMMA BaseOne ==
  ASSUME BaseInv, NEW k \in Operator, NEW d \in Calls, call[k].pc \notin {"learning", "changing"},
         call' = [call EXCEPT ![k] = d], UNCHANGED <<raft, created, pool, listener>>,
         hist' \in Hist, \A o \in Operator : CallInv(o)'
  PROVE  BaseInv'
<1>1. TypeInv /\ PoolInv /\ (\A t \in Shard : ShardInv(t))
  BY DEF BaseInv
<1>2. /\ configs' = configs /\ nodes' = nodes /\ proposed' = proposed /\ leader' = leader
      /\ created' = created /\ pool' = pool /\ listener' = listener
  BY DEF raft
<1>3. TypeInv'
  BY <1>1, <1>2 DEF TypeInv
<1>4. PoolInv'
  BY <1>1, <1>2 DEF PoolInv
<1>5. ASSUME NEW t \in Shard PROVE ShardInv(t)'
  <2>1. proposed[t] # None => proposed[t].by # k
    BY <1>1, MembershipAssumption DEF ShardInv
  <2>2. ShardSame(t)
    BY <1>2 DEF ShardSame
  <2>3. \A o \in Operator : o # k => call'[o] = call[o]
    BY <1>1 DEF TypeInv
  <2>. QED
    BY <1>1, <2>1, <2>2, <2>3, ShardFrame
<1>. QED
  BY <1>3, <1>4, <1>5 DEF BaseInv

LEMMA BaseRead ==
  ASSUME BaseInv, NEW k \in Operator, read_voters(k)
  PROVE  BaseInv'
<1>1. /\ Running(k) /\ At(k, "read") /\ Current(k) \in Shard
      /\ UNCHANGED <<raft, created, pool, listener, hist>>
  BY Reading
<1>2. PICK d \in Calls : call' = [call EXCEPT ![k] = d] /\ Goes(call[k], d, "change")
  BY Reading
<1>3. /\ TypeInv /\ hist \in Hist /\ hist' = hist /\ configs' = configs
      /\ (\A o \in Operator : CallInv(o)) /\ call \in [Operator -> Calls]
  BY <1>1 DEF BaseInv, TypeInv, raft
<1>4. call'[k] = d /\ \A o \in Operator : o # k => call'[o] = call[o]
  BY <1>2, <1>3
<1>5. ASSUME NEW o \in Operator PROVE CallInv(o)'
  <2>1. CASE o = k
    <3>1. CallInv(k)
      BY <1>3
    <3>. QED
      BY <1>1, <1>2, <1>3, <1>4, <2>1, <3>1 DEF CallInv, Goes, Current, At
  <2>2. CASE o # k
    BY <1>3, <1>4, <2>2, CallFrame
  <2>. QED
    BY <2>1, <2>2
<1>6. call[k].pc \notin {"learning", "changing"}
  BY <1>1 DEF At
<1>. QED
  BY <1>1, <1>2, <1>3, <1>5, <1>6, BaseOne

LEMMA BaseFail ==
  ASSUME BaseInv, NEW k \in Operator, CallFails(k)
  PROVE  BaseInv'
<1>1. /\ call[k].pc \notin {"learning", "changing"} /\ call' = [call EXCEPT ![k] = Error]
      /\ UNCHANGED <<raft, created, pool, listener, hist>>
  BY Failing
<1>2. /\ TypeInv /\ hist \in Hist /\ hist' = hist /\ configs' = configs
      /\ (\A o \in Operator : CallInv(o)) /\ call \in [Operator -> Calls]
  BY <1>1 DEF BaseInv, TypeInv, raft
<1>3. call'[k] = Error /\ \A o \in Operator : o # k => call'[o] = call[o]
  BY <1>1, <1>2
<1>4. ASSUME NEW o \in Operator PROVE CallInv(o)'
  <2>1. CASE o = k
    BY <1>3, <2>1, ErrorFacts DEF CallInv, Running
  <2>2. CASE o # k
    BY <1>2, <1>3, <2>2, CallFrame
  <2>. QED
    BY <2>1, <2>2
<1>. QED
  BY <1>1, <1>2, <1>4, BaseOne, ErrorFacts

LEMMA BaseBegin ==
  ASSUME BaseInv, NEW k \in Operator, NEW kind \in {"add", "remove"}, NEW n \in Node,
         NEW via \in Node, Begin(k, kind, n, via)
  PROVE  BaseInv'
<1>1. /\ ~ Running(k) /\ UNCHANGED <<raft, created, pool, listener>>
      /\ hist' \in Hist /\ hist'.latest = k
      /\ ~ hist'.removed => ~ hist.removed /\ kind = "add"
      /\ ~ hist'.overlapped => ~ hist.overlapped /\ \A o \in Operator : ~ Running(o)
  BY Beginning, SMT
<1>2. PICK d \in Calls :
        /\ call' = [call EXCEPT ![k] = d] /\ d.pc = First(kind) /\ d.kind = kind
        /\ d.node = n /\ d.via = via /\ d.todo # <<>>
  BY Beginning, SMT
<1>3. (\A o \in Operator : CallInv(o)) /\ call \in [Operator -> Calls] /\ configs' = configs
  BY <1>1 DEF BaseInv, TypeInv, raft
<1>4. call'[k] = d /\ \A o \in Operator : o # k => call'[o] = call[o]
  BY <1>2, <1>3
<1>5. ASSUME NEW o \in Operator PROVE CallInv(o)'
  <2>1. CASE o = k
    <3>1. (kind = "add" => d.pc = "add_learner") /\ d.pc # "ok"
      BY <1>2 DEF First
    <3>. QED
      BY <1>1, <1>2, <1>4, <2>1, <3>1 DEF CallInv
  <2>2. CASE o # k
    <3>1. CallInv(o) /\ call'[o] = call[o]
      BY <1>3, <1>4, <2>2
    <3>. QED
      BY <1>1, <1>3, <3>1 DEF CallInv, Running, Current
  <2>. QED
    BY <2>1, <2>2
<1>6. call[k].pc \notin {"learning", "changing"}
  BY <1>1 DEF Running
<1>. QED
  BY <1>1, <1>2, <1>5, <1>6, BaseOne

LEMMA BaseCommit ==
  ASSUME BaseInv, NEW s \in Shard, Commit(s)
  PROVE  BaseInv'
<1> DEFINE p == proposed[s]
<1>1. /\ p # None /\ p \in Entry /\ voter_ids(p.configs) \subseteq p.nodes
      /\ configs' = [configs EXCEPT ![s] = p.configs]
      /\ nodes' = [nodes EXCEPT ![s] = p.nodes]
      /\ proposed' = [proposed EXCEPT ![s] = None]
      /\ leader' \in [Shard -> Node \cup {NoLeader}] /\ \A t \in Shard \ {s} : leader'[t] = leader[t]
      /\ UNCHANGED <<created, pool, listener, hist>>
  BY Committing
<1>2. \/ p.by = None /\ UNCHANGED call
      \/ \E k \in Operator, d \in Calls :
           /\ p.by = k /\ Current(k) = s /\ call[k].pc \in {"learning", "changing"}
           /\ Resumes(call[k], d, p.configs)
           /\ call' = [call EXCEPT ![k] = d]
  BY Committing
<1>3. p.configs \in Config /\ p.nodes \in SUBSET Node
  BY <1>1 DEF Entry
<1>4. p.configs # <<>>
  BY <1>3, ConfigFacts
<1>5. TypeInv /\ PoolInv /\ (\A t \in Shard : ShardInv(t)) /\ (\A o \in Operator : CallInv(o))
  BY DEF BaseInv
<1>6. /\ configs'[s] = p.configs /\ nodes'[s] = p.nodes /\ proposed'[s] = None
      /\ \A t \in Shard \ {s} : ShardSame(t)
  BY <1>1, <1>5 DEF TypeInv, ShardSame
<1>7. \A t \in Shard : configs[t] # <<>> => configs'[t] # <<>>
  BY <1>4, <1>6 DEF ShardSame
<1> HIDE DEF p
<1>8. call' \in [Operator -> Calls]
  BY <1>2, <1>5 DEF TypeInv
<1>9. TypeInv'
  BY <1>1, <1>3, <1>5, <1>8 DEF TypeInv
<1>10. PoolInv'
  BY <1>1, <1>5 DEF PoolInv
<1>11. ShardInv(s)'
  BY <1>1, <1>4, <1>6 DEF ShardInv
<1>12. CASE p.by = None /\ UNCHANGED call
  <2>1. ASSUME NEW t \in Shard \ {s} PROVE ShardInv(t)'
    BY <1>5, <1>6, <1>12 DEF ShardInv, ShardSame, Current
  <2>2. ASSUME NEW o \in Operator PROVE CallInv(o)'
    <3>1. call'[o] = call[o] /\ hist' = hist
      BY <1>1, <1>12
    <3>. QED
      BY <1>5, <1>7, <3>1, CallFrame
  <2>. QED
    BY <1>9, <1>10, <1>11, <2>1, <2>2 DEF BaseInv
<1>13. ASSUME NEW k \in Operator, NEW d \in Calls,
              p.by = k, Current(k) = s, call[k].pc \in {"learning", "changing"},
              Resumes(call[k], d, p.configs), call' = [call EXCEPT ![k] = d]
       PROVE  BaseInv'
  <2>1. call'[k] = d /\ \A o \in Operator : o # k => call'[o] = call[o]
    BY <1>5, <1>13 DEF TypeInv
  <2>2. ASSUME NEW t \in Shard \ {s} PROVE ShardInv(t)'
    <3>1. proposed[t] # None => proposed[t].by # k
      BY <1>5, <1>13, MembershipAssumption DEF ShardInv
    <3>2. ShardSame(t)
      BY <1>6
    <3>. QED
      BY <1>5, <2>1, <3>1, <3>2, ShardFrame
  <2>3. CallInv(k)'
    <3>1. CallInv(k) /\ Running(k) /\ hist' = hist
      BY <1>1, <1>5, <1>13 DEF Running
    <3>2. CASE call[k].pc = "learning" /\ Goes(call[k], d, "read")
      <4>1. Head(d.todo) = s
        BY <1>13, <3>2 DEF Goes, Current
      <4>. QED
        BY <1>4, <1>6, <2>1, <3>1, <3>2, <4>1 DEF CallInv, Goes, Current
    <3>3. CASE call[k].pc = "changing" /\ Goes(call[k], d, "uniform")
      BY <2>1, <3>1, <3>3 DEF CallInv, Goes, Current
    <3>4. CASE Moves(call[k], d)
      <4>1. (d.pc = "ok" /\ d.todo = <<>>) \/ (d.todo # <<>> /\ d.via = call[k].via /\
                             d.pc = IF call[k].kind = "add" THEN "add_learner" ELSE "read")
        BY <3>4 DEF Moves, First
      <4>2. d.kind = call[k].kind /\ d.node = call[k].node
        BY <3>4 DEF Moves
      <4>. QED
        BY <2>1, <3>1, <4>1, <4>2 DEF CallInv, Running
    <3>. QED
      BY <1>13, <3>2, <3>3, <3>4 DEF Resumes
  <2>4. ASSUME NEW o \in Operator, o # k PROVE CallInv(o)'
    <3>1. call'[o] = call[o] /\ hist' = hist
      BY <1>1, <2>1, <2>4
    <3>. QED
      BY <1>5, <1>7, <3>1, CallFrame
  <2>. QED
    BY <1>9, <1>10, <1>11, <2>2, <2>3, <2>4 DEF BaseInv
<1>. QED
  BY <1>2, <1>12, <1>13

LEMMA BaseElect ==
  ASSUME BaseInv, NEW s \in Shard, NEW n \in Node, Elect(s, n)
  PROVE  BaseInv'
<1> DEFINE p == proposed[s]
<1>1. /\ configs[s] \in Config
      /\ leader' = [leader EXCEPT ![s] = n]
      /\ UNCHANGED <<configs, nodes, created, pool, listener>>
      /\ hist'.removed = hist.removed /\ hist'.overlapped = hist.overlapped
      /\ hist'.latest = hist.latest /\ hist' \in Hist
  BY Electing, SMT
<1>2. PICK e \in Entry \cup {None} :
        /\ proposed' = [proposed EXCEPT ![s] = e]
        /\ e # None => p # None /\ e.by = None /\ e.configs = p.configs /\ e.nodes = p.nodes
  BY Electing
<1>3. \/ (p = None \/ p.by = None) /\ UNCHANGED call
      \/ p # None /\ p.by \in Operator /\ call' = [call EXCEPT ![p.by] = Error]
  BY Electing DEF Error
<1>4. TypeInv /\ PoolInv /\ (\A t \in Shard : ShardInv(t)) /\ (\A o \in Operator : CallInv(o))
  BY DEF BaseInv
<1>5. /\ configs' = configs /\ nodes' = nodes /\ proposed'[s] = e
      /\ \A t \in Shard \ {s} : ShardSame(t)
  BY <1>1, <1>2, <1>4 DEF TypeInv, ShardSame
<1>6. configs[s] # <<>> /\ ShardInv(s)
  BY <1>1, <1>4, ConfigFacts
<1> HIDE DEF p
<1>7. call' \in [Operator -> Calls]
  BY <1>3, <1>4, ErrorFacts DEF TypeInv
<1>8. TypeInv'
  BY <1>1, <1>2, <1>4, <1>7 DEF TypeInv
<1>9. PoolInv'
  BY <1>1, <1>4 DEF PoolInv
<1>10. ShardInv(s)'
  BY <1>2, <1>5, <1>6 DEF ShardInv, p
<1>11. ASSUME NEW o \in Operator, call'[o] = call[o] PROVE CallInv(o)'
  BY <1>1, <1>4, <1>11 DEF CallInv, Running, Current
<1>12. CASE UNCHANGED call
  <2>1. ASSUME NEW t \in Shard \ {s} PROVE ShardInv(t)'
    BY <1>4, <1>5, <1>12 DEF ShardInv, ShardSame, Current
  <2>. QED
    BY <1>8, <1>9, <1>10, <1>11, <1>12, <2>1 DEF BaseInv
<1>13. ASSUME NEW k \in Operator, p # None, p.by = k, call' = [call EXCEPT ![k] = Error]
       PROVE  BaseInv'
  <2>1. call'[k] = Error /\ \A o \in Operator : o # k => call'[o] = call[o]
    BY <1>4, <1>13 DEF TypeInv
  <2>2. Current(k) = s
    BY <1>6, <1>13, MembershipAssumption DEF ShardInv, p
  <2>3. ASSUME NEW t \in Shard \ {s} PROVE ShardInv(t)'
    <3>1. proposed[t] # None => proposed[t].by # k
      BY <1>4, <1>13, <2>2, MembershipAssumption DEF ShardInv
    <3>2. ShardSame(t)
      BY <1>5
    <3>. QED
      BY <1>4, <1>13, <2>1, <3>1, <3>2, ShardFrame
  <2>4. CallInv(k)'
    BY <2>1, ErrorFacts DEF CallInv, Running
  <2>. QED
    BY <1>8, <1>9, <1>10, <1>11, <2>1, <2>3, <2>4 DEF BaseInv
<1>. QED
  BY <1>3, <1>12, <1>13

(* cluster_init and initialize start a shard s with the members m.         *)
Starts(s, m) ==
  /\ configs[s] = <<>> /\ m \in Voters
  /\ configs' = [configs EXCEPT ![s] = <<m>>]
  /\ nodes' = [nodes EXCEPT ![s] = m]

LEMMA BaseStart ==
  ASSUME BaseInv, NEW s \in Shard, NEW m, Starts(s, m),
         UNCHANGED <<proposed, leader, created, pool, call, hist>>,
         listener' \in [Node -> Listeners \cup {None}],
         \A n \in Node : listener'[n] # None => listener'[n].shard \in created
  PROVE  BaseInv'
<1>1. TypeInv /\ PoolInv /\ (\A t \in Shard : ShardInv(t)) /\ (\A o \in Operator : CallInv(o))
  BY DEF BaseInv
<1>2. <<m>> \in Config /\ <<m>> # <<>> /\ voter_ids(<<m>>) = m /\ m \in SUBSET Node
  BY UniformFacts DEF Starts, Voters
<1>3. /\ configs'[s] = <<m>> /\ nodes'[s] = m
      /\ \A t \in Shard \ {s} : ShardSame(t)
  BY <1>1 DEF TypeInv, ShardSame, Starts
<1>4. proposed[s] = None /\ proposed' = proposed
  BY <1>1 DEF ShardInv, Starts
<1>5. TypeInv'
  BY <1>1, <1>2 DEF TypeInv, Starts
<1>6. PoolInv'
  BY <1>1 DEF PoolInv
<1>7. ShardInv(s)'
  BY <1>2, <1>3, <1>4 DEF ShardInv
<1>8. ASSUME NEW t \in Shard \ {s} PROVE ShardInv(t)'
  BY <1>1, <1>3 DEF ShardInv, ShardSame, Current
<1>9. \A t \in Shard : configs[t] # <<>> => configs'[t] # <<>>
  BY <1>2, <1>3 DEF ShardSame
<1>10. ASSUME NEW o \in Operator PROVE CallInv(o)'
  BY <1>1, <1>9, CallFrame
<1>. QED
  BY <1>5, <1>6, <1>7, <1>8, <1>10 DEF BaseInv

(* The steps of shards' creation change no shard's membership.             *)
LEMMA BaseCreate ==
  ASSUME BaseInv, UNCHANGED <<raft, call, hist>>, TypeInv', PoolInv'
  PROVE  BaseInv'
<1>1. (\A t \in Shard : ShardInv(t)) /\ (\A o \in Operator : CallInv(o))
  BY DEF BaseInv
<1>2. configs' = configs /\ nodes' = nodes /\ proposed' = proposed /\ leader' = leader
  BY DEF raft
<1>3. ASSUME NEW t \in Shard PROVE ShardInv(t)'
  BY <1>1, <1>2 DEF ShardInv, Current
<1>4. ASSUME NEW o \in Operator PROVE CallInv(o)'
  BY <1>1, <1>2 DEF CallInv, Running, Current
<1>. QED
  BY <1>3, <1>4 DEF BaseInv

(* What the listener of a node does.                                       *)
LEMMA Creating ==
  ASSUME BaseInv, NEW n \in Node, NEW s \in Shard, CreateShard(n, s)
  PROVE  /\ UNCHANGED <<raft, created, call, hist>> /\ TypeInv' /\ PoolInv'
         /\ \A a \in Node : listener'[a] # None =>
              listener'[a].members = {} \/ listener'[a] = listener[a]
<1> DEFINE w == IF leader[0] = n THEN [pc |-> "members", shard |-> s, members |-> {}] ELSE None
<1>1. /\ UNCHANGED <<raft, created, call, hist>> /\ s \in created
      /\ pool' = [pool EXCEPT ![n] = @ \cup {s}]
      /\ listener' = [listener EXCEPT ![n] = w]
  BY DEF CreateShard
<1>2. TypeInv /\ PoolInv
  BY DEF BaseInv
<1>3. w \in Listeners \cup {None} /\ (w # None => w.shard = s /\ w.members = {})
  BY DEF Listeners
<1> HIDE DEF w
<1>4. TypeInv'
  BY <1>1, <1>2, <1>3 DEF TypeInv, raft
<1>5. pool \in [Node -> SUBSET Shard] /\ listener \in [Node -> Listeners \cup {None}]
  BY <1>2 DEF TypeInv
<1>6. PoolInv'
  BY <1>1, <1>2, <1>3, <1>5 DEF PoolInv
<1>. QED
  BY <1>1, <1>3, <1>4, <1>5, <1>6

LEMMA Asking ==
  ASSUME BaseInv, NEW n \in Node, get_current_members(n)
  PROVE  /\ UNCHANGED <<raft, created, pool, call, hist>> /\ TypeInv' /\ PoolInv'
         /\ \A a \in Node : listener'[a] # None =>
              listener'[a].members \subseteq voter_ids(Effective(0)) \/ listener'[a] = listener[a]
<1> DEFINE m == voter_ids(Effective(0)) \cap ({n} \cup Peers[n])
           w == [listener[n] EXCEPT !.pc = "initialize", !.members = m]
<1>1. TypeInv /\ PoolInv /\ listener \in [Node -> Listeners \cup {None}]
  BY DEF BaseInv, TypeInv
<1>2. /\ UNCHANGED <<raft, created, pool, call, hist>> /\ listener[n] # None
      /\ listener' = [listener EXCEPT ![n] = w]
  BY <1>1 DEF get_current_members
<1>3. m \in SUBSET Node /\ m \subseteq voter_ids(Effective(0))
  BY <1>1, EffectiveFacts, MembershipAssumption
<1>4. listener[n] \in Listeners
  BY <1>1, <1>2
<1> HIDE DEF m
<1>5. w \in Listeners /\ w.shard = listener[n].shard /\ w.members = m
  BY <1>3, <1>4 DEF Listeners
<1> HIDE DEF w
<1>6. TypeInv'
  BY <1>1, <1>2, <1>5 DEF TypeInv, raft
<1>7. PoolInv'
  BY <1>1, <1>2, <1>5 DEF PoolInv
<1>. QED
  BY <1>1, <1>2, <1>3, <1>5, <1>6, <1>7

LEMMA Initializing ==
  ASSUME BaseInv, NEW n \in Node, initialize(n)
  PROVE  LET s == listener[n].shard
             m == listener[n].members
         IN  /\ UNCHANGED <<created, pool, hist>>
             /\ listener' = [listener EXCEPT ![n] = None]
             /\ listener' \in [Node -> Listeners \cup {None}]
             /\ \A a \in Node : listener'[a] # None => listener'[a] = listener[a]
             /\ listener[n] # None /\ s \in Shard \ {0}
             /\ \/ /\ TakeOver(s, m) /\ m \in Voters /\ m \notin founded[s]
                   /\ founded' = [founded EXCEPT ![s] = @ \cup {m}]
                \/ UNCHANGED <<raft, call>>
<1> DEFINE s == listener[n].shard
           m == listener[n].members
<1>1. /\ TypeInv /\ PoolInv /\ listener \in [Node -> Listeners \cup {None}]
      /\ created \in SUBSET (Shard \ {0})
  BY DEF BaseInv, TypeInv
<1>2. /\ UNCHANGED <<created, pool, hist>> /\ listener[n] # None
      /\ listener' = [listener EXCEPT ![n] = None]
      /\ \/ /\ n \in m /\ m \notin founded[s] /\ TakeOver(s, m)
            /\ founded' = [founded EXCEPT ![s] = @ \cup {m}]
         \/ UNCHANGED <<raft, call>>
  BY DEF initialize
<1>3. s \in created /\ m \in SUBSET Node
  BY <1>1, <1>2 DEF PoolInv, Listeners
<1>4. n \in m => m \in Voters
  BY <1>3 DEF Voters
<1> HIDE DEF s, m
<1>5. /\ listener' \in [Node -> Listeners \cup {None}]
      /\ \A a \in Node : listener'[a] # None => listener'[a] = listener[a]
  BY <1>1, <1>2
<1>. QED
  BY <1>1, <1>2, <1>3, <1>4, <1>5 DEF s, m

(* A list that no instance of the shard was initialized with.              *)
LEMMA BaseTakeOver ==
  ASSUME BaseInv, NEW s \in Shard, NEW m \in Voters, TakeOver(s, m), UNCHANGED <<created, pool, hist>>,
         listener' \in [Node -> Listeners \cup {None}],
         \A n \in Node : listener'[n] # None => listener'[n].shard \in created
  PROVE  BaseInv'
<1> DEFINE p == proposed[s]
<1>1. TypeInv /\ PoolInv /\ (\A t \in Shard : ShardInv(t)) /\ (\A o \in Operator : CallInv(o))
  BY DEF BaseInv
<1>2. <<m>> \in Config /\ <<m>> # <<>> /\ voter_ids(<<m>>) = m /\ m \in SUBSET Node
  BY UniformFacts DEF Voters
<1>3. /\ configs' = [configs EXCEPT ![s] = <<m>>] /\ nodes' = [nodes EXCEPT ![s] = m]
      /\ proposed' = [proposed EXCEPT ![s] = None] /\ leader' = [leader EXCEPT ![s] = NoLeader]
      /\ call' = IF p = None \/ p.by = None THEN call ELSE Fail(call, p.by)
  BY DEF TakeOver
<1>4. p # None => p \in Entry /\ p.by \in Operator \cup {None}
  BY <1>1 DEF TypeInv, Entry
<1>5. \/ UNCHANGED call
      \/ p # None /\ p.by # None /\ p.by \in Operator /\ call' = [call EXCEPT ![p.by] = Error]
  BY <1>3, <1>4 DEF Fail, Error
<1>6. /\ configs'[s] = <<m>> /\ nodes'[s] = m /\ proposed'[s] = None /\ leader'[s] = NoLeader
      /\ \A t \in Shard \ {s} : ShardSame(t)
  BY <1>1, <1>3 DEF TypeInv, ShardSame
<1>7. ShardInv(s)
  BY <1>1
<1> HIDE DEF p
<1>8. call' \in [Operator -> Calls]
  BY <1>1, <1>5, ErrorFacts DEF TypeInv
<1>9. TypeInv'
  BY <1>1, <1>2, <1>3, <1>8 DEF TypeInv
<1>10. PoolInv'
  BY <1>1 DEF PoolInv
<1>11. ShardInv(s)'
  BY <1>2, <1>6 DEF ShardInv
<1>12. \A t \in Shard : configs[t] # <<>> => configs'[t] # <<>>
  BY <1>2, <1>6 DEF ShardSame
<1>13. ASSUME NEW o \in Operator, call'[o] = call[o] PROVE CallInv(o)'
  BY <1>1, <1>12, <1>13, CallFrame
<1>14. CASE UNCHANGED call
  <2>1. ASSUME NEW t \in Shard \ {s} PROVE ShardInv(t)'
    BY <1>1, <1>6, <1>14 DEF ShardInv, ShardSame, Current
  <2>. QED
    BY <1>9, <1>10, <1>11, <1>13, <1>14, <2>1 DEF BaseInv
<1>15. ASSUME NEW k \in Operator, p # None, p.by = k, call' = [call EXCEPT ![k] = Error]
       PROVE  BaseInv'
  <2>1. call'[k] = Error /\ \A o \in Operator : o # k => call'[o] = call[o]
    BY <1>1, <1>15 DEF TypeInv
  <2>2. Current(k) = s
    BY <1>7, <1>15, MembershipAssumption DEF ShardInv, p
  <2>3. ASSUME NEW t \in Shard \ {s} PROVE ShardInv(t)'
    <3>1. proposed[t] # None => proposed[t].by # k
      BY <1>1, <1>15, <2>2, MembershipAssumption DEF ShardInv
    <3>2. ShardSame(t)
      BY <1>6
    <3>. QED
      BY <1>1, <1>15, <2>1, <3>1, <3>2, ShardFrame
  <2>4. CallInv(k)'
    BY <2>1, ErrorFacts DEF CallInv, Running
  <2>. QED
    BY <1>9, <1>10, <1>11, <1>13, <2>1, <2>3, <2>4 DEF BaseInv
<1>. QED
  BY <1>5, <1>14, <1>15

(* The actions of Next, one by one.                                        *)
LEMMA Steps ==
  ASSUME [Next]_vars
  PROVE  \/ \E n \in Node : cluster_init(n)
         \/ \E k \in Operator, n, via \in Node, kind \in {"add", "remove"} : Begin(k, kind, n, via)
         \/ \E k \in Operator : add_learner(k) \/ change_membership(k) \/ Uniform(k)
         \/ \E k \in Operator : read_voters(k)
         \/ \E k \in Operator : CallFails(k)
         \/ \E s \in Shard : Commit(s)
         \/ \E s \in Shard, n \in Node : Elect(s, n)
         \/ \E s \in Shard : shard_create(s)
         \/ \E s \in Shard, n \in Node : Contact(s, n)
         \/ \E n \in Node, s \in Shard : CreateShard(n, s)
         \/ \E n \in Node, s \in Shard : CreateErr(n, s)
         \/ \E n \in Node : get_current_members(n)
         \/ \E n \in Node : initialize(n)
         \/ UNCHANGED vars
<1>1. InitCommand => \E n \in Node : cluster_init(n)
  BY MembershipAssumption DEF InitCommand
<1>2. AddNodeCommand \/ RemoveNodeCommand =>
        \E k \in Operator, n, via \in Node, kind \in {"add", "remove"} : Begin(k, kind, n, via)
  BY Zenon DEF AddNodeCommand, RemoveNodeCommand, cluster_add_node, cluster_remove_node
<1>. QED
  BY <1>1, <1>2, Zenon DEF Next, CallStep, Listen

LEMMA ClusterInit ==
  ASSUME NEW n \in Node, cluster_init(n)
  PROVE  Starts(0, Members) /\ UNCHANGED <<proposed, leader, created, pool, listener, call, hist>>
  BY MembershipAssumption DEF cluster_init, Starts, Voters

LEMMA BaseStep ==
  ASSUME BaseInv, [Next]_vars
  PROVE  BaseInv'
<1>1. TypeInv /\ PoolInv /\ listener \in [Node -> Listeners \cup {None}]
  BY DEF BaseInv, TypeInv
<1>2. ASSUME NEW n \in Node, cluster_init(n) PROVE BaseInv'
  <2>1. Starts(0, Members) /\ UNCHANGED <<proposed, leader, created, pool, listener, call, hist>>
    BY <1>2, ClusterInit
  <2>2. \A a \in Node : listener'[a] # None => listener'[a].shard \in created
    BY <1>1, <2>1 DEF PoolInv
  <2>3. 0 \in Shard /\ listener' = listener
    BY <2>1, MembershipAssumption
  <2>. QED
    BY <1>1, <2>1, <2>2, <2>3, BaseStart
<1>3. ASSUME NEW s \in Shard, shard_create(s) PROVE BaseInv'
  <2>1. UNCHANGED <<raft, pool, listener, call, hist>> /\ created' = created \cup {s} /\ s # 0
    BY <1>3 DEF shard_create
  <2>2. TypeInv'
    BY <1>1, <2>1 DEF TypeInv, raft
  <2>3. PoolInv'
    BY <1>1, <2>1 DEF PoolInv
  <2>. QED
    BY <2>1, <2>2, <2>3, BaseCreate
<1>4. ASSUME NEW n \in Node, NEW s \in Shard, CreateShard(n, s) PROVE BaseInv'
  BY <1>4, Creating, BaseCreate
<1>5. ASSUME NEW n \in Node, get_current_members(n) PROVE BaseInv'
  BY <1>5, Asking, BaseCreate
<1>6. ASSUME UNCHANGED <<raft, created, pool, call, hist>>, listener' \in [Node -> Listeners \cup {None}],
             \A a \in Node : listener'[a] # None => listener'[a] = listener[a]
      PROVE  BaseInv'
  <2>1. TypeInv'
    BY <1>1, <1>6 DEF TypeInv, raft
  <2>2. PoolInv'
    BY <1>1, <1>6 DEF PoolInv
  <2>. QED
    BY <1>6, <2>1, <2>2, BaseCreate
<1>7. ASSUME NEW n \in Node, initialize(n) PROVE BaseInv'
  <2> DEFINE s == listener[n].shard
             m == listener[n].members
  <2>1. /\ UNCHANGED <<created, pool, hist>>
        /\ listener' \in [Node -> Listeners \cup {None}]
        /\ \A a \in Node : listener'[a] # None => listener'[a] = listener[a]
        /\ s \in Shard /\ ((TakeOver(s, m) /\ m \in Voters) \/ UNCHANGED <<raft, call>>)
    BY <1>7, Initializing
  <2>2. \A a \in Node : listener'[a] # None => listener'[a].shard \in created
    BY <1>1, <2>1 DEF PoolInv
  <2> HIDE DEF s, m
  <2>3. CASE TakeOver(s, m) /\ m \in Voters
    BY <2>1, <2>2, <2>3, BaseTakeOver
  <2>4. CASE UNCHANGED <<raft, call>>
    BY <1>6, <2>1, <2>4
  <2>. QED
    BY <2>1, <2>3, <2>4
<1>9. CASE UNCHANGED vars
  <2>1. UNCHANGED <<raft, created, pool, call, hist>> /\ listener' = listener
    BY <1>9 DEF vars
  <2>. QED
    BY <1>1, <1>6, <2>1
<1>10. ASSUME NEW n \in Node, NEW s \in Shard, CreateErr(n, s) \/ Contact(s, n) PROVE BaseInv'
  <2>1. UNCHANGED <<raft, created, pool, call, hist>> /\ listener' = listener
    BY <1>10 DEF CreateErr, Contact
  <2>. QED
    BY <1>1, <1>6, <2>1
<1>8. ASSUME NEW k \in Operator, NEW n \in Node, NEW via \in Node, NEW kind \in {"add", "remove"},
             Begin(k, kind, n, via)
      PROVE  BaseInv'
  BY <1>8, BaseBegin
<1>. QED
  BY <1>2, <1>3, <1>4, <1>5, <1>7, <1>8, <1>9, <1>10, Steps, BasePropose, BaseRead, BaseFail,
     BaseCommit, BaseElect

-----------------------------------------------------------------------------
(* OwnInv.                                                                 *)

LEMMA OwnQuiet ==
  ASSUME OwnInv, UNCHANGED <<founded, created, pool, failed, started, listener>>,
         \A s \in Shard : configs'[s] = <<>> <=> configs[s] = <<>>
  PROVE  OwnInv'
  BY DEF OwnInv

LEMMA OwnInitialize ==
  ASSUME BaseInv, OwnInv, NEW n \in Node, initialize(n)
  PROVE  OwnInv'
<1> DEFINE s == listener[n].shard
           m == listener[n].members
<1>1. /\ listener[n] # None /\ s \in Shard /\ UNCHANGED <<created, pool, failed>>
      /\ \A a \in Node : listener'[a] # None => listener'[a] = listener[a]
  BY Initializing DEF initialize
<1>2. m \in SUBSET Node /\ s \in pool[n] /\ configs \in [Shard -> Config \cup {<<>>}]
  BY <1>1 DEF BaseInv, TypeInv, Listeners, OwnInv
<1>3. \/ founded' = founded /\ started' = started /\ configs' = configs
      \/ /\ founded' = [founded EXCEPT ![s] = @ \cup {m}]
         /\ started' = [started EXCEPT ![n] = @ \cup {s}]
         /\ configs' = [configs EXCEPT ![s] = <<m>>] \/ (configs' = configs /\ configs[s] # <<>>)
  BY DEF initialize, TakeOver, raft
<1> HIDE DEF s, m
<1>4. /\ founded' \in [Shard -> SUBSET SUBSET Node]
      /\ failed' \in [Node -> SUBSET Shard] /\ started' \in [Node -> SUBSET Shard]
  BY <1>1, <1>2, <1>3 DEF OwnInv
<1>5. ASSUME NEW a \in Node
      PROVE  /\ started'[a] \subseteq pool'[a] /\ failed'[a] \subseteq created' \ pool'[a]
             /\ listener'[a] # None => listener'[a].shard \in pool'[a]
  BY <1>1, <1>2, <1>3 DEF OwnInv
<1>6. ASSUME NEW t \in Shard PROVE founded'[t] = {} <=> configs'[t] = <<>>
  <2>1. <<m>> # <<>>
    OBVIOUS
  <2>2. founded[t] = {} <=> configs[t] = <<>>
    BY DEF OwnInv
  <2>3. founded \in [Shard -> SUBSET SUBSET Node]
    BY DEF OwnInv
  <2>. QED
    BY <1>1, <1>2, <1>3, <2>1, <2>2, <2>3
<1>. QED
  BY <1>4, <1>5, <1>6 DEF OwnInv

LEMMA OwnStep ==
  ASSUME BaseInv, OwnInv, [Next]_vars
  PROVE  OwnInv'
<1>1. /\ configs \in [Shard -> Config \cup {<<>>}] /\ pool \in [Node -> SUBSET Shard]
      /\ created \in SUBSET (Shard \ {0}) /\ listener \in [Node -> Listeners \cup {None}]
      /\ \A s \in Shard : proposed[s] # None => configs[s] # <<>>
  BY DEF BaseInv, TypeInv, ShardInv
<1>2. /\ founded \in [Shard -> SUBSET SUBSET Node]
      /\ failed \in [Node -> SUBSET Shard] /\ started \in [Node -> SUBSET Shard]
  BY DEF OwnInv
<1>3. ASSUME NEW n \in Node, cluster_init(n) PROVE OwnInv'
  <2>1. /\ configs' = [configs EXCEPT ![0] = <<Members>>] /\ founded' = [founded EXCEPT ![0] = {Members}]
        /\ UNCHANGED <<created, pool, failed, started, listener>>
    BY <1>3 DEF cluster_init
  <2>2. ASSUME NEW t \in Shard PROVE founded'[t] = {} <=> configs'[t] = <<>>
    <3>1. <<Members>> # <<>> /\ 0 \in Shard /\ (founded[t] = {} <=> configs[t] = <<>>)
      BY MembershipAssumption DEF OwnInv
    <3>. QED
      BY <1>1, <1>2, <2>1, <3>1
  <2>3. founded' \in [Shard -> SUBSET SUBSET Node]
    BY <1>2, <2>1, MembershipAssumption
  <2>. QED
    BY <1>2, <2>1, <2>2, <2>3 DEF OwnInv
<1>4. ASSUME NEW s \in Shard, Commit(s) PROVE OwnInv'
  <2>1. /\ proposed[s] # None /\ proposed[s] \in Entry
        /\ configs' = [configs EXCEPT ![s] = proposed[s].configs]
    BY <1>4, Committing
  <2>2. proposed[s].configs # <<>>
    BY <2>1, ConfigFacts DEF Entry
  <2>3. \A t \in Shard : configs'[t] = <<>> <=> configs[t] = <<>>
    BY <1>1, <2>1, <2>2
  <2>4. UNCHANGED <<founded, created, pool, failed, started, listener>>
    BY <1>4 DEF Commit
  <2>. QED
    BY <2>3, <2>4, OwnQuiet
<1>5. ASSUME UNCHANGED <<configs, founded, created, pool, failed, started, listener>> PROVE OwnInv'
  BY <1>5, OwnQuiet
<1>6. ASSUME NEW s \in Shard, NEW n \in Node, Elect(s, n) PROVE OwnInv'
  BY <1>5, <1>6 DEF Elect
<1>7. ASSUME NEW k \in Operator, NEW n \in Node, NEW via \in Node, NEW kind \in {"add", "remove"},
             Begin(k, kind, n, via)
      PROVE  OwnInv'
  BY <1>5, <1>7 DEF Begin, raft
<1>8. ASSUME NEW k \in Operator, add_learner(k) \/ change_membership(k) \/ Uniform(k) PROVE OwnInv'
  BY <1>5, <1>8 DEF add_learner, change_membership, Uniform, Propose
<1>9. ASSUME NEW k \in Operator, read_voters(k) \/ CallFails(k) PROVE OwnInv'
  BY <1>5, <1>9 DEF read_voters, CallFails, raft
<1>10. CASE UNCHANGED vars
  BY <1>5, <1>10 DEF vars, raft
<1>11. ASSUME NEW s \in Shard, shard_create(s) PROVE OwnInv'
  <2>1. UNCHANGED <<configs, founded, pool, failed, started, listener>> /\ created' = created \cup {s} /\ s \notin created
    BY <1>11 DEF shard_create, raft
  <2>. QED
    BY <2>1 DEF OwnInv
<1>12. ASSUME NEW n \in Node, NEW s \in Shard, CreateShard(n, s) PROVE OwnInv'
  <2> DEFINE w == IF leader[0] = n THEN [pc |-> "members", shard |-> s, members |-> {}] ELSE None
  <2>1. /\ UNCHANGED <<configs, founded, created, failed, started>> /\ s \notin failed[n]
        /\ pool' = [pool EXCEPT ![n] = @ \cup {s}] /\ listener' = [listener EXCEPT ![n] = w]
    BY <1>12 DEF CreateShard, raft
  <2>2. w # None => w.shard = s
    OBVIOUS
  <2> HIDE DEF w
  <2>3. ASSUME NEW a \in Node
        PROVE  /\ started'[a] \subseteq pool'[a] /\ failed'[a] \subseteq created' \ pool'[a]
               /\ listener'[a] # None => listener'[a].shard \in pool'[a]
    BY <1>1, <1>2, <2>1, <2>2 DEF OwnInv
  <2>. QED
    BY <2>1, <2>3 DEF OwnInv
<1>13. ASSUME NEW n \in Node, NEW s \in Shard, CreateErr(n, s) PROVE OwnInv'
  <2>1. /\ UNCHANGED <<configs, founded, created, pool, started, listener>> /\ s \in created \ pool[n]
        /\ failed' = [failed EXCEPT ![n] = @ \cup {s}]
    BY <1>13 DEF CreateErr, raft
  <2>. QED
    BY <1>2, <2>1 DEF OwnInv
<1>14. ASSUME NEW n \in Node, NEW s \in Shard, Contact(s, n) PROVE OwnInv'
  <2>1. /\ UNCHANGED <<configs, founded, created, pool, failed, listener>> /\ s \in pool[n]
        /\ started' = [started EXCEPT ![n] = @ \cup {s}]
    BY <1>14 DEF Contact, raft
  <2>. QED
    BY <1>2, <2>1 DEF OwnInv
<1>15. ASSUME NEW n \in Node, get_current_members(n) PROVE OwnInv'
  <2> DEFINE m == voter_ids(Effective(0)) \cap ({n} \cup Peers[n])
             w == [listener[n] EXCEPT !.pc = "initialize", !.members = m]
  <2>1. /\ UNCHANGED <<configs, founded, created, pool, failed, started>> /\ listener[n] # None
        /\ listener' = [listener EXCEPT ![n] = w]
    BY <1>1, <1>15 DEF get_current_members, raft
  <2>2. w.shard = listener[n].shard
    <3> HIDE DEF m
    <3>. QED
      BY <1>1, <2>1 DEF Listeners
  <2> HIDE DEF w
  <2>3. \A a \in Node : listener'[a] # None => listener'[a].shard \in pool'[a]
    BY <1>1, <2>1, <2>2 DEF OwnInv
  <2>. QED
    BY <2>1, <2>3 DEF OwnInv
<1>. QED
  BY <1>3, <1>4, <1>6, <1>7, <1>8, <1>9, <1>10, <1>11, <1>12, <1>13, <1>14, <1>15, Steps, OwnInitialize

(* A shard that has one list only is initialized once.                     *)
LEMMA WholeBefore ==
  ASSUME BaseInv, OwnInv, [Next]_vars, Whole'
  PROVE  Whole
<1>1. founded \in [Shard -> SUBSET SUBSET Node] /\ 0 \in Shard
  BY MembershipAssumption DEF OwnInv
<1>2. ASSUME NEW n \in Node, cluster_init(n), NEW s \in Shard PROVE founded[s] \subseteq founded'[s]
  <2>1. founded' = [founded EXCEPT ![0] = {Members}] /\ founded[0] = {}
    BY <1>1, <1>2 DEF cluster_init, OwnInv
  <2>. QED
    BY <1>1, <2>1
<1>3. ASSUME NEW n \in Node, initialize(n), NEW s \in Shard PROVE founded[s] \subseteq founded'[s]
  <2> DEFINE t == listener[n].shard
             m == listener[n].members
  <2>1. founded' = founded \/ founded' = [founded EXCEPT ![t] = @ \cup {m}]
    BY <1>3 DEF initialize
  <2> HIDE DEF t, m
  <2>. QED
    BY <1>1, <2>1
<1>4. \/ founded' = founded
      \/ \E n \in Node : cluster_init(n) \/ initialize(n)
  BY Steps DEF Begin, add_learner, change_membership, Uniform, Propose, read_voters, CallFails, Commit,
               Elect, shard_create, Contact, CreateShard, CreateErr, get_current_members, vars
<1>5. \A s \in Shard : founded[s] \subseteq founded'[s]
  BY <1>2, <1>3, <1>4
<1>. QED
  BY <1>5 DEF Whole

LEMMA InitializedOnce ==
  ASSUME BaseInv, OwnInv, Whole', NEW n \in Node, initialize(n)
  PROVE  LET s == listener[n].shard
             m == listener[n].members
         IN  \/ Starts(s, m) /\ UNCHANGED <<proposed, leader, call>>
             \/ UNCHANGED <<raft, call>>
<1> DEFINE s == listener[n].shard
           m == listener[n].members
<1>1. /\ s \in Shard
      /\ \/ /\ TakeOver(s, m) /\ m \in Voters /\ m \notin founded[s]
            /\ founded' = [founded EXCEPT ![s] = @ \cup {m}]
         \/ UNCHANGED <<raft, call>>
  BY Initializing
<1> HIDE DEF s, m
<1>2. CASE /\ TakeOver(s, m) /\ m \in Voters /\ m \notin founded[s]
           /\ founded' = [founded EXCEPT ![s] = @ \cup {m}]
  <2>1. founded'[s] = founded[s] \cup {m}
    BY <1>1, <1>2 DEF OwnInv
  <2>2. founded[s] = {}
    BY <1>1, <1>2, <2>1 DEF Whole
  <2>3. configs[s] = <<>>
    BY <1>1, <2>2 DEF OwnInv
  <2>4. proposed[s] = None /\ leader[s] = NoLeader
    BY <1>1, <2>3 DEF BaseInv, ShardInv
  <2>5. proposed \in [Shard -> Entry \cup {None}] /\ leader \in [Shard -> Node \cup {NoLeader}]
    BY DEF BaseInv, TypeInv
  <2>6. proposed' = proposed /\ leader' = leader /\ call' = call
    BY <1>1, <1>2, <2>4, <2>5 DEF TakeOver
  <2>. QED
    BY <1>2, <2>3, <2>6 DEF TakeOver, Starts, s, m
<1>. QED
  BY <1>1, <1>2 DEF s, m
=============================================================================
