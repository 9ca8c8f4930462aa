----------------------------- MODULE Membership -----------------------------
(***************************************************************************)
(* Who belongs to the Raft groups.  The operator's add-node and            *)
(* remove-node change the membership of one shard after the other; a new   *)
(* shard takes its members from shard 0 and from the peers its node was    *)
(* started with.                                                           *)
(*                                                                         *)
(* openraft is external: a change of membership is an entry of the shard's *)
(* log, in force once appended and committed by a majority of each of its  *)
(* voter sets (two of them while it is joint).  A node takes part in a     *)
(* shard once it has it in its pool (the RPC endpoints answer 404 until    *)
(* then) and its own Raft instance has been initialized or has heard from  *)
(* another one.                                                            *)
(***************************************************************************)
EXTENDS Integers, Sequences, FiniteSets, Functions

CONSTANTS
  Node,            \* the nodes, numbers
  Shard,           \* shard numbers, 0 among them
  Peers,           \* Peers[n]: RaftPool::peers, fixed when n starts
  Members,         \* the nodes that `rtdb init' names
  Operator,        \* who issues administrative calls
  NoLeader,        \* a shard without a leader
  None,            \* no proposal, no command in hand
  MaxCalls,        \* bound on administrative calls
  MaxElections     \* bound on elections while there is a leader

ASSUME MembershipAssumption ==
  /\ 0 \in Shard /\ Shard \subseteq Nat /\ IsFiniteSet(Shard)
  /\ Members \subseteq Node /\ Members # {}
  /\ Peers \in [Node -> SUBSET Node]
  /\ NoLeader \notin Node /\ None \notin Operator

VARIABLES
  configs,      \* configs[s]: its committed voter sets, <<>> before initialize()
  nodes,        \* nodes[s]: its committed voters and learners
  proposed,     \* proposed[s]: membership entry that is not committed yet, or None
  leader,       \* leader[s]
  founded,      \* founded[s]: the lists of members that initialize() has accepted
  created,      \* shards with a committed CreateShard
  pool,         \* pool[n]: keys of RaftPool::shards
  failed,       \* failed[n]: shards that n could not create, and will not have
  started,      \* started[n]: shards whose instance on n has a log or a vote
  listener,     \* listener[n]: shard that handle_shard_config is initializing
  call,         \* call[k]: the administrative call of operator k
  hist          \* what has been done so far

raft == <<configs, nodes, proposed, leader>>
vars == <<raft, founded, created, pool, failed, started, listener, call, hist>>

-----------------------------------------------------------------------------
voter_ids(c) == UNION Range(c)

(* Where the voter sets c lead: a joint membership is <<old, new>>.        *)
Goal(c) == c[Len(c)]

Active(s) == {n \in Node : s \in started[n]}

CanCommit(s, c) ==
  /\ c # <<>>
  /\ \A V \in Range(c) : 2 * Cardinality(V \cap Active(s)) > Cardinality(V)

(* What metrics() reports on the leader.                                   *)
Effective(s) == IF proposed[s] = None THEN configs[s] ELSE proposed[s].configs
Addressed(s) == IF proposed[s] = None THEN nodes[s] ELSE proposed[s].nodes

(* The entry that takes the voter sets c towards goal: joint, unless goal  *)
(* is one of them.                                                         *)
next_coherent(c, goal) == IF goal \in Range(c) THEN <<goal>> ELSE <<Goal(c), goal>>

NewCall == [pc |-> "idle", kind |-> "add", node |-> 0, via |-> 0, listed |-> {},
            todo |-> <<>>, voters |-> {}]

Running(k) == call[k].pc \notin {"idle", "ok", "error"}

Init ==
  /\ configs = [s \in Shard |-> <<>>]
  /\ nodes = [s \in Shard |-> {}]
  /\ proposed = [s \in Shard |-> None]
  /\ leader = [s \in Shard |-> NoLeader]
  /\ founded = [s \in Shard |-> {}]
  /\ created = {}
  /\ pool = [n \in Node |-> {0}]
  /\ failed = [n \in Node |-> {}]
  /\ started = [n \in Node |-> {0}]
  /\ listener = [n \in Node |-> None]
  /\ call = [k \in Operator |-> NewCall]
  /\ hist = [calls |-> 0, elections |-> 0, removed |-> FALSE,
             overlapped |-> FALSE, dropped |-> FALSE, latest |-> None]

(* cluster_init on n; a second one is refused, or gives another node the   *)
(* same list.                                                              *)
cluster_init(n) ==
  /\ configs[0] = <<>>
  /\ n \in Members
  /\ configs' = [configs EXCEPT ![0] = <<Members>>]
  /\ nodes' = [nodes EXCEPT ![0] = Members]
  /\ founded' = [founded EXCEPT ![0] = {Members}]
  /\ UNCHANGED <<proposed, leader, created, pool, failed, started, listener, call, hist>>

-----------------------------------------------------------------------------
(* openraft.                                                               *)

Fail(c, k) == [c EXCEPT ![k] = [NewCall EXCEPT !.pc = "error"]]

(* The first RPC of a candidate or a leader that n answers.                *)
Contact(s, n) ==
  /\ configs[s] # <<>>
  /\ n \in Addressed(s)
  /\ s \in pool[n] \ started[n]
  /\ started' = [started EXCEPT ![n] = @ \cup {s}]
  /\ UNCHANGED <<raft, founded, created, pool, failed, listener, call, hist>>

(* A new leader has the uncommitted proposal or drops it; the caller that  *)
(* made it gets an error either way.                                       *)
Elect(s, n) ==
  LET p == proposed[s]
      kept == p # None /\ p.by = None
  IN  /\ n # leader[s]
      /\ n \in voter_ids(Effective(s)) \cap Active(s)
      /\ CanCommit(s, configs[s])
      /\ leader[s] # NoLeader => hist.elections < MaxElections
      /\ leader' = [leader EXCEPT ![s] = n]
      /\ \/ p # None /\ proposed' = [proposed EXCEPT ![s].by = None]
         \/ proposed' = [proposed EXCEPT ![s] = None]
      /\ call' = IF p = None \/ kept THEN call ELSE Fail(call, p.by)
      /\ hist' = [hist EXCEPT !.elections = IF leader[s] = NoLeader THEN @ ELSE @ + 1,
                              !.dropped = @ \/ (kept /\ proposed'[s] = None)]
      /\ UNCHANGED <<configs, nodes, founded, created, pool, failed, started, listener>>

Refused(k, s) == leader[s] # call[k].via \/ proposed[s] # None

Propose(k, s, c, ns) ==
  /\ ~ Refused(k, s)
  /\ proposed' = [proposed EXCEPT ![s] = [configs |-> c, nodes |-> ns, by |-> k]]
  /\ UNCHANGED <<configs, nodes, leader, founded, created, pool, failed, started, listener, hist>>

-----------------------------------------------------------------------------
(* add_node_all_shards and remove_node_all_shards.                         *)

First(kind) == IF kind = "add" THEN "add_learner" ELSE "read"

(* Faulty variant: the newest shard comes first.                           *)
list_shardsReversed(n) ==
  CHOOSE q \in Bijection(1..Cardinality(pool[n]), pool[n]) :
    \A i, j \in DOMAIN q : i < j => q[i] > q[j]

list_shards(n) ==
  CHOOSE q \in Bijection(1..Cardinality(pool[n]), pool[n]) :
    \A i, j \in DOMAIN q : i < j => q[i] < q[j]

Begin(k, kind, n, via) ==
  /\ hist.calls < MaxCalls
  /\ ~ Running(k)
  /\ call' = [call EXCEPT ![k] =
                [pc |-> First(kind), kind |-> kind, node |-> n, via |-> via,
                 listed |-> pool[via], todo |-> list_shards(via), voters |-> {}]]
  /\ hist' = [hist EXCEPT !.calls = @ + 1,
                          !.removed = @ \/ kind = "remove",
                          !.overlapped = @ \/ \E o \in Operator : Running(o),
                          !.latest = k]
  /\ UNCHANGED <<raft, founded, created, pool, failed, started, listener>>

cluster_add_node(k, n, via) == Begin(k, "add", n, via)
cluster_remove_node(k, n, via) == Begin(k, "remove", n, via)

At(k, pc) == call[k].pc = pc
Current(k) == Head(call[k].todo)

add_learner(k) ==
  LET s == Current(k)
  IN  /\ At(k, "add_learner")
      /\ Propose(k, s, configs[s], nodes[s] \cup {call[k].node})
      /\ call' = [call EXCEPT ![k].pc = "learning"]

(* Faulty variant: the voters are taken from the configuration.            *)
read_votersConfigured(k) ==
  LET now == {call[k].via} \cup Peers[call[k].via]
  IN  /\ At(k, "read")
      /\ call' = [call EXCEPT ![k].pc = "change",
                              ![k].voters = IF call[k].kind = "add" THEN now \cup {call[k].node}
                                            ELSE now \ {call[k].node}]
      /\ UNCHANGED <<raft, founded, created, pool, failed, started, listener, hist>>

(* The voters are read from the metrics ...                                *)
read_voters(k) ==
  LET now == voter_ids(Effective(Current(k)))
  IN  /\ At(k, "read")
      /\ call' = [call EXCEPT ![k].pc = "change",
                              ![k].voters = IF call[k].kind = "add" THEN now \cup {call[k].node}
                                            ELSE now \ {call[k].node}]
      /\ UNCHANGED <<raft, founded, created, pool, failed, started, listener, hist>>

(* ... and openraft gets the new set later.                                *)
Acceptable(k, s) == call[k].voters # {} /\ call[k].voters \subseteq nodes[s]

Kept(s, c) == nodes[s] \ (voter_ids(configs[s]) \ voter_ids(c))

change_membership(k) ==
  LET s == Current(k)
      c == next_coherent(configs[s], call[k].voters)
  IN  /\ At(k, "change")
      /\ Acceptable(k, s)
      /\ Propose(k, s, c, Kept(s, c))
      /\ call' = [call EXCEPT ![k].pc = "changing", ![k].voters = {}]

(* The second half of openraft's change_membership: from joint to uniform. *)
Uniform(k) ==
  LET s == Current(k)
      c == <<Goal(configs[s])>>
  IN  /\ At(k, "uniform")
      /\ Propose(k, s, c, Kept(s, c))
      /\ call' = [call EXCEPT ![k].pc = "changing"]

NextShard(c) ==
  LET rest == Tail(c.todo)
  IN  IF rest = <<>> THEN [c EXCEPT !.pc = "ok", !.todo = rest, !.via = 0]
      ELSE [c EXCEPT !.pc = First(c.kind), !.todo = rest]

(* Faulty variant: the error is logged, and the next shard is tried.       *)
CallFailsGoesOn(k) ==
  /\ \/ call[k].pc \in {"add_learner", "uniform"} /\ Refused(k, Current(k))
     \/ At(k, "change") /\ (Refused(k, Current(k)) \/ ~ Acceptable(k, Current(k)))
  /\ call' = [call EXCEPT ![k] = NextShard(@)]
  /\ UNCHANGED <<raft, founded, created, pool, failed, started, listener, hist>>

(* openraft refuses, and `?' ends the call where it is.                    *)
CallFails(k) ==
  /\ \/ call[k].pc \in {"add_learner", "uniform"} /\ Refused(k, Current(k))
     \/ At(k, "change") /\ (Refused(k, Current(k)) \/ ~ Acceptable(k, Current(k)))
  /\ call' = Fail(call, k)
  /\ UNCHANGED <<raft, founded, created, pool, failed, started, listener, hist>>

(* The call whose proposal was committed with the voter sets cs goes on.   *)
(* add_learner may return as soon as its entry is committed: how far       *)
(* behind the learner may be is openraft's default.                        *)
Resume(c, cs) ==
  CASE c.pc = "learning" -> [c EXCEPT !.pc = "read"]
    [] c.pc = "changing" /\ Len(cs) = 2 -> [c EXCEPT !.pc = "uniform"]
    [] c.pc = "changing" /\ Len(cs) = 1 -> NextShard(c)

(* A leader that is no voter any more steps down.                          *)
Commit(s) ==
  LET p == proposed[s]
  IN  /\ p # None
      /\ leader[s] # NoLeader
      /\ CanCommit(s, p.configs)
      /\ configs' = [configs EXCEPT ![s] = p.configs]
      /\ nodes' = [nodes EXCEPT ![s] = p.nodes]
      /\ proposed' = [proposed EXCEPT ![s] = None]
      /\ leader' = [leader EXCEPT ![s] = IF @ \in voter_ids(p.configs) THEN @ ELSE NoLeader]
      /\ call' = IF p.by = None THEN call
                 ELSE [call EXCEPT ![p.by] = Resume(@, p.configs)]
      /\ UNCHANGED <<founded, created, pool, failed, started, listener, hist>>

-----------------------------------------------------------------------------
(* New shards.                                                             *)

(* Faulty variant: shard 0 is not refused.                                 *)
shard_createAny(s) ==
  /\ s \notin created
  /\ leader[0] # NoLeader
  /\ CanCommit(0, Effective(0))
  /\ created' = created \cup {s}
  /\ UNCHANGED <<raft, founded, pool, failed, started, listener, call, hist>>

shard_create(s) ==
  /\ s \notin created \cup {0}
  /\ leader[0] # NoLeader
  /\ CanCommit(0, Effective(0))
  /\ created' = created \cup {s}
  /\ UNCHANGED <<raft, founded, pool, failed, started, listener, call, hist>>

(* A node that gets shard 0's log creates the shard, and initializes it if *)
(* it leads shard 0.                                                       *)
CreateShard(n, s) ==
  /\ s \in created \ (pool[n] \cup failed[n])
  /\ n \in nodes[0]
  /\ listener[n] = None
  /\ pool' = [pool EXCEPT ![n] = @ \cup {s}]
  /\ listener' = [listener EXCEPT ![n] =
                    IF leader[0] = n THEN [pc |-> "members", shard |-> s, members |-> {}]
                    ELSE None]
  /\ UNCHANGED <<raft, founded, created, failed, started, call, hist>>

(* create_shard_state fails: that is logged, and the command is gone.      *)
CreateErr(n, s) ==
  /\ s \in created \ (pool[n] \cup failed[n])
  /\ n \in nodes[0]
  /\ listener[n] = None
  /\ failed' = [failed EXCEPT ![n] = @ \cup {s}]
  /\ UNCHANGED <<raft, founded, created, pool, started, listener, call, hist>>

get_current_members(n) ==
  /\ listener[n] # None
  /\ listener[n].pc = "members"
  /\ listener' = [listener EXCEPT ![n].pc = "initialize",
                                  ![n].members = voter_ids(Effective(0)) \cap ({n} \cup Peers[n])]
  /\ UNCHANGED <<raft, founded, created, pool, failed, started, call, hist>>

(* The membership m becomes that of shard s.  If s had another one, what   *)
(* was under way there is lost.                                            *)
TakeOver(s, m) ==
  LET p == proposed[s]
  IN  /\ configs' = [configs EXCEPT ![s] = <<m>>]
      /\ nodes' = [nodes EXCEPT ![s] = m]
      /\ proposed' = [proposed EXCEPT ![s] = None]
      /\ leader' = [leader EXCEPT ![s] = NoLeader]
      /\ call' = IF p = None \/ p.by = None THEN call ELSE Fail(call, p.by)

(* n initializes its own instance.  openraft refuses members without the   *)
(* node itself, and an instance that is not empty; it does not know what   *)
(* other nodes have initialized.  A second list starts a second group of   *)
(* the same shard, and either of the two may be the one that calls see.    *)
initialize(n) ==
  LET s == listener[n].shard
      m == listener[n].members
      accepted == s \notin started[n] /\ n \in m
  IN  /\ listener[n] # None
      /\ listener[n].pc = "initialize"
      /\ listener' = [listener EXCEPT ![n] = None]
      /\ founded' = IF accepted THEN [founded EXCEPT ![s] = @ \cup {m}] ELSE founded
      /\ started' = IF accepted THEN [started EXCEPT ![n] = @ \cup {s}] ELSE started
      /\ \/ /\ accepted /\ m \notin founded[s]
            /\ TakeOver(s, m)
         \/ /\ accepted => configs[s] # <<>>
            /\ UNCHANGED <<raft, call>>
      /\ UNCHANGED <<created, pool, failed, hist>>

-----------------------------------------------------------------------------
(* The commands of the CLI: `rtdb init' goes to the first node it names,   *)
(* the others to the node that the operator names.                         *)
InitCommand == \E n \in Members : cluster_init(n)

AddNodeCommand == \E k \in Operator, n, via \in Node : cluster_add_node(k, n, via)

RemoveNodeCommand == \E k \in Operator, n, via \in Node : cluster_remove_node(k, n, via)

CallStep(k) ==
  add_learner(k) \/ read_voters(k) \/ change_membership(k) \/ Uniform(k) \/ CallFails(k)

Listen(n) ==
  \/ \E s \in Shard : CreateShard(n, s) \/ CreateErr(n, s)
  \/ get_current_members(n) \/ initialize(n)

Next ==
  \/ InitCommand \/ AddNodeCommand \/ RemoveNodeCommand
  \/ \E k \in Operator : CallStep(k)
  \/ \E s \in Shard : Commit(s) \/ shard_create(s)
  \/ \E s \in Shard, n \in Node : Elect(s, n) \/ Contact(s, n)
  \/ \E n \in Node : Listen(n)

Spec == Init /\ [][Next]_vars

(* A shard without a leader elects one when it can, a leader replicates    *)
(* what was proposed and reaches every node that has the shard, and tokio  *)
(* runs the calls and the listeners.                                       *)
FairSpec ==
  /\ Spec
  /\ \A k \in Operator : WF_vars(CallStep(k))
  /\ \A n \in Node : WF_vars(Listen(n))
  /\ \A s \in Shard :
       /\ WF_vars(Commit(s))
       /\ \A n \in Node : WF_vars(Contact(s, n))
       /\ WF_vars(leader[s] = NoLeader /\ \E n \in Node : Elect(s, n))

-----------------------------------------------------------------------------
(* Properties.                                                             *)

(* No shard has been initialized with two different lists.                 *)
Whole == \A s \in Shard : \A a, b \in founded[s] : a = b

(* Every variable keeps its type; in particular a shard's membership is    *)
(* uniform or joint and its voters are never an empty set, whatever calls  *)
(* are made, and every voter has an address.                               *)
TypeOK ==
  /\ created \subseteq Shard \ {0}
  /\ \A n \in Node :
       /\ 0 \in pool[n] /\ pool[n] \subseteq created \cup {0}
       /\ started[n] \subseteq pool[n]
       /\ failed[n] \subseteq created \ pool[n]
  /\ \A s \in Shard :
       /\ leader[s] \in Node \cup {NoLeader}
       /\ Len(configs[s]) \in 0..2 /\ {} \notin Range(configs[s])
       /\ voter_ids(configs[s]) \subseteq nodes[s] /\ nodes[s] \subseteq Node
       /\ founded[s] = {} <=> configs[s] = <<>>
  /\ \A k \in Operator : Running(k) => call[k].todo # <<>>

(* A call that answered OK, with no other one beside or after it, has made *)
(* its node a voter of every shard that the node it went to has listed, or *)
(* of none of them, unless some shard was initialized with two lists.      *)
AnsweredMeansDone ==
  \A k \in Operator :
    (hist.latest = k /\ ~ hist.overlapped /\ Whole /\ call[k].pc = "ok") =>
      \A s \in call[k].listed :
        (call[k].node \in voter_ids(configs[s])) <=> call[k].kind = "add"

(* While calls do not overlap, no step adds or removes more than one voter *)
(* of a shard: no later call carries over or undoes what one that failed   *)
(* half way did.  Two things break this, and the property holds up to      *)
(* them: a second election may drop an entry that the first new leader had *)
(* kept, after a call has read its voters; and a node that was not reached *)
(* yet may initialize a shard again, with another list.                    *)
OneVoterAtATime ==
  [][\A s \in Shard :
       (configs[s] # <<>> /\ ~ hist.overlapped /\ ~ hist.dropped /\ Whole') =>
         LET v == voter_ids(configs[s])
             w == voter_ids(configs'[s])
         IN  Cardinality((v \ w) \cup (w \ v)) <= 1]_vars

(* While nodes are added one call after the other, every voter of a shard  *)
(* that was initialized with one list belongs to shard 0, whose log makes  *)
(* it create the shard: add-node goes through shard 0 first.               *)
VotersWillHost ==
  (~ hist.removed /\ ~ hist.overlapped /\ Whole) =>
    \A s \in Shard : voter_ids(configs[s]) \subseteq nodes[0]

(* While nodes are added one call after the other, every call is answered: *)
(* no shard is left with a change that its voters cannot commit.  A node   *)
(* that failed to create a shard, and a shard with two groups, may leave   *)
(* it without an answer.                                                   *)
CallsEnd ==
  \A k \in Operator :
    Running(k) ~> (\/ ~ Running(k) \/ hist.removed \/ hist.overlapped
                   \/ ~ Whole \/ \E n \in Node : failed[n] # {})

(* When nothing is under way, all initialized shards have the same voters. *)
SameMembership ==
  ((\A k \in Operator : ~ Running(k)) /\ (\A n \in Node : listener[n] = None)
     /\ (\A s \in Shard : proposed[s] = None)) =>
    \A s, t \in Shard : (configs[s] # <<>> /\ configs[t] # <<>>) =>
      voter_ids(configs[s]) = voter_ids(configs[t])
=============================================================================
