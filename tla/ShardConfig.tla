----------------------------- MODULE ShardConfig -----------------------------
(***************************************************************************)
(* The shard configuration: commands that create shards and change routes  *)
(* are committed in shard 0's log, applied by every node's state machine,  *)
(* and handed over a channel to a listener that changes the node's pool of *)
(* Raft groups and its router.  State machine, cached snapshot, channel    *)
(* and pool are in memory; only the log survives a restart.                *)
(*                                                                         *)
(* openraft is external: it commits, replicates and purges shard 0's log,  *)
(* elects its leader, and calls the state machine from one worker task     *)
(* (apply, install_snapshot) and from a task of its own (build_snapshot).  *)
(* Entries of shard 0 that are no shard commands are module WritePath's.   *)
(***************************************************************************)
EXTENDS Integers, Sequences, FiniteSets, Functions

CONSTANTS
  Node,          \* the nodes
  Quorum,        \* the sets of nodes that can commit (external)
  Module,        \* database names
  Shard,         \* shard numbers, 0 among them
  NoRoute,       \* a module without a route
  NoLeader,      \* shard 0 has no leader
  NoSnapshot,    \* cached_snapshot is None
  MaxCommands,   \* bound on committed commands
  Budget         \* bounds on elections, restarts, snapshots, failed
                 \* creations, and on all of them together

Kind == {"elect", "restart", "build", "fail", "all"}

ASSUME ShardConfigAssumption ==
  /\ 0 \in Shard /\ Shard \subseteq Nat /\ IsFiniteSet(Shard) /\ IsFiniteSet(Module)
  /\ Quorum \subseteq SUBSET Node /\ \A P, Q \in Quorum : P \cap Q # {}
  /\ NoRoute \notin Shard /\ NoLeader \notin Node
  /\ MaxCommands \in Nat /\ Budget \in [Kind -> Nat]

VARIABLES
  log,               \* shard 0's committed commands (external)
  leader,            \* shard 0's leader (external)
  initialized,       \* shards whose Raft group was initialized
  budget,            \* what is left of Budget
  stored,            \* stored[n]: length of the log in n's log store
  purged,            \* purged[n]: length of its purged prefix
  inner,             \* inner[n]: StateMachineInner of shard 0
  worker,            \* worker[n]: where the task in apply or install_snapshot is
  builder,           \* builder[n]: snapshot that build_snapshot has not yet cached
  cached_snapshot,   \* cached_snapshot[n]
  queue,             \* queue[n]: the shard_config channel
  shards,            \* shards[n]: keys of RaftPool::shards
  routes,            \* routes[n]: RaftPool::router
  listener           \* listener[n]: where handle_shard_config is

cluster == <<log, leader, initialized>>
store == <<stored, purged>>
machine == <<inner, worker, builder, cached_snapshot>>
pool == <<shards, routes, listener>>
vars == <<cluster, budget, store, machine, queue, pool>>

-----------------------------------------------------------------------------
CreateShard(s) == [tag |-> "CreateShard", shard |-> s]
AddRoute(m, s) == [tag |-> "AddRoute", module |-> m, shard |-> s]
RemoveRoute(m) == [tag |-> "RemoveRoute", module |-> m]

Command == {CreateShard(s) : s \in Shard \ {0}}
             \cup {AddRoute(m, s) : m \in Module, s \in Shard}
             \cup {RemoveRoute(m) : m \in Module}

NoRoutes == [m \in Module |-> NoRoute]

(* ShardRouter: add_route, remove_route and route on the table r.          *)
add_route(r, m, s) == [r EXCEPT ![m] = s]
remove_route(r, m) == [r EXCEPT ![m] = NoRoute]
route(r, m) == IF r[m] = NoRoute THEN 0 ELSE r[m]

Rerouted(r, cmd) ==
  CASE cmd.tag = "CreateShard" -> r
    [] cmd.tag = "AddRoute" -> add_route(r, cmd.module, cmd.shard)
    [] cmd.tag = "RemoveRoute" -> remove_route(r, cmd.module)

(* StateMachineInner, of which applied_count and membership are left out.  *)
New == [last_applied |-> 0, active_shards |-> {}, shard_routes |-> NoRoutes]

Updated(i, cmd) ==
  [i EXCEPT !.shard_routes = Rerouted(@, cmd),
            !.active_shards = IF cmd.tag = "CreateShard" THEN @ \cup {cmd.shard} ELSE @]

(* The elements of a hash set, in the order in which it is iterated.       *)
Listing(S) == CHOOSE q \in Bijection(1..Cardinality(S), S) : TRUE

(* The commands that install_snapshot replays: shards, then routes.        *)
Replay(i) ==
  Listing({CreateShard(s) : s \in i.active_shards}) \o
  Listing({AddRoute(m, i.shard_routes[m]) :
             m \in {x \in Module : i.shard_routes[x] # NoRoute}})

(* The nodes that can lead; the others are learners.                       *)
Voter == UNION Quorum

Spend(kind) ==
  /\ budget[kind] > 0 /\ budget.all > 0
  /\ budget' = [budget EXCEPT ![kind] = @ - 1, !.all = @ - 1]

Idle == [pc |-> "recv", shard |-> 0]

Init ==
  /\ log = <<>>
  /\ leader \in Voter
  /\ initialized = {0}
  /\ budget = Budget
  /\ stored = [n \in Node |-> 0]
  /\ purged = [n \in Node |-> 0]
  /\ inner = [n \in Node |-> New]
  /\ worker = [n \in Node |-> "idle"]
  /\ builder = [n \in Node |-> NoSnapshot]
  /\ cached_snapshot = [n \in Node |-> NoSnapshot]
  /\ queue = [n \in Node |-> <<>>]
  /\ shards = [n \in Node |-> {0}]
  /\ routes = [n \in Node |-> NoRoutes]
  /\ listener = [n \in Node |-> Idle]

-----------------------------------------------------------------------------
(* The API, and openraft underneath.  A proposal on a node that does not   *)
(* lead shard 0 is answered with an error and changes nothing.             *)

client_write(cmd) ==
  /\ Len(log) < MaxCommands
  /\ \E Q \in Quorum :
       /\ leader \in Q
       /\ \A n \in Q : stored[n] = Len(log)
       /\ log' = Append(log, cmd)
       /\ stored' = [n \in Node |-> IF n \in Q THEN stored[n] + 1 ELSE stored[n]]
  /\ UNCHANGED <<leader, initialized, budget, purged, machine, queue, pool>>

(* Faulty variant: shard 0 is not refused.                                 *)
shard_createAny(s) == client_write(CreateShard(s))

shard_create(s) ==
  /\ s # 0
  /\ client_write(CreateShard(s))

(* Faulty variant: the router is changed before the command is committed.  *)
shard_add_routeAtOnce(m, s) ==
  /\ leader # NoLeader
  /\ routes' = [routes EXCEPT ![leader] = add_route(@, m, s)]
  /\ UNCHANGED <<cluster, budget, store, machine, queue, shards, listener>>

shard_add_route(m, s) == client_write(AddRoute(m, s))

shard_remove_route(m) == client_write(RemoveRoute(m))

Replicate(n) ==
  /\ leader # NoLeader
  /\ stored[n] < Len(log)
  /\ purged[leader] <= stored[n]
  /\ stored' = [stored EXCEPT ![n] = @ + 1]
  /\ UNCHANGED <<cluster, budget, purged, machine, queue, pool>>

Elect(n) ==
  /\ n \in Voter /\ leader # n
  /\ stored[n] = Len(log)
  /\ Spend("elect")
  /\ leader' = n
  /\ UNCHANGED <<log, initialized, store, machine, queue, pool>>

(* Only what a snapshot covers is purged.                                  *)
Purge(n) ==
  /\ cached_snapshot[n] # NoSnapshot
  /\ purged[n] < cached_snapshot[n].last_applied
  /\ purged' = [purged EXCEPT ![n] = @ + 1]
  /\ UNCHANGED <<cluster, budget, stored, machine, queue, pool>>

-----------------------------------------------------------------------------
(* StateMachineStore::apply takes inner's lock twice per command.          *)

Current(n) == log[inner[n].last_applied]

ApplyStamp(n) ==
  LET i == inner[n].last_applied + 1
  IN  /\ worker[n] = "idle"
      /\ purged[n] < i /\ i <= stored[n]
      /\ inner' = [inner EXCEPT ![n].last_applied = i]
      /\ worker' = [worker EXCEPT ![n] = "stamped"]
      /\ UNCHANGED <<cluster, budget, store, builder, cached_snapshot, queue, pool>>

ApplyUpdate(n) ==
  /\ worker[n] = "stamped"
  /\ inner' = [inner EXCEPT ![n] = Updated(@, Current(n))]
  /\ worker' = [worker EXCEPT ![n] = "updated"]
  /\ UNCHANGED <<cluster, budget, store, builder, cached_snapshot, queue, pool>>

(* Faulty variant: only the leader tells its listener.                     *)
ApplyDispatchLeader(n) ==
  /\ worker[n] = "updated"
  /\ queue' = IF leader = n THEN [queue EXCEPT ![n] = Append(@, Current(n))] ELSE queue
  /\ worker' = [worker EXCEPT ![n] = "idle"]
  /\ UNCHANGED <<cluster, budget, store, inner, builder, cached_snapshot, pool>>

ApplyDispatch(n) ==
  /\ worker[n] = "updated"
  /\ queue' = [queue EXCEPT ![n] = Append(@, Current(n))]
  /\ worker' = [worker EXCEPT ![n] = "idle"]
  /\ UNCHANGED <<cluster, budget, store, inner, builder, cached_snapshot, pool>>

-----------------------------------------------------------------------------
(* Snapshots.                                                              *)

(* openraft asks for a snapshot when there is something new to put in it.  *)
(* build_snapshot reads inner under its lock, in a task of its own, ...    *)
BuildRead(n) ==
  /\ builder[n] = NoSnapshot
  /\ inner[n].last_applied > IF cached_snapshot[n] = NoSnapshot THEN 0
                             ELSE cached_snapshot[n].last_applied
  /\ Spend("build")
  /\ builder' = [builder EXCEPT ![n] = inner[n]]
  /\ UNCHANGED <<cluster, store, inner, worker, cached_snapshot, queue, pool>>

(* ... and caches what it read after releasing it.                         *)
BuildCache(n) ==
  /\ builder[n] # NoSnapshot
  /\ cached_snapshot' = [cached_snapshot EXCEPT ![n] = builder[n]]
  /\ builder' = [builder EXCEPT ![n] = NoSnapshot]
  /\ UNCHANGED <<cluster, budget, store, inner, worker, queue, pool>>

(* The leader no longer has the entries that n needs and sends the         *)
(* snapshot of get_current_snapshot; install_snapshot takes it over, and   *)
(* openraft starts n's log behind it.                                      *)
InstallInner(n) ==
  /\ worker[n] = "idle"
  /\ leader \notin {n, NoLeader}
  /\ stored[n] < purged[leader]
  /\ cached_snapshot[leader] # NoSnapshot
  /\ LET snapshot == cached_snapshot[leader]
     IN  /\ stored[n] < snapshot.last_applied
         /\ inner' = [inner EXCEPT ![n] = snapshot]
         /\ stored' = [stored EXCEPT ![n] = snapshot.last_applied]
         /\ purged' = [purged EXCEPT ![n] = snapshot.last_applied]
  /\ worker' = [worker EXCEPT ![n] = "installed"]
  /\ UNCHANGED <<cluster, budget, builder, cached_snapshot, queue, pool>>

(* Faulty variant: the shards are replayed and the routes are not.         *)
InstallReplayShards(n) ==
  /\ worker[n] = "installed"
  /\ queue' = [queue EXCEPT ![n] = @ \o Replay([inner[n] EXCEPT !.shard_routes = NoRoutes])]
  /\ worker' = [worker EXCEPT ![n] = "replayed"]
  /\ UNCHANGED <<cluster, budget, store, inner, builder, cached_snapshot, pool>>

InstallReplay(n) ==
  /\ worker[n] = "installed"
  /\ queue' = [queue EXCEPT ![n] = @ \o Replay(inner[n])]
  /\ worker' = [worker EXCEPT ![n] = "replayed"]
  /\ UNCHANGED <<cluster, budget, store, inner, builder, cached_snapshot, pool>>

InstallCache(n) ==
  /\ worker[n] = "replayed"
  /\ cached_snapshot' = [cached_snapshot EXCEPT ![n] = inner[n]]
  /\ worker' = [worker EXCEPT ![n] = "idle"]
  /\ UNCHANGED <<cluster, budget, store, inner, builder, queue, pool>>

-----------------------------------------------------------------------------
(* RaftPool: the listener task runs handle_shard_config to its end before  *)
(* it takes the next command.                                              *)

(* Faulty variant: every command is handled in a task of its own.          *)
ListenerTakesAny(n, tag) ==
  /\ queue[n] # <<>>
  /\ Head(queue[n]).tag = tag
  /\ queue' = [queue EXCEPT ![n] = Tail(@)]
  /\ UNCHANGED <<cluster, store, budget, machine>>

ListenerTakes(n, tag) ==
  /\ listener[n].pc = "recv"
  /\ queue[n] # <<>>
  /\ Head(queue[n]).tag = tag
  /\ queue' = [queue EXCEPT ![n] = Tail(@)]
  /\ UNCHANGED <<cluster, store, budget, machine>>

(* Faulty variant: a shard is skipped once it is initialized anywhere.     *)
HandleCreateShardOnce(n) ==
  /\ ListenerTakes(n, "CreateShard")
  /\ LET s == Head(queue[n]).shard
     IN  listener' = [listener EXCEPT ![n] = IF s \in shards[n] \cup initialized THEN Idle
                                             ELSE [pc |-> "create", shard |-> s]]
  /\ UNCHANGED <<shards, routes>>

HandleCreateShard(n) ==
  /\ ListenerTakes(n, "CreateShard")
  /\ LET s == Head(queue[n]).shard
     IN  listener' = [listener EXCEPT ![n] = IF s \in shards[n] THEN Idle
                                             ELSE [pc |-> "create", shard |-> s]]
  /\ UNCHANGED <<shards, routes>>

(* Faulty variant: a module that has a route keeps it.                     *)
HandleRouteKeep(n) ==
  /\ \/ ListenerTakes(n, "AddRoute")
     \/ ListenerTakes(n, "RemoveRoute")
  /\ LET cmd == Head(queue[n])
     IN  routes' = IF cmd.tag = "AddRoute" /\ routes[n][cmd.module] # NoRoute THEN routes
                   ELSE [routes EXCEPT ![n] = Rerouted(@, cmd)]
  /\ UNCHANGED <<shards, listener>>

HandleRoute(n) ==
  /\ \/ ListenerTakes(n, "AddRoute")
     \/ ListenerTakes(n, "RemoveRoute")
  /\ routes' = [routes EXCEPT ![n] = Rerouted(@, Head(queue[n]))]
  /\ UNCHANGED <<shards, listener>>

(* create_shard_state opens the shard's log store and starts its Raft, ... *)
CreateOk(n) ==
  /\ listener[n].pc = "create"
  /\ shards' = [shards EXCEPT ![n] = @ \cup {listener[n].shard}]
  /\ listener' = [listener EXCEPT ![n].pc = "check"]
  /\ UNCHANGED <<cluster, budget, store, machine, queue, routes>>

(* ... or fails, which is logged.                                          *)
CreateErr(n) ==
  /\ listener[n].pc = "create"
  /\ Spend("fail")
  /\ listener' = [listener EXCEPT ![n] = Idle]
  /\ UNCHANGED <<cluster, store, machine, queue, shards, routes>>

(* Faulty variant: the new shard, which has no leader yet, is asked.       *)
CheckLeaderOfNew(n) ==
  /\ listener[n].pc = "check"
  /\ listener' = [listener EXCEPT ![n] = Idle]
  /\ UNCHANGED <<cluster, budget, store, machine, queue, shards, routes>>

(* ensure_linearizable on shard 0 tells whether this node leads it.        *)
CheckLeader(n) ==
  /\ listener[n].pc = "check"
  /\ listener' = [listener EXCEPT ![n] = IF leader = n THEN [@ EXCEPT !.pc = "init"] ELSE Idle]
  /\ UNCHANGED <<cluster, budget, store, machine, queue, shards, routes>>

Initialize(n) ==
  /\ listener[n].pc = "init"
  /\ initialized' = initialized \cup {listener[n].shard}
  /\ listener' = [listener EXCEPT ![n] = Idle]
  /\ UNCHANGED <<log, leader, budget, store, machine, queue, shards, routes>>

(* The leadership check or initialize() fails; the shard stays as it is.   *)
InitializeErr(n) ==
  /\ listener[n].pc \in {"check", "init"}
  /\ Spend("fail")
  /\ listener' = [listener EXCEPT ![n] = Idle]
  /\ UNCHANGED <<cluster, store, machine, queue, shards, routes>>

-----------------------------------------------------------------------------
(* The process ends and starts again: RaftPool::new has shard 0, an empty  *)
(* router and a new state machine.                                         *)
Restart(n) ==
  /\ Spend("restart")
  /\ leader' = IF leader = n THEN NoLeader ELSE leader
  /\ inner' = [inner EXCEPT ![n] = New]
  /\ worker' = [worker EXCEPT ![n] = "idle"]
  /\ builder' = [builder EXCEPT ![n] = NoSnapshot]
  /\ cached_snapshot' = [cached_snapshot EXCEPT ![n] = NoSnapshot]
  /\ queue' = [queue EXCEPT ![n] = <<>>]
  /\ shards' = [shards EXCEPT ![n] = {0}]
  /\ routes' = [routes EXCEPT ![n] = NoRoutes]
  /\ listener' = [listener EXCEPT ![n] = Idle]
  /\ UNCHANGED <<log, initialized, store>>

Progress(n) ==
  \/ Replicate(n)
  \/ ApplyStamp(n) \/ ApplyUpdate(n) \/ ApplyDispatch(n)
  \/ InstallInner(n) \/ InstallReplay(n) \/ InstallCache(n)
  \/ HandleCreateShard(n) \/ HandleRoute(n)
  \/ CreateOk(n) \/ CheckLeader(n) \/ Initialize(n)

(* The commands of the CLI, one request each.                              *)
CreateShardCommand == \E s \in Shard : shard_create(s)

AddRouteCommand == \E m \in Module, s \in Shard : shard_add_route(m, s)

RemoveRouteCommand == \E m \in Module : shard_remove_route(m)

Next ==
  \/ CreateShardCommand \/ AddRouteCommand \/ RemoveRouteCommand
  \/ \E n \in Node :
       \/ Progress(n)
       \/ Elect(n) \/ Purge(n) \/ BuildRead(n) \/ BuildCache(n)
       \/ CreateErr(n) \/ InitializeErr(n) \/ Restart(n)

Spec == Init /\ [][Next]_vars

(* The leader keeps replicating, and tokio runs a node's worker and        *)
(* listener tasks as long as they can take a step.                         *)
FairSpec == Spec /\ \A n \in Node : WF_vars(Progress(n))

-----------------------------------------------------------------------------
(* Properties.                                                             *)

Machine == [last_applied : 0..MaxCommands, active_shards : SUBSET (Shard \ {0}),
            shard_routes : [Module -> Shard \cup {NoRoute}]]

Covered(snapshot, n) == snapshot # NoSnapshot => snapshot.last_applied <= stored[n]

(* Every variable keeps its type: shard 0 is in every pool and is never    *)
(* created by a command, no node stores, applies, snapshots or purges      *)
(* beyond the log.                                                         *)
TypeOK ==
  /\ log \in Seq(Command) /\ Len(log) <= MaxCommands
  /\ leader \in Node \cup {NoLeader}
  /\ initialized \subseteq Shard
  /\ budget \in [Kind -> Nat] /\ \A k \in Kind : budget[k] <= Budget[k]
  /\ stored \in [Node -> 0..MaxCommands] /\ purged \in [Node -> 0..MaxCommands]
  /\ inner \in [Node -> Machine]
  /\ worker \in [Node -> {"idle", "stamped", "updated", "installed", "replayed"}]
  /\ builder \in [Node -> Machine \cup {NoSnapshot}]
  /\ cached_snapshot \in [Node -> Machine \cup {NoSnapshot}]
  /\ queue \in [Node -> Seq(Command)]
  /\ shards \in [Node -> SUBSET Shard]
  /\ routes \in [Node -> [Module -> Shard \cup {NoRoute}]]
  /\ listener \in [Node -> [pc : {"recv", "create", "check", "init"}, shard : Shard]]
  /\ \A n \in Node :
       /\ 0 \in shards[n]
       /\ purged[n] <= stored[n] /\ inner[n].last_applied <= stored[n]
       /\ Covered(builder[n], n) /\ Covered(cached_snapshot[n], n)
       /\ stored[n] <= Len(log)
       /\ worker[n] \in {"stamped", "updated"} => inner[n].last_applied > 0

(* What the worker is about to put on the channel.                         *)
Pending(n) ==
  CASE worker[n] = "updated" -> <<Current(n)>>
    [] worker[n] = "installed" -> Replay(inner[n])
    [] OTHER -> <<>>

Coming(n) == queue[n] \o Pending(n)

(* No creation, leadership check or initialization has failed; no snapshot *)
(* was built, and so none installed.                                       *)
NoFailure == budget.fail = Budget.fail
NoSnapshots == budget.build = Budget.build

Concerns(cmd, m) == cmd.tag # "CreateShard" /\ cmd.module = m
Target(cmd) == IF cmd.tag = "AddRoute" THEN cmd.shard ELSE NoRoute

(* Module m is routed to t once the commands of q are done to r: the last  *)
(* of them that concerns m says so, or none does and r says so.            *)
EndsAt(q, r, m, t) ==
  \/ /\ r[m] = t
     /\ \A i \in DOMAIN q : ~ Concerns(q[i], m)
  \/ \E i \in DOMAIN q :
       /\ Concerns(q[i], m) /\ Target(q[i]) = t
       /\ \A j \in DOMAIN q : j > i => ~ Concerns(q[j], m)

(* Every route of the state machine is, or is on its way to be, the route  *)
(* of the node's router, through snapshots, restarts and elections.        *)
RoutesNotLost ==
  \A n \in Node, m \in Module :
    inner[n].shard_routes[m] # NoRoute =>
      EndsAt(Coming(n), routes[n], m, inner[n].shard_routes[m])

(* The router ends up with exactly the routes of the state machine, also   *)
(* without those it removed, unless a snapshot was installed: that does    *)
(* not remove routes.                                                      *)
RoutesMatch ==
  NoSnapshots =>
    \A n \in Node, m \in Module :
      EndsAt(Coming(n), routes[n], m, inner[n].shard_routes[m])

(* Every shard of the state machine is in the pool or under way to it,     *)
(* unless its creation failed: that is not tried again.                    *)
ShardsNotLost ==
  NoFailure =>
    \A n \in Node, s \in Shard :
      s \in inner[n].active_shards =>
        \/ s \in shards[n]
        \/ listener[n] = [pc |-> "create", shard |-> s]
        \/ \E i \in DOMAIN Coming(n) : Coming(n)[i] = CreateShard(s)

(* Every AddRoute(m, s) in the log comes after a CreateShard(s).           *)
CreatedFirst(m, s) ==
  \A i \in DOMAIN log : log[i] = AddRoute(m, s) =>
    \E j \in 1..(i - 1) : log[j] = CreateShard(s)

(* A client that creates a shard before it routes a module there never has *)
(* route_module() name a shard the node's pool does not have, on any node  *)
(* and while a restarted node works through its log again.                 *)
RouteHasShard ==
  NoFailure /\ NoSnapshots =>
    \A n \in Node, m \in Module :
      LET s == route(routes[n], m) IN s \in shards[n] \/ ~ CreatedFirst(m, s)

(* The shards in the pool S, with the one that the listener l creates.     *)
Held(S, l) == S \cup (IF l.pc = "create" THEN {l.shard} ELSE {})

(* The shards that the first h commands of the log lg create.              *)
Made(lg, h) == {0} \cup {s \in Shard : \E j \in 1..h : lg[j] = CreateShard(s)}

(* Until a snapshot is built, a node's pool and router are at all times    *)
(* what handle_shard_config makes of the first commands of the log, up to  *)
(* some place: every route is the last of them for its module, every shard *)
(* was created by one of them, and none is missing unless a creation       *)
(* failed.  When the channel is empty, these are all the commands that the *)
(* node has applied.                                                       *)
PoolIsPrefix ==
  NoSnapshots =>
    \A n \in Node : \E h \in 0..inner[n].last_applied :
      /\ \A m \in Module : EndsAt(SubSeq(log, 1, h), NoRoutes, m, routes[n][m])
      /\ Held(shards[n], listener[n]) \subseteq Made(log, h)
      /\ NoFailure => Made(log, h) \subseteq Held(shards[n], listener[n])
      /\ worker[n] = "idle" /\ queue[n] = <<>> => h = inner[n].last_applied

(* Through snapshots, restarts, elections and failures: whatever shard or  *)
(* route a node has, a command among those that it has applied asked for   *)
(* it, and no shard is initialized whose creation is not committed.  What  *)
(* install_snapshot replays is no exception, though the snapshot may have  *)
(* been read while a command was half applied, and be cached late.         *)
NothingInvented ==
  /\ \A n \in Node :
       /\ Held(shards[n], listener[n]) \subseteq Made(log, inner[n].last_applied)
       /\ \A m \in Module : routes[n][m] # NoRoute =>
            \E j \in 1..inner[n].last_applied : log[j] = AddRoute(m, routes[n][m])
  /\ initialized \subseteq Made(log, Len(log))

(* A shard that every node has materialized is initialized.                *)
EveryShardInitialized ==
  \A s \in Shard :
    (\A n \in Node : s \in shards[n] /\ listener[n].shard # s) => s \in initialized

(* Once shard 0 has a leader for good, every node's pool and router come   *)
(* to hold what the committed commands say, through restarts and           *)
(* elections.                                                              *)
ConfigConverges ==
  [](NoFailure /\ NoSnapshots) /\ <>[](leader # NoLeader) =>
    <>[](\A n \in Node :
           /\ shards[n] = {0} \cup {s \in Shard : CreateShard(s) \in Range(log)}
           /\ \A m \in Module : EndsAt(log, NoRoutes, m, routes[n][m]))

(* While nothing fails and the leader stays, every shard that a node has   *)
(* comes to be initialized.                                                *)
ShardsInitialized ==
  [](budget = Budget) => <>[](\A n \in Node : shards[n] \subseteq initialized)
=============================================================================
