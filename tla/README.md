# A TLA+ verification of RaftTimeDB

RaftTimeDB puts a proxy in front of each SpacetimeDB instance of a cluster and
replicates client writes between the proxies with Raft (openraft 0.9). This
directory holds TLA+ models of the proxy, the TLC configurations that check
them, and TLAPS proofs of what they promise. Line numbers and the
correspondence of definitions to code are in `PROJECT.json` ("map"); all paths
below are relative to `crates/proxy/src/`.

## The system

| Part | Code | Model |
|---|---|---|
| WebSocket listener and handler: one task per connection reads client messages, proposes writes, sends the rest straight on | `websocket/` | `WritePath` |
| Proposal and leader forwarding: `propose_write`, `/cluster/{shard}/write` | `raft/mod.rs`, `api.rs` | `WritePath` |
| State machine: applies committed entries | `raft/state_machine.rs` | `WritePath` (writes), `ShardConfig` (shard commands) |
| Snapshots: build, install, cache | `raft/state_machine.rs` | `ShardConfig` |
| Forwarder: sends other nodes' committed writes to the local SpacetimeDB | `raft/mod.rs` | `WritePath` |
| Log store on disk (redb) and in memory | `raft/persistent_log_store.rs`, `raft/log_store.rs` | `PersistentLogStore`, `LogStore`, `RaftLog` |
| Shard pool, router and shard API | `raft/mod.rs`, `router/mod.rs`, `api.rs`, `../../cli` | `ShardConfig` |
| Module name of a request path | `router/mod.rs` | `ModulePath` |
| Membership of all shards (`init`, `add-node`, `remove-node`) | `raft/mod.rs`, `api.rs`, `../../cli` | `Membership` |
| A connection's two tasks, its close, the shutdown drain | `websocket/`, `main.rs` | `Connection` |
| Raft RPC transport, status endpoints, counters, configuration, TLS | `raft/network.rs`, `api.rs`, `metrics.rs`, `config.rs` | not modelled |

A committed write is executed on each node by one of two routes. On the node
its client is connected to (the origin), the connection's handler sends it after
`propose_write` returns. On every other node the state machine's `apply` puts it
on a channel and the forwarder sends it. The forwarder recognises the node's own
writes by `origin_node_id` and skips them.

Shards are created, and modules routed to them, by commands in shard 0's log.
Every node's state machine applies them and passes them over a channel to a
listener task, which changes the pool of Raft groups and the router. The node
that leads shard 0 initializes a new shard with the members it finds there.
Nodes are added to and removed from all shards, one shard after the other, by
the node that the operator's call goes to.

**External parts.** openraft, SpacetimeDB, redb and the file system are modelled
from how the code uses them and are marked external in the map.

* openraft commits one growing sequence of entries of which each node applies a
  prefix. A proposal that was accepted may be committed at any later time or
  never, also after its caller got an error. It runs `apply` and
  `install_snapshot` from one task and `build_snapshot` beside it.
* A change of membership is an entry that is in force once it is in the leader's
  log and committed by a majority of each of its voter sets, of which there are
  two while it is joint. A second one is refused until the first is committed,
  and so is any on a node that does not lead the shard. A node without the shard
  in its pool answers 404 and takes no part. `initialize` concerns the node's own
  instance alone: it is refused when that instance has a log or a vote already,
  or when the node is not in the list, and it does not ask other nodes.
* A WebSocket carries nothing behind a Close, and may break at any time.
* A redb transaction takes effect atomically and durably, or not at all; after a
  commit that reports an error, either may be the case.

## Modules

### WritePath

One Raft group. `pc[c]` is the position of connection `c`'s inbound task:
`handshake`, `upstream`, `read`, `propose`, then `local` or `http` while
`client_write` or the POST is awaited, and `send`. `fwd[n]` is the position of
the forwarder, `chan[n]` its channel, `applied[n]` the state machine's position,
`exec[n]` what SpacetimeDB received. Every `await` separates two actions, and
every early return, `continue` and `break` is an action of its own. `Restart`
resets all that is in memory and keeps `log` and `exec`.

Messages are abstract values with a tag byte. A failed connection attempt of the
forwarder is a stuttering step. Two things are coarser than the code:

* `apply` reads the forwarder once per batch of entries, the model once per
  entry. In the code, a batch begun before `set_forwarder` may go on unforwarded
  after the node has begun to accept clients; in the model it may not. Only a
  restart gives rise to such a batch.
* The shard of a connection is fixed, since there is one group.

What becomes of the connection itself is in `Connection`.

### RaftLog, LogStore, PersistentLogStore

`RaftLog` has the operations on a map from indexes to entries, of which only the
term is kept. `LogStore` is the in-memory store: each call is one atomic step.
It serves as the abstract specification. `PersistentLogStore` is the redb store:
opening in three steps (migrating the legacy file, creating the file, creating
the tables), each call as begin, commit and return, with an error or a crash
possible anywhere. Errors of single `remove` calls, which the code ignores, are
not modelled.

### ShardConfig

Shard 0's commands on all nodes: the API's proposals, replication, purge and
election (external), `apply` and the snapshot functions split at every lock they
release, the channel, and the listener's `handle_shard_config` split at every
`await`. A restart empties everything but the log.

Left out are `applied_count`, membership, snapshots that fail to parse, and the
listener's end at shutdown. The channel is there from the start: in the code
entries applied between `Raft::new` and `set_shard_config_tx` are not
dispatched. After a restart the cached snapshot is `None`; what openraft does
about that at start-up is not modelled. The order in which `install_snapshot`
replays the shards, and then the routes, is fixed: the commands of either kind
concern different keys and commute.

A node starts with shard 0, and the model with a leader. `Budget` bounds each
kind of fault and, under `all`, their total.

### Membership

For each shard: its committed voter sets (`configs`) and nodes, the membership
entry under way (`proposed`) and the leader. `call[k]` is an administrative call
in progress, with one step for each `await` of `add_node_all_shards` and
`remove_node_all_shards`: `add_learner`, reading the voters from the metrics,
`change_membership` with its joint and its uniform half. `CallFails` is the `?`
that ends the call at the first refusal. The listener takes part as far as it
chooses the members of a new shard: `CreateShard`, `get_current_members`,
`initialize`, and `CreateErr` for a creation that fails and is not tried again
(`failed[n]`). Elections happen at any time; a caller whose leader changes gets
an error, and its entry survives or does not.

Every node has an instance of its own of each shard in its pool. `started[n]` are
those with a log or a vote, from the node's own `initialize` or from the first
RPC of another node (`Contact`); only they count for a majority. `founded[s]` are
the lists with which nodes have initialized shard `s`. Two nodes may do so: one
leads shard 0, creates the shard and initializes it, shard 0 elects the other
before the first has reached it, and the other initializes its instance too. With
the same list openraft allows that. With another one (the voters of shard 0 or the
static peers differ) the shard has two groups under one number. The model then
follows only one of them, either the old one or the new one, in which case what
was under way in the old one is lost (`TakeOver`). `Whole` says that this has not
happened.

Nodes do not crash. Shard 0's log is only its order: a member of shard 0 creates
the shards that were committed, at any later time. Shard 0's instances count as
started from the beginning, and `rtdb init` names one list of members only.

### ModulePath

`extract_module_name` on paths that are sequences of tokens (a slash, a question
mark, a piece of a name, the word `database`), with `trim_start_matches`,
`splitn` and `trim_end_matches` as the code uses them. `Names` is the reference:
which name a path means, stated without any of these steps.

### Connection

`handler[c]` is the position of `handle_client`, `inbound[c]` and `outbound[c]`
those of its tasks, `client_tx[c]` the holder of the lock on the client's sink.
`process` is `running`, `draining` between the signal and the end of the
five-second wait, or `exited`. Clients and SpacetimeDB send, close, and break
off when they like. A proposal succeeds or fails; what it does is `WritePath`'s.
The path is forgotten once the connection to SpacetimeDB stands, since nothing
looks at it later.

### MC modules

`MCWritePath` has a client on each of two nodes, `MCWritePathStream` two writes
on one node and two clients on the other (one to reconnect after a restart).
`MCShardConfig` has two nodes, the quorums and the fault budgets. `MCMembership`
has three nodes, of which the first two know each other as peers. The others add
nothing.

## Runs

Passing runs:

| Run | Properties | Bounds |
|---|---|---|
| `write_stream` | `TypeOK`, `ConsensusFirst`, `NoDoubleSend`, `ForwarderFollowsLog`, `OneClientOneOrder` | 2 nodes, 2 writes, 3 connections, 1 fault |
| `write_delivery` | `NothingLost`, `RemoteDelivery` (fair) | 2 nodes, 2 writes, 1 read, no fault |
| `log_store` | `TypeOK`, `FlushedIsDurable`, `NoHole`, `PositionSurvives`, `KeepsPromise` | indexes 0..3, 2 terms, batches of 2, any crashes and errors |
| `shard_config` | `TypeOK`, `RoutesNotLost`, `RoutesMatch`, `ShardsNotLost`, `RouteHasShard`, `PoolIsPrefix`, `NothingInvented`, `ConfigConverges`, `ShardsInitialized` (fair) | 2 nodes, 2 commands, 2 of: election, restart, snapshot, failure |
| `membership` | `TypeOK`, `AnsweredMeansDone`, `VotersWillHost`, `OneVoterAtATime`, `CallsEnd` (fair) | 3 nodes, 2 shards, 3 calls, 1 election beyond the first |
| `connection` | `TypeOK`, `RoutedByName`, `RelayInOrder`, `ClosedEnds`, `ShutdownReaches` (fair) | 1 connection, paths of 7 tokens, 2 messages each way |

Bounds: two nodes are enough for origin and remote execution, for a wrong leader
hint and for a lagging node. Two writes are enough for an order to differ. One
fault reaches each error path of the write path; combinations of faults are
covered by the proofs. In `shard_config` the quorums are `{1}` and `{1, 2}`:
node 2 may fall behind node 1's log, so that it needs a snapshot, and may still
be elected once it has caught up. Two commands allow create and route, or route
and removal, and two faults a snapshot and the restart that loses what it
covers. Three calls allow a call that fails half way, one that repairs it and
one after that; one election beyond the first is enough for two nodes to
initialize one shard. Connections share nothing but the signal and the gauge, so one
is enough. Paths of seven tokens have a leading slash, `database`, an action, a
name and a slash or a query behind it, and both behind it where the action is
empty.

Runs that find a disagreement between the code and what the repository says of
it ("findings" in `PROJECT.json` quotes the lines):

| Run | Property | What happens |
|---|---|---|
| `write_order` | `ReplicasAgreeOnOrder` | two concurrent writes run in different orders on their two origin nodes |
| `write_origin` | `OriginForwards` | a write whose proposal reports an error and commits anyway never runs on its origin |
| `write_restart` | `ExecutedOnce` | a restarted node applies its log again and sends old writes a second time |
| `shard_config_torn` | `MachineIsPrefix` | a snapshot built inside `apply` claims a command it does not contain |
| `shard_config_election` | `EveryShardInitialized` | leadership moves and nobody initializes the new shard |
| `membership_same` | `SameMembership` | a shard created while or after a node is added has other voters than shard 0 |

These findings rest on the external behaviour assumed above. In particular,
`shard_config_torn` needs `build_snapshot` to run beside the worker task.

Some properties are stated with a condition, because without it the code does
not have them. No run is kept for these cases:

* `RemoteDelivery` needs a client to have connected to the node: before that the
  forwarder knows no path and sends nothing.
* The forwarder keeps the first path it sees, so with two databases on one shard
  it sends the writes of both to one. No property speaks of the database.
* `PositionSurvives` needs an entry to be left in the log: `get_log_state` does
  not fall back to `last_purged`.
* `OneClientOneOrder` starts from a message that the handler has forwarded, and
  from the entry it forwarded it for. A write whose proposal reported an error
  may commit behind later ones of its client, and one that was proposed again at
  the leader may commit a second time, behind them.
* `RoutesMatch` and `PoolIsPrefix` need that no snapshot was built:
  `install_snapshot` replays additions only, so a node that skips a `RemoveRoute`
  keeps the route. In `PoolIsPrefix`, no shard is missing unless a creation failed.
* `ShardsNotLost` needs that no creation failed: the listener does not try again.
  `RouteHasShard` and `ConfigConverges` need both, and `ShardsInitialized` that
  nothing failed and shard 0's leader stayed.
* `AnsweredMeansDone` and `OneVoterAtATime` need that calls do not overlap: of two
  at the same time, one may undo what the other did, since each writes a voter
  set it read earlier. `OneVoterAtATime` needs also that no second election has
  dropped what a first one kept (see Proofs).
* `AnsweredMeansDone` and `OneVoterAtATime` need `Whole`: no shard was initialized
  with two different lists. A second list replaces several voters at once, and
  undoes what calls have done. `VotersWillHost` and `CallsEnd` have the same
  condition; on the run's instance they hold without it, but the model does not
  follow both groups of such a shard.
* `CallsEnd` needs that no creation failed: a voter that could not create the
  shard never votes, and a change that needs its vote stays uncommitted.
* `VotersWillHost` and `CallsEnd` need that no node is removed: `remove-node` goes
  through shard 0 first, and a node that has left shard 0 before it created
  another shard stays a voter there without ever having it. Its vote may be
  needed to remove it.
* `ClosedEnds` is about a client that sends Close. When a client is lost without
  one, the outbound task and the connection to SpacetimeDB stay until
  SpacetimeDB sends something. When SpacetimeDB is lost, a client that sends
  nothing keeps a connection that nobody answers.
* `ShutdownReaches` excepts a handler that waits for a lock held by a send to a
  slow client; the process exits after five seconds all the same.
* `build_snapshot` may put a snapshot into the cache after `install_snapshot` has
  put a newer one there. No property speaks of the cache's age.
* The gauge of active connections counts handlers. A detached task that goes on is
  not counted.
* A connection keeps the shard its module had when it was opened. After
  `add-route`, open and new connections propose to different shards. The
  repository does not say what they should do.
* After a purge, a restarted node has neither a state machine nor a cached
  snapshot nor the purged entries. What follows depends on openraft.

Deadlock is checked for the log store only. In the other models clients,
commands, calls and faults run out, or the process exits.

**Fairness.** `WritePath` assumes weak fairness of a node's apply loop, of its
forwarder (tokio schedules ready tasks; SpacetimeDB accepts a connection
eventually) and of a handler whose call has returned. Nothing is assumed of
clients, of the leader's answers or of commits. `ShardConfig` assumes weak
fairness of each node's steps taken together: replication, worker and listener.
`Membership` assumes that calls and listeners go on, that a leader gets a
proposal committed when its voters can, that the nodes of a shard that have it
are reached (openraft sends heartbeats), and that a shard without a leader elects
one when it can. `Connection` assumes that tokio runs every task that can go on,
that its mutex, which queues its waiters, serves each of them (strong fairness),
that a send to a client that is closing or lost ends, and that SpacetimeDB
answers a Close. It assumes nothing of other sends, of proposals and of clients.

## Proofs

`WritePathProofs` (types, entries, channels, forwarders) and
`WritePathSafetyProofs` (handlers, safety theorems, nothing lost) prove, for
any nodes, connections, messages, paths and any number of faults:

* `TypeCorrect`: `TypeOK`;
* `WritesGoThroughConsensus`: `ConsensusFirst`;
* `HandlerAndForwarderDisjoint`: `NoDoubleSend`;
* `ForwarderInLogOrder`: `ForwarderFollowsLog`;
* `ClientOrderIsKept`: `OneClientOneOrder`;
* `NoWriteLost`: `NothingLost`.

The only assumption is `WritePathAssumption`, the types of the constants. The
properties speak of `exec`, which says nothing of what is still on its way, so
none is inductive. The strengthening `SafetyInv` adds where an entry can be
(`EntryInv`: at most one of `http`, `pending` and `log`, and only for a message
its handler has read), that a channel is a segment of the log in log order
ending at `applied` (`ChanInv`), that what the forwarder has sent precedes what
is queued (`ForwardedInv`), and that a handler has sent only messages it is done
with (`HandledInv`). `LossInv` adds, for runs without faults, that every applied
entry is done or owed.

`OneClientOneOrder` compares two nodes, which meet only in the log. `OrderInv`
says that a connection reads no message twice, that what a handler has forwarded
is in the order in which it was read, and that the entry of a forwarded message
stands in the log before every entry of a later message of its connection
(`LogOrder`). A handler forwards only what is committed, and a later message is
proposed only after that, so a new entry always comes behind. The forwarders'
side then follows from `ForwarderFollowsLog`.

`PersistentLogStoreProofs` proves, for any shard and bounds:

* `StoreTypeCorrect`: `TypeOK`;
* `FlushedSurvivesCrash`: `FlushedIsDurable`;
* `LogHasNoHole`: `NoHole`;
* `PositionIsKept`: `PositionSurvives`;
* `ImplementsLogStore`: the redb store implements `LogStore` under the mapping
  of `vote`, `log` and `last_purged` to what the next start would open
  (`KeepsPromise`).

The inductive invariant `StoreInv` adds that the transaction in progress holds
the result of the call in progress, that it is contiguous, and that it holds
what has been acknowledged. `PositionInv` adds that openraft's index covers the
file between calls and the transaction inside one. The assumptions are
`RaftLogAssumption` (the bounds are natural numbers) and
`PersistentLogStoreAssumption` (`Absent` is not the contents of a file). Every
step maps to one `LogStore` call or to a stutter.

`ShardConfigProofs` (what a replay contains, where a sequence of commands leaves
a route, types) and `ShardConfigSafetyProofs` prove, for any nodes, quorums,
finite sets of modules and shards, and any number of commands and faults:

* `ConfigTypeCorrect`: `TypeOK`, which is inductive;
* `RoutesAreNotLost`: `RoutesNotLost`;
* `RoutesDoMatch`: `RoutesMatch`;
* `ShardsAreNotLost`: `ShardsNotLost`;
* `RoutesLeadToShards`: `RouteHasShard`;
* `PoolsAreOfTheLog`: `PoolIsPrefix`;
* `NothingIsInvented`: `NothingInvented`.

The assumption is `ShardConfigAssumption`: the types of the constants, shard 0,
and that modules and shards are finitely many, without which a replay is no
sequence. `ConfigInv` speaks of one node at a time, since a step changes the
machine, channel and pool of one node only (`StepOfOne`). What it adds to the
properties is that until a snapshot is built nothing of one is cached or being
installed (`SnapshotFree`), so that `RoutesMatch` may stop holding only through
`build_snapshot`. The argument follows a command: it is counted as coming from
the moment it is in the machine (`ApplyUpdate`, `InstallInner`), it moves onto
the channel without a change of what is coming (`ApplyDispatch`,
`InstallReplay`), and the listener takes the first of what is coming
(`EndsAtTail`).

`RouteHasShard` compares the places of two commands in the log. For it
`ConfigInv` says how far into the log the listener is (`InOrder`): until a
snapshot is built there is an `h` such that what is coming are the commands of
the log behind the first `h`, up to the last that the worker has put into the
machine; the shards that the first `h` create are in the pool or being created
(`Creates`); and every route comes from an `AddRoute` among them, before which
all its shard's creations were finished (`Routed`). The listener takes a command
only when it is done with the one before, so `h` grows by one with nothing left
half done (`DoneNext`). A restart sets it back to 0, with an empty router.

`PoolIsPrefix` asks for the converse too: nothing is in pool or router that the
first `h` commands have not put there. `Exact` says of every route which of these
commands set it, with none for its module behind that one (`Stands`), and of every
shard in the pool or being created which of them creates it. Unlike `Creates` and
`Routed` it holds through failed creations, which only leave shards out.

`NothingInvented` holds with snapshots too. With them a pool is no prefix's any
more: a snapshot may lack the command that was being applied when it was read, and
the replay removes nothing. `AskedInv` follows what a machine, a snapshot, a
channel or a pool has to a command among the first `last_applied` of the log, those
of the node or of the snapshot. An installed snapshot has applied more than the
node, so what the node had before stays accounted for.

`ConnectionProofs` proves, for any connections, paths of any length and any
number of messages:

* `ConnectionTypeCorrect`: `TypeOK`, with the gauge of open connections;
* `RelayCorrect`: `RelayInOrder`;
* `RouteCorrect`: `RoutedByName`.

The assumption is `ConnectionAssumption`: the connections are finitely many, so
that they can be counted. `RelayInOrder` speaks of what the client got, and is
not inductive: it does not say what comes next. `RelayInv` adds that, until the
outbound task ends or the client has a Close, what SpacetimeDB has sent and the
task has not relayed takes up where the client's messages end, without a gap,
and that a Close can only be its last element. The task takes a message from
there only when it has dealt with it (`TaskInv`). For `RoutedByName`,
`extract_module_name` is shown to give a name that `Names` accepts, or none
where no segment of the path is one. Its helpers (`Find`, `Before`, `After`,
`trim_start`, `trim_end`) each have a lemma; none is recursive, so no induction
is needed.

`MembershipProofs` (facts about voter sets and calls, the basic invariant) and
`MembershipSafetyProofs` prove, for any nodes, shards, peers and operators, and
any number of calls and elections:

* `MembershipTypeCorrect`: `TypeOK`;
* `CallsDoWhatTheyAnswer`: `AnsweredMeansDone`;
* `VotersAreHosts`: `VotersWillHost`;
* `OneVoter`: the action property `OneVoterAtATime`.

The assumption is `MembershipAssumption`. The invariant `Inv` has five parts, of
which the last three are required only while `Whole` holds. Lists are only ever
added to `founded`, so `Whole` after a step gives `Whole` before it
(`WholeBefore`), and under it `initialize` either starts a shard that had no
members or changes nothing but the node's own instance (`InitializedOnce`).

* `BaseInv`: types, and how calls, proposals and listeners fit together. A shard
  has a leader or a proposal only when it is initialized; a proposal made by a
  call belongs to the shard that the call is at, while the call waits for it.
* `OwnInv`: a node's instances are in its pool, shards it failed to create are not,
  and a shard has members if and only if some node has initialized it.
* `DoneInv`: the latest call, if it is alone, has settled every shard it has left
  behind: the node is a voter there, or is not, as the call means it, and nothing
  is under way that could change this. What it has read, proposed or committed on
  its current shard leads to the same.
* `GrowInv`: while nodes are only added, memberships grow, and the voters of each
  shard, committed or proposed, those a call is about to propose and those a
  listener is about to initialize a shard with all belong to shard 0. So does the
  node that is being added, unless the call is still making it a learner of shard
  0. This is where the order of `list_shards` counts.
* `OneInv`: the voters in force, those of a proposal, and those a call is about to
  propose differ by at most one node each from the ones before, and so does a
  joint membership from where it leads.

`OneVoterAtATime` excepts what follows a dropped entry. A call reads the voters
in force, and these may be those of an entry that an earlier call left
uncommitted when it failed. If a second election drops that entry before the new
call proposes, its voter set differs from the committed one by two nodes. This
takes two elections beyond the first, more than the run has. It excepts also the
step that initializes a shard with a second list, and what follows it.

Only model-checked: the liveness properties `RemoteDelivery`, `ConfigConverges`,
`ShardsInitialized`, `CallsEnd`, `ClosedEnds` and `ShutdownReaches`, which are
beyond the prover. Every invariant and action property of a passing run is
proved.

## Hazards

`PROJECT.json` lists where the code is hard to test and which properties cover
each place. Those without a property say why.

## Not modelled

* `raft/network.rs` and the Raft endpoints carry openraft's messages; commit,
  replication, election and snapshot transfer are modelled as what they achieve.
* The status, leader, health and list endpoints, and the CLI commands that print
  them, only read. `rtdb deploy` calls SpacetimeDB's own tool.
* Counters other than the gauge of connections, configuration parsing and TLS.
* The other nodes' executions after a proposal is sent twice: the repository
  does not say whether a redirected write may run twice there.
* A composition of two shards' write paths with the routes: what open connections
  should do after a change of route is not specified (see above).
* The two groups of a shard that was initialized with two lists: which nodes
  follow which, and what their leaders do to each other, is openraft's.
* Crashes of nodes during changes of membership, and openraft's start-up after a
  purge, are decided inside openraft.
* Errors of single `remove` calls in the log store, and snapshots that fail to
  parse.
