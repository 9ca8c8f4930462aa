----------------------- MODULE ShardConfigSafetyProofs -----------------------
(***************************************************************************)
(* No route and no shard of a state machine is lost on its way to the      *)
(* node's router and pool, and the listener goes through the log in order. *)
(* The inductive invariant speaks of one node at a time; what it needs     *)
(* beyond the properties is that nothing of a snapshot is anywhere while   *)
(* none was built, and how far into the log the listener is.               *)
(* A second one, for which snapshots count, follows all that a node has to *)
(* a command of the log.                                                   *)
(***************************************************************************)
EXTENDS ShardConfigProofs

(* The tableau prover first: most steps need no arithmetic.                *)
USE ZenonT(5), SMT

RoutesFollow(n) ==
  \A m \in Module :
    inner[n].shard_routes[m] # NoRoute \/ NoSnapshots =>
      EndsAt(Coming(n), routes[n], m, inner[n].shard_routes[m])

UnderWay(n, s) ==
  \/ s \in shards[n]
  \/ listener[n] = [pc |-> "create", shard |-> s]
  \/ \E i \in DOMAIN Coming(n) : Coming(n)[i] = CreateShard(s)

ShardsFollow(n) ==
  NoFailure => \A s \in inner[n].active_shards : UnderWay(n, s)

SnapshotFree(n) ==
  NoSnapshots => /\ builder[n] = NoSnapshot /\ cached_snapshot[n] = NoSnapshot
                 /\ worker[n] \notin {"installed", "replayed"}

(* How many commands the worker has put into the machine.                  *)
Applied(n) == inner[n].last_applied - (IF worker[n] = "stamped" THEN 1 ELSE 0)

(* The listener has done the first h commands of the log.                  *)
Handled(n, h) ==
  /\ h + Len(Coming(n)) = Applied(n)
  /\ Slice(Coming(n), log, h)
  /\ NoFailure => Creates(shards[n], listener[n], log, h) /\ Routed(shards[n], routes[n], log, h)
  /\ Exact(shards[n], listener[n], routes[n], log, h)

InOrder(n) == NoSnapshots => \E h \in Nat : Handled(n, h)

NodeInv(n) == RoutesFollow(n) /\ ShardsFollow(n) /\ SnapshotFree(n) /\ InOrder(n)

(* What a step may do to the log and the budget.                           *)
Onward ==
  /\ log' = log \/ \E cmd \in Command : log' = Append(log, cmd)
  /\ NoSnapshots' => NoSnapshots
  /\ NoFailure' => NoFailure

(* What it leaves alone of a node that does not take it.                   *)
Same(n) ==
  /\ inner'[n] = inner[n] /\ worker'[n] = worker[n]
  /\ builder'[n] = builder[n] /\ cached_snapshot'[n] = cached_snapshot[n]
  /\ queue'[n] = queue[n] /\ shards'[n] = shards[n]
  /\ routes'[n] = routes[n] /\ listener'[n] = listener[n]

-----------------------------------------------------------------------------
LEMMA SpendOnward ==
  ASSUME TypeOK, NEW kind \in Kind \ {"all"}, Spend(kind)
  PROVE  /\ NoSnapshots' => NoSnapshots /\ kind # "build"
         /\ NoFailure' => NoFailure /\ kind # "fail"
<1>1. /\ budget'[kind] < Budget[kind]
      /\ \A k \in Kind \ {kind, "all"} : budget'[k] = budget[k]
  BY SpendFacts
<1>2. Budget[kind] \in Nat /\ "build" \in Kind \ {"all"} /\ "fail" \in Kind \ {"all"}
  BY ShardConfigAssumption DEF Kind
<1>3. budget'[kind] # Budget[kind]
  BY <1>1, <1>2
<1>. QED
  BY <1>1, <1>2, <1>3 DEF NoSnapshots, NoFailure

LEMMA KeepOnward ==
  ASSUME UNCHANGED budget, log' = log \/ \E cmd \in Command : log' = Append(log, cmd)
  PROVE  Onward
BY DEF Onward, NoSnapshots, NoFailure

LEMMA PendingType ==
  ASSUME TypeOK, NEW n \in Node
  PROVE  /\ queue[n] \in Seq(Command) /\ Pending(n) \in Seq(Command)
         /\ Coming(n) \in Seq(Command)
<1>1. queue[n] \in Seq(Command) /\ inner[n] \in Machine
  BY DEF TypeOK
<1>2. worker[n] = "updated" => <<Current(n)>> \in Seq(Command)
  BY CurrentType
<1>3. Replay(inner[n]) \in Seq(Command) /\ <<>> \in Seq(Command)
  BY <1>1, ReplayFacts, EmptySeq
<1>4. Pending(n) \in Seq(Command)
  BY <1>2, <1>3 DEF Pending
<1>. QED
  BY <1>1, <1>4, ConcatProperties DEF Coming

(* Between commands nothing is pending.                                    *)
LEMMA IdleComing ==
  ASSUME TypeOK, NEW n \in Node, worker[n] \in {"idle", "stamped", "replayed"}
  PROVE  Coming(n) = queue[n]
<1>1. Pending(n) = <<>> /\ queue[n] \in Seq(Command)
  BY DEF Pending, TypeOK
<1>. QED
  BY <1>1, ConcatEmptySeq DEF Coming

LEMMA IdleComingNext ==
  ASSUME TypeOK', NEW n \in Node, worker'[n] \in {"idle", "stamped", "replayed"}
  PROVE  Coming(n)' = queue'[n]
<1>1. Pending(n)' = <<>> /\ queue'[n] \in Seq(Command)
  BY DEF Pending, TypeOK
<1>. QED
  BY <1>1, ConcatEmptySeq DEF Coming

(* An entry of the log stays what it is when the log grows.                *)
LEMMA SameComing ==
  ASSUME TypeOK, NEW n \in Node, Onward,
         inner'[n] = inner[n], worker'[n] = worker[n], queue'[n] = queue[n]
  PROVE  Coming(n)' = Coming(n)
<1>1. ASSUME worker[n] = "updated" PROVE log'[inner[n].last_applied] = log[inner[n].last_applied]
  <2>1. inner[n].last_applied \in 1..Len(log) /\ log \in Seq(Command)
    BY <1>1, CurrentType DEF TypeOK
  <2>2. ASSUME NEW cmd \in Command, log' = Append(log, cmd)
        PROVE  log'[inner[n].last_applied] = log[inner[n].last_applied]
    BY <2>1, <2>2, AppendKeeps
  <2>. QED
    BY <2>2 DEF Onward
<1>2. Pending(n)' = Pending(n)
  BY <1>1 DEF Pending, Current
<1>. QED
  BY <1>2 DEF Coming

LEMMA RoutesSteady ==
  ASSUME NEW n \in Node, RoutesFollow(n), NoSnapshots' => NoSnapshots,
         Coming(n)' = Coming(n), routes'[n] = routes[n],
         inner'[n].shard_routes = inner[n].shard_routes
  PROVE  RoutesFollow(n)'
BY DEF RoutesFollow

LEMMA ShardsSteady ==
  ASSUME NEW n \in Node, ShardsFollow(n), NoFailure' => NoFailure,
         Coming(n)' = Coming(n), shards[n] \subseteq shards'[n],
         inner'[n].active_shards = inner[n].active_shards,
         NoFailure' => \/ listener'[n] = listener[n]
                       \/ listener[n].pc # "create"
                       \/ listener[n].shard \in shards'[n]
  PROVE  ShardsFollow(n)'
<1> SUFFICES ASSUME NoFailure', NEW s \in inner[n].active_shards
             PROVE  UnderWay(n, s)'
  BY DEF ShardsFollow
<1>1. UnderWay(n, s)
  BY DEF ShardsFollow
<1>. QED
  BY <1>1 DEF UnderWay

LEMMA AppliedFacts ==
  ASSUME TypeOK, NEW n \in Node
  PROVE  /\ Applied(n) \in Nat /\ Applied(n) <= Len(log) /\ Len(log) \in Nat
         /\ Coming(n) \in Seq(Command) /\ Len(Coming(n)) \in Nat
<1>1. Coming(n) \in Seq(Command) /\ Len(Coming(n)) \in Nat
  BY PendingType, LenProperties
<1>2. inner[n].last_applied \in Nat
  BY MachineFacts DEF TypeOK
<1>3. /\ log \in Seq(Command) /\ inner[n].last_applied <= stored[n] /\ stored[n] \in Nat
      /\ stored[n] <= Len(log) /\ (worker[n] = "stamped" => inner[n].last_applied > 0)
  BY ShardConfigAssumption, SMT DEF TypeOK
<1>4. Len(log) \in Nat
  BY <1>3, LenProperties
<1>. QED
  BY <1>1, <1>2, <1>3, <1>4 DEF Applied

LEMMA LogKeeps ==
  ASSUME TypeOK, Onward
  PROVE  \A j \in 1..Len(log) : log'[j] = log[j]
<1>1. log \in Seq(Command)
  BY DEF TypeOK
<1>. QED
  BY <1>1, AppendKeeps DEF Onward

LEMMA HandledNext ==
  ASSUME NEW n \in Node, NEW h \in Nat, h + Len(Coming(n)') = Applied(n)',
         Slice(Coming(n)', log', h),
         NoFailure' => /\ Creates(shards'[n], listener'[n], log', h)
                       /\ Routed(shards'[n], routes'[n], log', h),
         Exact(shards'[n], listener'[n], routes'[n], log', h)
  PROVE  Handled(n, h)'
<1>1. Slice(Coming(n), log, h)'
  BY DEF Slice
<1>2. (NoFailure => Creates(shards[n], listener[n], log, h) /\ Routed(shards[n], routes[n], log, h))'
  BY DEF Creates, Routed
<1>3. Exact(shards[n], listener[n], routes[n], log, h)'
  BY DEF Exact, Held, Made, Stands
<1>. QED
  BY <1>1, <1>2, <1>3 DEF Handled

LEMMA InOrderSteady ==
  ASSUME TypeOK, NEW n \in Node, InOrder(n), Onward, Applied(n)' = Applied(n),
         Coming(n)' = Coming(n), routes'[n] = routes[n], shards[n] \subseteq shards'[n],
         NoFailure' => \/ listener'[n] = listener[n]
                       \/ listener[n].pc # "create"
                       \/ listener[n].shard \in shards'[n],
         Held(shards'[n], listener'[n]) \subseteq Held(shards[n], listener[n])
  PROVE  InOrder(n)'
<1> SUFFICES ASSUME NoSnapshots' PROVE (\E h \in Nat : Handled(n, h))'
  BY DEF InOrder
<1>1. PICK h \in Nat : Handled(n, h)
  BY DEF InOrder, Onward
<1> DEFINE a == Applied(n)
           q == Coming(n)
<1>2. a \in Nat /\ a <= Len(log) /\ Len(log) \in Nat /\ Len(q) \in Nat /\ h + Len(q) = a
  BY <1>1, AppliedFacts DEF Handled
<1>3. \A j \in 1..Len(log) : log'[j] = log[j]
  BY LogKeeps
<1>4. Slice(q, log, h)
  BY <1>1 DEF Handled
<1> HIDE DEF a, q
<1>5. /\ \A j \in 1..a : log'[j] = log[j]
      /\ \A j \in 1..h : log'[j] = log[j]
  <2>1. (\A j \in 1..a : j \in 1..Len(log)) /\ (\A j \in 1..h : j \in 1..Len(log))
    BY <1>2, SMT
  <2>. QED
    BY <1>3, <2>1
<1>6. Slice(q, log', h)
  <2>1. ASSUME NEW i \in 1..Len(q) PROVE q[i] = log'[h + i]
    <3>1. h + i \in 1..a
      BY <1>2
    <3>2. q[i] = log[h + i]
      BY <1>4 DEF Slice
    <3>. QED
      BY <1>5, <3>1, <3>2
  <2>. QED
    BY <2>1 DEF Slice
<1>7. ASSUME NoFailure'
      PROVE  /\ Creates(shards'[n], listener'[n], log', h)
             /\ Routed(shards'[n], routes[n], log', h)
  <2>1. Creates(shards[n], listener[n], log, h) /\ Routed(shards[n], routes[n], log, h)
    BY <1>1, <1>7 DEF Handled, Onward
  <2>2. \/ listener'[n] = listener[n] \/ listener[n].pc # "create"
        \/ listener[n].shard \in shards'[n]
    BY <1>7
  <2>. QED
    BY <1>5, <2>1, <2>2, DoneGrows
<1>8. Exact(shards'[n], listener'[n], routes[n], log', h)
  <2>1. Exact(shards[n], listener[n], routes[n], log, h)
    BY <1>1 DEF Handled
  <2>. QED
    BY <1>5, <2>1, ExactGrows
<1>9. h + Len(Coming(n)') = Applied(n)' /\ Slice(Coming(n)', log', h)
  BY <1>2, <1>6 DEF a, q
<1>10. Handled(n, h)'
  BY <1>7, <1>8, <1>9, HandledNext
<1>. QED
  BY <1>10

LEMMA SameKeeps ==
  ASSUME TypeOK, NEW n \in Node, NodeInv(n), Onward, Same(n)
  PROVE  NodeInv(n)'
<1>1. Coming(n)' = Coming(n)
  BY SameComing DEF Same
<1>2. RoutesFollow(n)'
  BY <1>1, RoutesSteady DEF NodeInv, Onward, Same
<1>3. ShardsFollow(n)'
  BY <1>1, ShardsSteady DEF NodeInv, Onward, Same
<1>4. SnapshotFree(n)'
  BY DEF NodeInv, Onward, Same, SnapshotFree
<1>5. Applied(n)' = Applied(n)
  BY DEF Applied, Same
<1>6. InOrder(n)'
  BY <1>1, <1>5, InOrderSteady DEF NodeInv, Same
<1>. QED
  BY <1>2, <1>3, <1>4, <1>6 DEF NodeInv

(* A step of node n is n's alone.                                          *)
LEMMA StepOfOne ==
  ASSUME TypeOK, NEW n \in Node, NEW k \in Node, k # n,
         \/ ApplyStamp(n) \/ ApplyUpdate(n) \/ ApplyDispatch(n)
         \/ BuildRead(n) \/ BuildCache(n)
         \/ InstallInner(n) \/ InstallReplay(n) \/ InstallCache(n)
         \/ HandleCreateShard(n) \/ HandleRoute(n)
         \/ CreateOk(n) \/ CreateErr(n) \/ CheckLeader(n)
         \/ Initialize(n) \/ InitializeErr(n) \/ Restart(n)
  PROVE  Onward /\ Same(k)
<1>1. CASE ApplyStamp(n) \/ ApplyUpdate(n) \/ ApplyDispatch(n)
  BY <1>1, KeepOnward DEF ApplyStamp, ApplyUpdate, ApplyDispatch, cluster, pool, Same, TypeOK
<1>2. CASE BuildCache(n) \/ InstallInner(n) \/ InstallReplay(n) \/ InstallCache(n)
  BY <1>2, KeepOnward
  DEF BuildCache, InstallInner, InstallReplay, InstallCache, cluster, pool, Same, TypeOK
<1>3. CASE HandleCreateShard(n) \/ HandleRoute(n)
  BY <1>3, KeepOnward
  DEF HandleCreateShard, HandleRoute, ListenerTakes, cluster, machine, Same, TypeOK
<1>4. CASE CreateOk(n) \/ CheckLeader(n) \/ Initialize(n)
  BY <1>4, KeepOnward DEF CreateOk, CheckLeader, Initialize, cluster, machine, Same, TypeOK
<1>5. CASE BuildRead(n) \/ CreateErr(n) \/ InitializeErr(n) \/ Restart(n)
  <2>1. Onward
    BY <1>5, SpendOnward DEF BuildRead, CreateErr, InitializeErr, Restart, Onward, Kind, cluster
  <2>2. Same(k)
    BY <1>5 DEF BuildRead, CreateErr, InitializeErr, Restart, machine, pool, Same, TypeOK
  <2>. QED
    BY <2>1, <2>2
<1>. QED
  BY <1>1, <1>2, <1>3, <1>4, <1>5

-----------------------------------------------------------------------------
ConfigInv == TypeOK /\ \A n \in Node : NodeInv(n)

LEMMA ConfigInit == Init => ConfigInv
<1> SUFFICES ASSUME Init PROVE \A n \in Node : NodeInv(n)
  BY InitType DEF ConfigInv
<1> TAKE n \in Node
<1>1. Coming(n) = <<>>
  BY DEF Init, Coming, Pending
<1>2. RoutesFollow(n)
  BY <1>1, SMT DEF Init, RoutesFollow, EndsAt, New, NoRoutes
<1>3. ShardsFollow(n) /\ SnapshotFree(n)
  BY DEF Init, ShardsFollow, SnapshotFree, New
<1>4. Applied(n) = 0 /\ routes[n] = NoRoutes /\ shards[n] = {0} /\ listener[n].pc # "create"
  BY DEF Init, Applied, New, Idle
<1>5. InOrder(n)
  <2>1. Exact(shards[n], listener[n], routes[n], log, 0)
    BY <1>4, ExactNothing
  <2>. QED
    BY <1>1, <1>4, <2>1, NothingHandled DEF InOrder, Handled
<1>. QED
  BY <1>2, <1>3, <1>5 DEF NodeInv

(* A restarted node has no routes and no shards to lose.                   *)
LEMMA FreshInv ==
  ASSUME NEW n \in Node, inner'[n] = New, worker'[n] = "idle", queue'[n] = <<>>,
         shards'[n] = {0}, routes'[n] = NoRoutes, listener'[n] = Idle,
         builder'[n] = NoSnapshot, cached_snapshot'[n] = NoSnapshot
  PROVE  NodeInv(n)'
<1>1. Coming(n)' = <<>>
  BY DEF Coming, Pending
<1>2. RoutesFollow(n)'
  BY <1>1, SMT DEF RoutesFollow, EndsAt, New, NoRoutes
<1>3. ShardsFollow(n)' /\ SnapshotFree(n)'
  BY DEF ShardsFollow, SnapshotFree, New
<1>4. Applied(n)' = 0
  BY DEF Applied, New
<1>5. Handled(n, 0)'
  <2>1. /\ 0 + Len(<<>>) = 0 /\ Slice(<<>>, log', 0)
        /\ Creates(shards'[n], listener'[n], log', 0) /\ Routed(shards'[n], NoRoutes, log', 0)
    BY NothingHandled
  <2>2. Exact(shards'[n], listener'[n], NoRoutes, log', 0)
    BY ExactNothing DEF Idle
  <2>3. 0 + Len(Coming(n)') = Applied(n)' /\ Slice(Coming(n)', log', 0) /\ 0 \in Nat
    BY <1>1, <1>4, <2>1
  <2>. QED
    BY <2>1, <2>2, <2>3, HandledNext
<1>6. InOrder(n)'
  BY <1>5 DEF InOrder
<1>. QED
  BY <1>2, <1>3, <1>6 DEF NodeInv

-----------------------------------------------------------------------------
(* The steps of openraft change no node's machine, channel or pool.        *)
LEMMA RaftKeeps ==
  ASSUME TypeOK, NEW n \in Node, NodeInv(n),
         \/ \E cmd \in Command : client_write(cmd)
         \/ \E k \in Node : Replicate(k) \/ Elect(k) \/ Purge(k)
  PROVE  NodeInv(n)'
<1>1. Onward
  <2>1. ASSUME NEW k \in Node, Elect(k) PROVE Onward
    BY <2>1, SpendOnward DEF Elect, Onward, Kind
  <2>2. ASSUME NEW k \in Node, Replicate(k) \/ Purge(k) PROVE Onward
    BY <2>2, KeepOnward DEF Replicate, Purge, cluster
  <2>3. ASSUME NEW cmd \in Command, client_write(cmd) PROVE Onward
    BY <2>3, KeepOnward DEF client_write
  <2>. QED
    BY <2>1, <2>2, <2>3
<1>2. Same(n)
  BY DEF client_write, Replicate, Elect, Purge, machine, pool, Same
<1>. QED
  BY <1>1, <1>2, SameKeeps

(* The last command of q \o <<cmd>>.                                       *)
LEMMA EndsAtAppended ==
  ASSUME NEW q \in Seq(Command), NEW cmd \in Command, NEW m \in Module,
         NEW r, NEW x \in [Module -> Shard \cup {NoRoute}],
         Concerns(cmd, m) \/ EndsAt(q, r, m, x[m])
  PROVE  EndsAt(q \o <<cmd>>, r, m, Rerouted(x, cmd)[m])
<1>1. <<cmd>> \in Seq(Command) /\ DOMAIN <<cmd>> = {1} /\ <<cmd>>[1] = cmd
  OBVIOUS
<1>2. CASE Concerns(cmd, m)
  <2>1. Rerouted(x, cmd)[m] = Target(cmd)
    BY <1>2, CommandFacts DEF Concerns, Target, Rerouted, add_route, remove_route
  <2>2. \A j \in DOMAIN <<cmd>> : j > 1 => ~ Concerns(<<cmd>>[j], m)
    BY <1>1
  <2>. QED
    BY <1>1, <1>2, <2>1, <2>2, EndsAtLast
<1>3. CASE ~ Concerns(cmd, m)
  <2>1. Rerouted(x, cmd)[m] = x[m]
    BY <1>3, CommandFacts DEF Concerns, Rerouted, add_route, remove_route
  <2>2. \A k \in DOMAIN <<cmd>> : ~ Concerns(<<cmd>>[k], m)
    BY <1>1, <1>3
  <2>. QED
    BY <1>1, <1>3, <2>1, <2>2, EndsAtMore
<1>. QED
  BY <1>2, <1>3

LEMMA CreateIs ==
  ASSUME NEW cmd \in Command, cmd.tag = "CreateShard"
  PROVE  cmd = CreateShard(cmd.shard)
BY DEF Command, CreateShard, AddRoute, RemoveRoute

(* ApplyUpdate and ApplyDispatch: the command goes into the machine, then  *)
(* onto the channel.                                                       *)
LEMMA ApplyKeeps ==
  ASSUME TypeOK, TypeOK', NEW n \in Node, NodeInv(n),
         ApplyStamp(n) \/ ApplyUpdate(n) \/ ApplyDispatch(n)
  PROVE  NodeInv(n)'
<1>0. Onward
  BY KeepOnward DEF ApplyStamp, ApplyUpdate, ApplyDispatch, cluster
<1>1. SnapshotFree(n)'
  BY <1>0 DEF ApplyStamp, ApplyUpdate, ApplyDispatch, NodeInv, SnapshotFree, Onward, TypeOK
<1>2. inner[n] \in Machine /\ queue[n] \in Seq(Command)
  BY DEF TypeOK
<1>3. CASE ApplyStamp(n)
  <2>1. /\ inner'[n].shard_routes = inner[n].shard_routes
        /\ inner'[n].active_shards = inner[n].active_shards
    BY <1>3, SMT DEF ApplyStamp, TypeOK, Machine
  <2>2. worker[n] = "idle" /\ worker'[n] = "stamped" /\ UNCHANGED <<queue, pool>>
    BY <1>3 DEF ApplyStamp, TypeOK
  <2>3. Coming(n)' = Coming(n)
    BY <2>2, IdleComing, IdleComingNext
  <2>4. Applied(n)' = Applied(n)
    <3>1. inner'[n].last_applied = inner[n].last_applied + 1
      BY <1>3, SMT DEF ApplyStamp, TypeOK, Machine
    <3>2. inner[n].last_applied \in Nat
      BY <1>2, MachineFacts
    <3>. QED
      BY <2>2, <3>1, <3>2 DEF Applied
  <2>5. InOrder(n)'
    BY <1>0, <2>2, <2>3, <2>4, InOrderSteady DEF NodeInv, pool
  <2>. QED
    BY <1>0, <1>1, <2>1, <2>2, <2>3, <2>5, RoutesSteady, ShardsSteady DEF NodeInv, Onward, pool
<1>4. CASE ApplyUpdate(n)
  <2> DEFINE cmd == Current(n)
  <2>1. cmd \in Command
    BY <1>4, CurrentType DEF ApplyUpdate
  <2>2. /\ worker[n] = "stamped" /\ worker'[n] = "updated" /\ log' = log
        /\ inner'[n] = Updated(inner[n], cmd) /\ UNCHANGED <<queue, pool>>
    BY <1>4 DEF ApplyUpdate, TypeOK, cluster
  <2> HIDE DEF cmd
  <2>3. /\ inner'[n].last_applied = inner[n].last_applied
        /\ inner'[n].shard_routes = Rerouted(inner[n].shard_routes, cmd)
        /\ inner'[n].active_shards = IF cmd.tag = "CreateShard"
             THEN inner[n].active_shards \cup {cmd.shard} ELSE inner[n].active_shards
    <3>1. inner[n] \in Machine
      BY <1>2
    <3>. QED
      BY <2>1, <2>2, <3>1, UpdatedFacts, SMT
  <2>4. Coming(n) = queue[n]
    BY <2>2, IdleComing
  <2>5. Coming(n)' = queue[n] \o <<cmd>>
    BY <2>2, <2>3 DEF Coming, Pending, Current, cmd
  <2>6. ASSUME NEW m \in Module,
               inner'[n].shard_routes[m] # NoRoute \/ NoSnapshots'
        PROVE  EndsAt(Coming(n)', routes'[n], m, inner'[n].shard_routes[m])
    <3>1. inner[n].shard_routes \in [Module -> Shard \cup {NoRoute}]
      BY <1>2, MachineFacts
    <3>2. Concerns(cmd, m) \/ inner'[n].shard_routes[m] = inner[n].shard_routes[m]
      BY <2>1, <2>3, <3>1, CommandFacts DEF Concerns, Rerouted, add_route, remove_route
    <3>3. Concerns(cmd, m) \/ EndsAt(queue[n], routes[n], m, inner[n].shard_routes[m])
      BY <1>0, <2>4, <2>6, <3>2 DEF NodeInv, RoutesFollow, Onward
    <3>4. EndsAt(queue[n] \o <<cmd>>, routes[n], m, Rerouted(inner[n].shard_routes, cmd)[m])
      BY <1>2, <2>1, <3>1, <3>3, EndsAtAppended
    <3>. QED
      BY <2>2, <2>3, <2>5, <3>4 DEF pool
  <2>7. ASSUME NoFailure', NEW s \in inner'[n].active_shards
        PROVE  UnderWay(n, s)'
    <3>0. <<cmd>> \in Seq(Command) /\ Len(<<cmd>>) = 1 /\ <<cmd>>[1] = cmd
      BY <2>1
    <3>1. CASE s \in inner[n].active_shards
      <4>1. UnderWay(n, s)
        BY <1>0, <2>7, <3>1 DEF NodeInv, ShardsFollow, Onward
      <4>2. \A i \in DOMAIN queue[n] : /\ i \in DOMAIN (queue[n] \o <<cmd>>)
                                       /\ (queue[n] \o <<cmd>>)[i] = queue[n][i]
        BY <1>2, <3>0, ConcatOld
      <4>. QED
        BY <2>2, <2>4, <2>5, <4>1, <4>2 DEF UnderWay, pool
    <3>2. CASE s \notin inner[n].active_shards
      <4>1. cmd = CreateShard(s)
        BY <2>1, <2>3, <2>7, <3>2, CreateIs
      <4>2. /\ 1 + Len(queue[n]) \in DOMAIN (queue[n] \o <<cmd>>)
            /\ (queue[n] \o <<cmd>>)[1 + Len(queue[n])] = cmd
        <5>1. 1 \in DOMAIN <<cmd>>
          BY <3>0
        <5>. QED
          BY <1>2, <3>0, <5>1, ConcatNew
      <4>. QED
        BY <2>5, <4>1, <4>2 DEF UnderWay
    <3>. QED
      BY <3>1, <3>2
  <2>8. ASSUME NoSnapshots' PROVE (\E h \in Nat : Handled(n, h))'
    <3>1. PICK h \in Nat : Handled(n, h)
      BY <1>0, <2>8 DEF NodeInv, InOrder, Onward
    <3>2. /\ inner[n].last_applied \in Nat /\ Len(queue[n]) \in Nat
          /\ Applied(n) = inner[n].last_applied - 1
          /\ Applied(n)' = inner[n].last_applied
      BY <1>2, <2>2, <2>3, MachineFacts, LenProperties, SMT DEF Applied
    <3>3. h + Len(queue[n]) = Applied(n) /\ Slice(queue[n], log, h)
      BY <2>4, <3>1 DEF Handled
    <3>4. h + (Len(queue[n]) + 1) = inner[n].last_applied
      BY <3>2, <3>3
    <3>5. /\ Slice(queue[n] \o <<cmd>>, log, h)
          /\ Len(queue[n] \o <<cmd>>) = Len(queue[n]) + 1
      <4>1. log[h + (Len(queue[n]) + 1)] = cmd
        BY <3>4 DEF cmd, Current
      <4>. QED
        BY <1>2, <2>1, <3>3, <4>1, SliceAppend
    <3>6. Slice(Coming(n)', log', h) /\ h + Len(Coming(n)') = Applied(n)'
      BY <2>2, <2>5, <3>2, <3>4, <3>5
    <3>7. /\ NoFailure' => /\ Creates(shards'[n], listener'[n], log', h)
                           /\ Routed(shards'[n], routes'[n], log', h)
          /\ Exact(shards'[n], listener'[n], routes'[n], log', h)
      BY <1>0, <2>2, <3>1 DEF Handled, Onward, pool
    <3>8. Handled(n, h)'
      BY <3>6, <3>7, HandledNext
    <3>. QED
      BY <3>8
  <2>. QED
    BY <1>1, <2>6, <2>7, <2>8 DEF NodeInv, RoutesFollow, ShardsFollow, InOrder
<1>5. CASE ApplyDispatch(n)
  <2>1. /\ worker[n] = "updated" /\ worker'[n] = "idle" /\ inner' = inner
        /\ queue'[n] = Append(queue[n], Current(n)) /\ UNCHANGED pool
    BY <1>5 DEF ApplyDispatch, TypeOK
  <2>2. Coming(n) = queue[n] \o <<Current(n)>>
    BY <2>1 DEF Coming, Pending
  <2>3. Coming(n)' = Append(queue[n], Current(n))
    BY <2>1, IdleComingNext
  <2>4. Append(queue[n], Current(n)) = queue[n] \o <<Current(n)>>
    BY <1>2, <2>1, CurrentType, AppendIsConcat
  <2>5. Applied(n)' = Applied(n)
    BY <2>1 DEF Applied
  <2>6. InOrder(n)'
    BY <1>0, <2>1, <2>2, <2>3, <2>4, <2>5, InOrderSteady DEF NodeInv, pool
  <2>. QED
    BY <1>0, <1>1, <2>1, <2>2, <2>3, <2>4, <2>6, RoutesSteady, ShardsSteady
    DEF NodeInv, Onward, pool
<1>. QED
  BY <1>3, <1>4, <1>5

-----------------------------------------------------------------------------
(* Snapshots.                                                              *)

LEMMA BuildKeeps ==
  ASSUME TypeOK, NEW n \in Node, NodeInv(n), BuildRead(n) \/ BuildCache(n)
  PROVE  NodeInv(n)'
<1>1. Onward /\ (BuildRead(n) => ~ NoSnapshots')
  <2>1. CASE BuildRead(n)
    BY <2>1, SpendOnward DEF BuildRead, Onward, Kind, cluster
  <2>2. CASE BuildCache(n) /\ ~ BuildRead(n)
    BY <2>2, KeepOnward DEF BuildCache, cluster
  <2>. QED
    BY <2>1, <2>2
<1>2. inner' = inner /\ worker' = worker /\ queue' = queue /\ UNCHANGED pool
  BY DEF BuildRead, BuildCache
<1>3. Coming(n)' = Coming(n)
  BY <1>1, <1>2, SameComing
<1>4. SnapshotFree(n)'
  BY <1>1, <1>2 DEF BuildCache, NodeInv, SnapshotFree, Onward
<1>5. Applied(n)' = Applied(n)
  BY <1>2 DEF Applied
<1>6. InOrder(n)'
  BY <1>1, <1>2, <1>3, <1>5, InOrderSteady DEF NodeInv, pool
<1>. QED
  BY <1>1, <1>2, <1>3, <1>4, <1>6, RoutesSteady, ShardsSteady DEF NodeInv, Onward, pool

(* What a snapshot brings is on the channel as soon as it is in the        *)
(* machine, after everything that was there before.                        *)
LEMMA InstallKeeps ==
  ASSUME TypeOK, TypeOK', \A k \in Node : NodeInv(k), NEW n \in Node,
         InstallInner(n) \/ InstallReplay(n) \/ InstallCache(n)
  PROVE  NodeInv(n)'
<1>0. Onward
  BY KeepOnward DEF InstallInner, InstallReplay, InstallCache, cluster
<1>1. inner[n] \in Machine /\ queue[n] \in Seq(Command)
  BY DEF TypeOK
<1>2. CASE InstallInner(n)
  <2> DEFINE x == cached_snapshot[leader]
  <2>1. /\ leader \in Node /\ x # NoSnapshot /\ x \in Machine
    BY <1>2 DEF InstallInner, TypeOK
  <2>2. /\ worker[n] = "idle" /\ worker'[n] = "installed" /\ inner'[n] = x
        /\ UNCHANGED <<queue, pool>>
    BY <1>2 DEF InstallInner, TypeOK
  <2>3. ~ NoSnapshots'
    BY <1>0, <2>1 DEF NodeInv, SnapshotFree, Onward
  <2> HIDE DEF x
  <2>4. Coming(n) = queue[n]
    BY <2>2, IdleComing
  <2>5. Coming(n)' = queue[n] \o Replay(x)
    BY <2>2 DEF Coming, Pending
  <2>6. Replay(x) \in Seq(Command)
    BY <2>1, ReplayFacts
  <2>7. ASSUME NEW m \in Module, x.shard_routes[m] # NoRoute
        PROVE  EndsAt(queue[n] \o Replay(x), routes[n], m, x.shard_routes[m])
    <3>1. PICK k \in DOMAIN Replay(x) :
            /\ Replay(x)[k] = AddRoute(m, x.shard_routes[m])
            /\ \A j \in DOMAIN Replay(x) : j > k => ~ Concerns(Replay(x)[j], m)
      BY <2>1, <2>7, ReplayFacts
    <3>2. Concerns(Replay(x)[k], m) /\ Target(Replay(x)[k]) = x.shard_routes[m]
      BY <3>1 DEF Concerns, Target, AddRoute
    <3>. QED
      BY <1>1, <2>6, <3>1, <3>2, EndsAtLast
  <2>8. ASSUME NEW s \in x.active_shards PROVE UnderWay(n, s)'
    <3>1. PICK k \in DOMAIN Replay(x) : Replay(x)[k] = CreateShard(s)
      BY <2>1, ReplayFacts
    <3>2. /\ k + Len(queue[n]) \in DOMAIN (queue[n] \o Replay(x))
          /\ (queue[n] \o Replay(x))[k + Len(queue[n])] = CreateShard(s)
      BY <1>1, <2>6, <3>1, ConcatNew
    <3>. QED
      BY <2>5, <3>2 DEF UnderWay
  <2>9. RoutesFollow(n)'
    BY <2>2, <2>3, <2>5, <2>7 DEF RoutesFollow, pool
  <2>10. ShardsFollow(n)' /\ SnapshotFree(n)' /\ InOrder(n)'
    BY <2>2, <2>3, <2>8 DEF ShardsFollow, SnapshotFree, InOrder
  <2>. QED
    BY <2>9, <2>10 DEF NodeInv
<1>3. CASE InstallReplay(n)
  <2>1. /\ worker[n] = "installed" /\ worker'[n] = "replayed" /\ inner' = inner
        /\ queue'[n] = queue[n] \o Replay(inner[n]) /\ UNCHANGED <<builder, cached_snapshot, pool>>
    BY <1>3 DEF InstallReplay, TypeOK
  <2>2. Coming(n)' = Coming(n)
    <3>1. Coming(n)' = queue'[n]
      BY <2>1, IdleComingNext
    <3>2. Coming(n) = queue[n] \o Replay(inner[n])
      BY <2>1 DEF Coming, Pending
    <3>. QED
      BY <2>1, <3>1, <3>2
  <2>3. SnapshotFree(n)'
    BY <1>0, <2>1 DEF NodeInv, SnapshotFree, Onward
  <2>4. Applied(n)' = Applied(n)
    BY <2>1 DEF Applied
  <2>5. InOrder(n)'
    BY <1>0, <2>1, <2>2, <2>4, InOrderSteady DEF NodeInv, pool
  <2>. QED
    BY <1>0, <2>1, <2>2, <2>3, <2>5, RoutesSteady, ShardsSteady DEF NodeInv, Onward, pool
<1>4. CASE InstallCache(n)
  <2>1. /\ worker[n] = "replayed" /\ worker'[n] = "idle" /\ inner' = inner
        /\ UNCHANGED <<queue, pool>>
    BY <1>4 DEF InstallCache, TypeOK
  <2>2. Coming(n)' = Coming(n)
    BY <2>1, IdleComing, IdleComingNext
  <2>3. SnapshotFree(n)'
    BY <1>0, <2>1 DEF NodeInv, SnapshotFree, Onward
  <2>4. Applied(n)' = Applied(n)
    BY <2>1 DEF Applied
  <2>5. InOrder(n)'
    BY <1>0, <2>1, <2>2, <2>4, InOrderSteady DEF NodeInv, pool
  <2>. QED
    BY <1>0, <2>1, <2>2, <2>3, <2>5, RoutesSteady, ShardsSteady DEF NodeInv, Onward, pool
<1>. QED
  BY <1>2, <1>3, <1>4

-----------------------------------------------------------------------------
(* The listener takes the first of the commands that are coming.           *)

LEMMA TakesFacts ==
  ASSUME TypeOK, NEW n \in Node, NEW tag, ListenerTakes(n, tag)
  PROVE  /\ Onward /\ listener[n].pc = "recv"
         /\ UNCHANGED <<inner, worker, builder, cached_snapshot>>
         /\ Coming(n) \in Seq(Command) /\ Coming(n) # <<>>
         /\ Head(Coming(n)) = Head(queue[n])
         /\ Head(queue[n]) \in Command /\ Head(queue[n]).tag = tag
         /\ Coming(n)' = Tail(Coming(n))
<1>1. /\ listener[n].pc = "recv" /\ queue[n] # <<>> /\ Head(queue[n]).tag = tag
      /\ queue'[n] = Tail(queue[n])
      /\ UNCHANGED <<log, budget, inner, worker, builder, cached_snapshot>>
  BY DEF ListenerTakes, TypeOK, cluster, machine
<1>2. queue[n] \in Seq(Command) /\ Pending(n) \in Seq(Command) /\ Coming(n) \in Seq(Command)
  BY PendingType
<1>3. Pending(n)' = Pending(n)
  BY <1>1 DEF Pending, Current
<1>4. Head(queue[n]) \in Command
  BY <1>1, <1>2, HeadTailProperties
<1>5. /\ Coming(n) # <<>> /\ Head(Coming(n)) = Head(queue[n])
      /\ Tail(Coming(n)) = Tail(queue[n]) \o Pending(n)
  BY <1>1, <1>2, TailOfConcat DEF Coming
<1>6. Coming(n)' = Tail(queue[n]) \o Pending(n)
  BY <1>1, <1>3 DEF Coming
<1>. QED
  BY <1>1, <1>2, <1>4, <1>5, <1>6, KeepOnward

LEMMA HandleKeeps ==
  ASSUME TypeOK, NEW n \in Node, NodeInv(n), HandleCreateShard(n) \/ HandleRoute(n)
  PROVE  NodeInv(n)'
<1> DEFINE q == Coming(n)
           cmd == Head(queue[n])
<1>1. /\ Onward /\ listener[n].pc = "recv"
      /\ UNCHANGED <<inner, worker, builder, cached_snapshot>>
      /\ q \in Seq(Command) /\ q # <<>> /\ Head(q) = cmd /\ cmd \in Command
      /\ Coming(n)' = Tail(q)
  BY TakesFacts DEF HandleCreateShard, HandleRoute
<1>2. /\ HandleCreateShard(n) => cmd.tag = "CreateShard"
      /\ HandleRoute(n) => cmd.tag # "CreateShard"
  BY DEF HandleCreateShard, HandleRoute, ListenerTakes
<1>3. shards' = shards
  BY DEF HandleCreateShard, HandleRoute
<1>4. routes'[n] = Rerouted(routes[n], cmd)
  <2>1. CASE HandleCreateShard(n)
    BY <1>2, <2>1 DEF HandleCreateShard, Rerouted
  <2>2. CASE HandleRoute(n)
    BY <2>2 DEF HandleRoute, TypeOK
  <2>. QED
    BY <2>1, <2>2
<1>5. /\ HandleCreateShard(n) => \/ cmd.shard \in shards[n]
                                 \/ listener'[n] = [pc |-> "create", shard |-> cmd.shard]
  BY DEF HandleCreateShard, TypeOK
<1>6. routes[n] \in [Module -> Shard \cup {NoRoute}]
  BY DEF TypeOK
<1> HIDE DEF q, cmd
<1>7. RoutesFollow(n)'
  <2> SUFFICES ASSUME NEW m \in Module, inner[n].shard_routes[m] # NoRoute \/ NoSnapshots'
               PROVE  EndsAt(Tail(q), Rerouted(routes[n], Head(q)), m, inner[n].shard_routes[m])
    BY <1>1, <1>4 DEF RoutesFollow
  <2>1. EndsAt(q, routes[n], m, inner[n].shard_routes[m])
    BY <1>1 DEF NodeInv, RoutesFollow, Onward, q
  <2>. QED
    BY <1>1, <1>6, <2>1, EndsAtTail
<1>8. ShardsFollow(n)'
  <2> SUFFICES ASSUME NoFailure', NEW s \in inner[n].active_shards
               PROVE  UnderWay(n, s)'
    BY <1>1 DEF ShardsFollow
  <2>0. UnderWay(n, s)
    BY <1>1 DEF NodeInv, ShardsFollow, Onward
  <2>1. s \in shards[n] \/ \E i \in DOMAIN q : q[i] = CreateShard(s)
    <3>1. listener[n] # [pc |-> "create", shard |-> s]
      BY <1>1
    <3>. QED
      BY <2>0, <3>1 DEF UnderWay, q
  <2>2. CASE \E i \in DOMAIN Tail(q) : Tail(q)[i] = CreateShard(s)
    BY <1>1, <2>2 DEF UnderWay
  <2>3. CASE cmd = CreateShard(s)
    <3>1. cmd.tag = "CreateShard" /\ cmd.shard = s
      BY <2>3 DEF CreateShard
    <3>2. HandleCreateShard(n)
      BY <1>2, <3>1
    <3>. QED
      BY <1>3, <1>5, <3>1, <3>2 DEF UnderWay
  <2>4. CASE s \in shards[n]
    BY <1>3, <2>4 DEF UnderWay
  <2>. QED
    BY <1>1, <2>1, <2>2, <2>3, <2>4, TailHas
<1>9. SnapshotFree(n)'
  BY <1>1 DEF NodeInv, SnapshotFree, Onward
<1>10. log' = log
  BY DEF HandleCreateShard, HandleRoute, ListenerTakes, cluster
<1>11. \A s \in Held(shards[n], listener'[n]) :
         s \in Held(shards[n], listener[n]) \/ (s \in Shard /\ cmd = CreateShard(s))
  <2>1. CASE HandleRoute(n)
    BY <2>1 DEF HandleRoute
  <2>2. CASE HandleCreateShard(n)
    <3>1. cmd = CreateShard(cmd.shard) /\ cmd.shard \in Shard
      BY <1>1, <1>2, <2>2, CreateIs, CommandFacts
    <3>2. listener'[n] = Idle \/ listener'[n] = [pc |-> "create", shard |-> cmd.shard]
      BY <2>2 DEF HandleCreateShard, TypeOK, cmd
    <3>. QED
      BY <3>1, <3>2, SMT DEF Held, Idle
  <2>. QED
    BY <2>1, <2>2
<1>12. ASSUME NoSnapshots' PROVE (\E h \in Nat : Handled(n, h))'
  <2>1. PICK h \in Nat : Handled(n, h)
    BY <1>1, <1>12 DEF NodeInv, InOrder, Onward
  <2>2. h + Len(q) = Applied(n) /\ Slice(q, log, h)
    BY <2>1 DEF Handled, q
  <2>3. /\ Slice(Tail(q), log, h + 1) /\ cmd = log[h + 1]
        /\ Len(q) \in Nat /\ Len(q) >= 1 /\ Len(Tail(q)) = Len(q) - 1
    BY <1>1, <2>2, SliceTail
  <2>4. Applied(n)' = Applied(n)
    BY <1>1 DEF Applied
  <2>5. h + 1 \in Nat /\ h + 1 + Len(Tail(q)) = Applied(n)
    <3> DEFINE before == Len(q)
               after == Len(Tail(q))
               end == Applied(n)
    <3>1. h + before = end /\ before \in Nat /\ before >= 1 /\ after = before - 1
      BY <2>2, <2>3
    <3> HIDE DEF before, after, end
    <3>2. h + 1 \in Nat /\ h + 1 + after = end
      BY <3>1
    <3>. QED
      BY <3>2 DEF after, end
  <2>6. ASSUME NoFailure'
        PROVE  /\ Creates(shards[n], listener'[n], log, h + 1)
               /\ Routed(shards[n], Rerouted(routes[n], cmd), log, h + 1)
    <3>1. Creates(shards[n], listener[n], log, h) /\ Routed(shards[n], routes[n], log, h)
      BY <1>1, <2>1, <2>6 DEF Handled, Onward
    <3>2. cmd.tag = "CreateShard" =>
            cmd.shard \in shards[n] \/ listener'[n] = [pc |-> "create", shard |-> cmd.shard]
      BY <1>2, <1>5
    <3>3. listener[n].pc # "create" /\ cmd \in Command
      BY <1>1
    <3>4. log[h + 1] = cmd
      BY <2>3
    <3>. QED
      BY <1>6, <3>1, <3>2, <3>3, <3>4, DoneNext
  <2>7. Exact(shards[n], listener'[n], Rerouted(routes[n], cmd), log, h + 1)
    <3>1. Exact(shards[n], listener[n], routes[n], log, h)
      BY <2>1 DEF Handled
    <3>2. log[h + 1] = cmd /\ cmd \in Command
      BY <1>1, <2>3
    <3>. QED
      BY <1>6, <1>11, <3>1, <3>2, ExactNext
  <2>8. h + 1 + Len(Coming(n)') = Applied(n)' /\ Slice(Coming(n)', log', h + 1)
    BY <1>1, <1>10, <2>3, <2>4, <2>5
  <2>9. /\ NoFailure' => /\ Creates(shards'[n], listener'[n], log', h + 1)
                         /\ Routed(shards'[n], routes'[n], log', h + 1)
        /\ Exact(shards'[n], listener'[n], routes'[n], log', h + 1)
    BY <1>3, <1>4, <1>10, <2>6, <2>7
  <2>10. Handled(n, h + 1)'
    BY <2>5, <2>8, <2>9, HandledNext
  <2>. QED
    BY <2>5, <2>10
<1>13. InOrder(n)'
  BY <1>12 DEF InOrder
<1>. QED
  BY <1>7, <1>8, <1>9, <1>13 DEF NodeInv

(* The rest of the listener touches neither the channel nor the router.    *)
LEMMA ListenerKeeps ==
  ASSUME TypeOK, NEW n \in Node, NodeInv(n),
         \/ CreateOk(n) \/ CreateErr(n) \/ CheckLeader(n)
         \/ Initialize(n) \/ InitializeErr(n)
  PROVE  NodeInv(n)'
<1>1. Onward /\ (CreateErr(n) => ~ NoFailure')
  <2>1. CASE CreateErr(n) \/ InitializeErr(n)
    BY <2>1, SpendOnward DEF CreateErr, InitializeErr, Onward, Kind, cluster
  <2>2. CASE CreateOk(n) \/ CheckLeader(n) \/ Initialize(n)
    <3>1. Onward
      BY <2>2, KeepOnward DEF CreateOk, CheckLeader, Initialize, cluster
    <3>2. CASE CreateErr(n)
      BY <2>1, <3>2
    <3>. QED
      BY <3>1, <3>2
  <2>. QED
    BY <2>1, <2>2
<1>2. UNCHANGED <<machine, queue, routes>>
  BY DEF CreateOk, CreateErr, CheckLeader, Initialize, InitializeErr
<1>3. Coming(n)' = Coming(n)
  BY <1>1, <1>2, SameComing DEF machine
<1>4. shards[n] \subseteq shards'[n]
  BY SMT DEF CreateOk, CreateErr, CheckLeader, Initialize, InitializeErr, TypeOK
<1>5. NoFailure' => listener[n].pc # "create" \/ listener[n].shard \in shards'[n]
  BY <1>1, SMT DEF CreateOk, CheckLeader, Initialize, InitializeErr, TypeOK
<1>6. Held(shards'[n], listener'[n]) \subseteq Held(shards[n], listener[n])
  <2>1. CASE CreateOk(n)
    BY <2>1 DEF CreateOk, TypeOK, Held
  <2>2. CASE CreateErr(n) \/ CheckLeader(n) \/ Initialize(n) \/ InitializeErr(n)
    <3>1. shards'[n] = shards[n] /\ listener'[n].pc # "create"
      BY <2>2, SMT DEF CreateErr, CheckLeader, Initialize, InitializeErr, TypeOK, Idle
    <3>. QED
      BY <3>1 DEF Held
  <2>. QED
    BY <2>1, <2>2
<1>7. RoutesFollow(n)'
  BY <1>1, <1>2, <1>3, RoutesSteady DEF NodeInv, Onward, machine
<1>8. ShardsFollow(n)'
  BY <1>1, <1>2, <1>3, <1>4, <1>5, ShardsSteady DEF NodeInv, Onward, machine
<1>9. SnapshotFree(n)'
  BY <1>1, <1>2 DEF NodeInv, SnapshotFree, Onward, machine
<1>10. Applied(n)' = Applied(n)
  BY <1>2 DEF Applied, machine
<1>11. InOrder(n)'
  BY <1>1, <1>2, <1>3, <1>4, <1>5, <1>10, <1>6, InOrderSteady DEF NodeInv
<1>. QED
  BY <1>7, <1>8, <1>9, <1>11 DEF NodeInv

-----------------------------------------------------------------------------
LEMMA ConfigStep == ConfigInv /\ TypeOK' /\ [Next]_vars => ConfigInv'
<1> SUFFICES ASSUME TypeOK, \A k \in Node : NodeInv(k), TypeOK', [Next]_vars, NEW k \in Node
             PROVE  NodeInv(k)'
  BY DEF ConfigInv
<1>1. CASE CreateShardCommand \/ AddRouteCommand \/ RemoveRouteCommand
  BY <1>1, RaftKeeps, ApiCommands
  DEF CreateShardCommand, AddRouteCommand, RemoveRouteCommand,
      shard_create, shard_add_route, shard_remove_route
<1>2. ASSUME NEW n \in Node, Progress(n) \/ Elect(n) \/ Purge(n) \/ BuildRead(n) \/ BuildCache(n)
               \/ CreateErr(n) \/ InitializeErr(n) \/ Restart(n)
      PROVE  NodeInv(k)'
  <2>1. CASE Replicate(n) \/ Elect(n) \/ Purge(n)
    BY <2>1, RaftKeeps
  <2>2. CASE ~ (Replicate(n) \/ Elect(n) \/ Purge(n)) /\ k # n
    <3>1. Onward /\ Same(k)
      BY <1>2, <2>2, StepOfOne DEF Progress
    <3>. QED
      BY <3>1, SameKeeps
  <2>3. CASE Restart(n) /\ k = n
    <3>1. /\ inner'[n] = New /\ worker'[n] = "idle" /\ queue'[n] = <<>>
          /\ shards'[n] = {0} /\ routes'[n] = NoRoutes /\ listener'[n] = Idle
          /\ builder'[n] = NoSnapshot /\ cached_snapshot'[n] = NoSnapshot
      BY <2>3 DEF Restart, TypeOK
    <3>. QED
      BY <2>3, <3>1, FreshInv
  <2>4. CASE ~ (Replicate(n) \/ Elect(n) \/ Purge(n) \/ Restart(n)) /\ k = n
    BY <1>2, <2>4, ApplyKeeps, BuildKeeps, InstallKeeps, HandleKeeps, ListenerKeeps DEF Progress
  <2>. QED
    BY <2>1, <2>2, <2>3, <2>4
<1>3. CASE UNCHANGED vars
  <2>1. Onward
    BY <1>3, KeepOnward DEF vars, cluster
  <2>2. Same(k)
    BY <1>3 DEF vars, machine, pool, Same
  <2>. QED
    BY <2>1, <2>2, SameKeeps
<1>. QED
  BY <1>1, <1>2, <1>3 DEF Next

LEMMA ConfigInvariant == Spec => []ConfigInv
BY ConfigInit, ConfigStep, ConfigTypeCorrect, PTL DEF Spec

(* On every node, every route in the state machine of shard 0 is in the    *)
(* router or will be there when the listener has done what is coming to    *)
(* it: apply() sends each command after its update, and install_snapshot   *)
(* replays the routes it brings.                                           *)
THEOREM RoutesAreNotLost == Spec => []RoutesNotLost
<1>1. ConfigInv => RoutesNotLost
  BY DEF ConfigInv, NodeInv, RoutesFollow, RoutesNotLost
<1>. QED
  BY <1>1, ConfigInvariant, PTL

(* Until a snapshot is built, the same holds of the routes a command has   *)
(* removed: the router does not keep them.                                 *)
THEOREM RoutesDoMatch == Spec => []RoutesMatch
<1>1. ConfigInv => RoutesMatch
  BY DEF ConfigInv, NodeInv, RoutesFollow, RoutesMatch
<1>. QED
  BY <1>1, ConfigInvariant, PTL

(* Until a creation fails, every shard in the state machine of shard 0 is  *)
(* in the pool, being created, or on its way to the listener.              *)
THEOREM ShardsAreNotLost == Spec => []ShardsNotLost
<1>1. ConfigInv => ShardsNotLost
  BY DEF ConfigInv, NodeInv, ShardsFollow, UnderWay, ShardsNotLost
<1>. QED
  BY <1>1, ConfigInvariant, PTL

(* Where a client creates a shard before it routes a module there, no node *)
(* has route_module() name a shard that is not in its pool, until a        *)
(* creation fails or a snapshot is built: the listener does the commands   *)
(* in the order of the log, each to its end.                               *)
THEOREM RoutesLeadToShards == Spec => []RouteHasShard
<1>1. ASSUME ConfigInv, NoFailure, NoSnapshots, NEW n \in Node, NEW m \in Module,
             CreatedFirst(m, route(routes[n], m))
      PROVE  route(routes[n], m) \in shards[n]
  <2>1. 0 \in shards[n] /\ routes[n][m] \in Shard \cup {NoRoute}
    BY <1>1, SMT DEF ConfigInv, TypeOK
  <2>2. CASE routes[n][m] \in Shard
    <3> DEFINE s == routes[n][m]
    <3>1. route(routes[n], m) = s
      BY <2>2, ShardConfigAssumption DEF route
    <3>2. PICK h \in Nat : Handled(n, h)
      BY <1>1 DEF ConfigInv, NodeInv, InOrder
    <3>3. Routed(shards[n], routes[n], log, h)
      BY <1>1, <3>2 DEF Handled
    <3>4. PICK i \in 1..h : /\ log[i] = AddRoute(m, s)
                            /\ (\E j \in 1..(i - 1) : log[j] = CreateShard(s)) => s \in shards[n]
      BY <2>2, <3>3 DEF Routed
    <3>5. i \in DOMAIN log
      <4>1. /\ Applied(n) \in Nat /\ Applied(n) <= Len(log) /\ Len(log) \in Nat
            /\ Len(Coming(n)) \in Nat
        BY <1>1, AppliedFacts DEF ConfigInv
      <4>2. h + Len(Coming(n)) = Applied(n)
        BY <3>2 DEF Handled
      <4>3. DOMAIN log = 1..Len(log)
        BY <1>1, LenProperties DEF ConfigInv, TypeOK
      <4>. QED
        BY <4>1, <4>2, <4>3
    <3>. QED
      BY <1>1, <3>1, <3>4, <3>5 DEF CreatedFirst
  <2>3. CASE routes[n][m] = NoRoute
    BY <2>1, <2>3 DEF route
  <2>. QED
    BY <2>1, <2>2, <2>3
<1>2. ConfigInv => RouteHasShard
  BY <1>1 DEF RouteHasShard
<1>. QED
  BY <1>2, ConfigInvariant, PTL

(* Until a snapshot is built, the pool and the router of a node are always *)
(* what the first commands of the log make of shard 0 and no routes, and   *)
(* nothing else: handle_shard_config neither invents, skips nor reorders a *)
(* command, also after a restart and while commands wait on the channel.   *)
THEOREM PoolsAreOfTheLog == Spec => []PoolIsPrefix
<1>1. ASSUME ConfigInv, NoSnapshots, NEW n \in Node
      PROVE  \E h \in 0..inner[n].last_applied :
               /\ \A m \in Module : EndsAt(SubSeq(log, 1, h), NoRoutes, m, routes[n][m])
               /\ Held(shards[n], listener[n]) \subseteq Made(log, h)
               /\ NoFailure => Made(log, h) \subseteq Held(shards[n], listener[n])
               /\ worker[n] = "idle" /\ queue[n] = <<>> => h = inner[n].last_applied
  <2>1. TypeOK
    BY <1>1 DEF ConfigInv
  <2>2. PICK h \in Nat : Handled(n, h)
    BY <1>1 DEF ConfigInv, NodeInv, InOrder
  <2> DEFINE len == Len(Coming(n))
             done == Applied(n)
             last == inner[n].last_applied
  <2>3. /\ h + len = done /\ len \in Nat /\ done \in Nat /\ done <= Len(log) /\ Len(log) \in Nat
        /\ last \in Nat /\ done = last - (IF worker[n] = "stamped" THEN 1 ELSE 0)
    <3>1. last \in Nat
      BY <2>1, MachineFacts DEF TypeOK
    <3>2. h + len = done
      BY <2>2 DEF Handled
    <3>3. done = last - (IF worker[n] = "stamped" THEN 1 ELSE 0)
      BY DEF Applied
    <3>. QED
      BY <2>1, <3>1, <3>2, <3>3, AppliedFacts
  <2>4. worker[n] = "idle" /\ queue[n] = <<>> => len = 0
    BY <2>1, IdleComing, EmptySeq
  <2> HIDE DEF len, done, last
  <2>5. h \in 0..Len(log) /\ h \in 0..last
    BY <2>3
  <2>6. worker[n] = "idle" /\ queue[n] = <<>> => h = last
    BY <2>3, <2>4
  <2>7. log \in Seq(Command) /\ 0 \in shards[n]
    BY <2>1 DEF TypeOK
  <2>8. Exact(shards[n], listener[n], routes[n], log, h)
    BY <2>2 DEF Handled
  <2>9. \A m \in Module : EndsAt(SubSeq(log, 1, h), NoRoutes, m, routes[n][m])
    BY <2>5, <2>7, <2>8, StandsPrefix DEF Exact
  <2>10. ASSUME NoFailure, NEW s \in Made(log, h)
         PROVE  s \in Held(shards[n], listener[n])
    <3>1. CASE s = 0
      BY <2>7, <3>1 DEF Held
    <3>2. CASE s \in Shard /\ \E j \in 1..h : log[j] = CreateShard(s)
      <4>1. s \in shards[n] \/ listener[n] = [pc |-> "create", shard |-> s]
        BY <2>2, <2>10, <3>2 DEF Handled, Creates
      <4>. QED
        BY <4>1 DEF Held
    <3>. QED
      BY <3>1, <3>2 DEF Made
  <2>11. Held(shards[n], listener[n]) \subseteq Made(log, h)
    BY <2>8 DEF Exact
  <2>. QED
    BY <2>5, <2>6, <2>9, <2>10, <2>11 DEF last
<1>2. ConfigInv => PoolIsPrefix
  BY <1>1 DEF PoolIsPrefix
<1>. QED
  BY <1>2, ConfigInvariant, PTL
-----------------------------------------------------------------------------
(***************************************************************************)
(* Nothing is invented.  Here snapshots count: what a machine, a snapshot, *)
(* a channel or a pool has is followed to a command of the log, among the  *)
(* first ones that its node or its snapshot has applied.                   *)
(***************************************************************************)

Asked(lg, h, cmd) == \E j \in 1..h : lg[j] = cmd

AskedRoutes(lg, h, r) ==
  \A m \in Module : r[m] # NoRoute => Asked(lg, h, AddRoute(m, r[m]))

AskedMachine(lg, i) ==
  /\ \A s \in i.active_shards : Asked(lg, i.last_applied, CreateShard(s))
  /\ AskedRoutes(lg, i.last_applied, i.shard_routes)

AskedSnapshot(lg, x) == x # NoSnapshot => AskedMachine(lg, x)

AskedPool(lg, h, q, S, r, l) ==
  /\ \A k \in DOMAIN q : Asked(lg, h, q[k])
  /\ S \cup {l.shard} \subseteq Made(lg, h)
  /\ AskedRoutes(lg, h, r)

NodeAsked(n) ==
  /\ AskedMachine(log, inner[n])
  /\ AskedSnapshot(log, builder[n]) /\ AskedSnapshot(log, cached_snapshot[n])
  /\ AskedPool(log, inner[n].last_applied, queue[n], shards[n], routes[n], listener[n])

AskedInv == (\A n \in Node : NodeAsked(n)) /\ initialized \subseteq Made(log, Len(log))

LEMMA AskedNext ==
  ASSUME NEW n \in Node, AskedMachine(log', inner'[n]), AskedSnapshot(log', builder'[n]),
         AskedSnapshot(log', cached_snapshot'[n]),
         AskedPool(log', inner'[n].last_applied, queue'[n], shards'[n], routes'[n], listener'[n])
  PROVE  NodeAsked(n)'
<1>1. AskedMachine(log, inner[n])'
  BY DEF AskedMachine, AskedRoutes, Asked
<1>2. AskedSnapshot(log, builder[n])'
  BY DEF AskedSnapshot, AskedMachine, AskedRoutes, Asked
<1>3. AskedSnapshot(log, cached_snapshot[n])'
  BY DEF AskedSnapshot, AskedMachine, AskedRoutes, Asked
<1>4. AskedPool(log, inner[n].last_applied, queue[n], shards[n], routes[n], listener[n])'
  BY DEF AskedPool, AskedRoutes, Asked, Made
<1>. QED
  BY <1>1, <1>2, <1>3, <1>4 DEF NodeAsked

(* What was asked for stays so when the log or the position in it grows.   *)
LEMMA AskedGrows ==
  ASSUME NEW h \in Nat, NEW g \in Nat, h <= g, NEW lg, NEW lg2, \A j \in 1..h : lg2[j] = lg[j]
  PROVE  /\ \A cmd : Asked(lg, h, cmd) => Asked(lg2, g, cmd)
         /\ \A r : AskedRoutes(lg, h, r) => AskedRoutes(lg2, g, r)
         /\ Made(lg, h) \subseteq Made(lg2, g)
<1>1. \A j \in 1..h : j \in 1..g
  OBVIOUS
<1>2. \A cmd : Asked(lg, h, cmd) => Asked(lg2, g, cmd)
  BY <1>1 DEF Asked
<1>3. Made(lg, h) \subseteq Made(lg2, g)
  BY <1>1 DEF Made
<1>. QED
  BY <1>2, <1>3 DEF AskedRoutes

LEMMA AskedMachineGrows ==
  ASSUME NEW i \in Machine, NEW lg, NEW lg2, \A j \in 1..i.last_applied : lg2[j] = lg[j],
         AskedMachine(lg, i)
  PROVE  AskedMachine(lg2, i)
<1>1. i.last_applied \in Nat /\ i.last_applied <= i.last_applied
  BY MachineFacts, SMT
<1>. QED
  BY <1>1, AskedGrows DEF AskedMachine

LEMMA AskedPoolGrows ==
  ASSUME NEW h \in Nat, NEW g \in Nat, h <= g, NEW lg, NEW lg2, \A j \in 1..h : lg2[j] = lg[j],
         NEW q, NEW S, NEW r, NEW l, AskedPool(lg, h, q, S, r, l)
  PROVE  AskedPool(lg2, g, q, S, r, l)
<1>1. /\ \A cmd : Asked(lg, h, cmd) => Asked(lg2, g, cmd)
      /\ AskedRoutes(lg, h, r) => AskedRoutes(lg2, g, r)
      /\ Made(lg, h) \subseteq Made(lg2, g)
  BY AskedGrows
<1>. QED
  BY <1>1 DEF AskedPool

(* A command that was asked for leaves routes that were asked for.         *)
LEMMA AskedRerouted ==
  ASSUME NEW lg, NEW h, NEW r \in [Module -> Shard \cup {NoRoute}], NEW cmd \in Command,
         AskedRoutes(lg, h, r), Asked(lg, h, cmd)
  PROVE  AskedRoutes(lg, h, Rerouted(r, cmd))
<1>1. ASSUME NEW m \in Module, Rerouted(r, cmd)[m] # NoRoute
      PROVE  \/ Rerouted(r, cmd)[m] = r[m]
             \/ cmd = AddRoute(m, Rerouted(r, cmd)[m])
  <2>1. CASE cmd.tag = "CreateShard"
    BY <2>1 DEF Rerouted
  <2>2. CASE cmd.tag = "RemoveRoute"
    BY <1>1, <2>2, CommandFacts DEF Rerouted, remove_route
  <2>3. CASE cmd.tag = "AddRoute"
    <3>1. PICK x \in Module, t \in Shard : cmd = AddRoute(x, t)
      BY <2>3 DEF Command, CreateShard, AddRoute, RemoveRoute
    <3>2. cmd.module = x /\ cmd.shard = t
      BY <3>1 DEF AddRoute
    <3>3. Rerouted(r, cmd) = [r EXCEPT ![x] = t]
      BY <2>3, <3>2 DEF Rerouted, add_route
    <3>. QED
      BY <3>1, <3>3
  <2>. QED
    BY <2>1, <2>2, <2>3, CommandFacts
<1>. QED
  BY <1>1 DEF AskedRoutes

(* A node that takes no step.                                              *)
LEMMA AskedSame ==
  ASSUME TypeOK, NEW n \in Node, NodeAsked(n), Onward, Same(n)
  PROVE  NodeAsked(n)'
<1>1. \A j \in 1..Len(log) : log'[j] = log[j]
  BY LogKeeps
<1>2. ASSUME NEW h \in Nat, h <= Len(log) PROVE \A j \in 1..h : log'[j] = log[j]
  <2>1. Len(log) \in Nat
    BY AppliedFacts
  <2>2. \A j \in 1..h : j \in 1..Len(log)
    BY <1>2, <2>1
  <2>. QED
    BY <1>1, <2>2
<1>3. ASSUME NEW i \in Machine, i.last_applied <= stored[n], AskedMachine(log, i)
      PROVE  AskedMachine(log', i)
  <2>1. i.last_applied \in Nat /\ i.last_applied <= Len(log)
    BY <1>3, MachineFacts, AppliedFacts, ShardConfigAssumption, SMT DEF TypeOK
  <2>. QED
    BY <1>2, <1>3, <2>1, AskedMachineGrows
<1>4. inner[n] \in Machine /\ inner[n].last_applied <= stored[n]
  BY DEF TypeOK
<1>5. inner[n].last_applied \in Nat /\ inner[n].last_applied <= Len(log)
  BY <1>4, MachineFacts, AppliedFacts, ShardConfigAssumption, SMT DEF TypeOK
<1>6. AskedMachine(log', inner'[n])
  BY <1>3, <1>4 DEF NodeAsked, Same
<1>7. /\ builder[n] # NoSnapshot => builder[n] \in Machine /\ builder[n].last_applied <= stored[n]
      /\ cached_snapshot[n] # NoSnapshot =>
           cached_snapshot[n] \in Machine /\ cached_snapshot[n].last_applied <= stored[n]
  BY DEF TypeOK, Covered
<1>8. AskedSnapshot(log', builder'[n]) /\ AskedSnapshot(log', cached_snapshot'[n])
  BY <1>3, <1>7 DEF NodeAsked, Same, AskedSnapshot
<1>9. AskedPool(log', inner[n].last_applied, queue[n], shards[n], routes[n], listener[n])
  <2>1. \A j \in 1..inner[n].last_applied : log'[j] = log[j]
    BY <1>2, <1>5
  <2>2. inner[n].last_applied <= inner[n].last_applied
    BY <1>5
  <2>. QED
    BY <1>5, <2>1, <2>2, AskedPoolGrows DEF NodeAsked
<1>. QED
  BY <1>6, <1>8, <1>9, AskedNext DEF Same

(* The worker's command is the last that its node has applied.             *)
LEMMA AskedApply ==
  ASSUME TypeOK, NEW n \in Node, NodeAsked(n),
         ApplyStamp(n) \/ ApplyUpdate(n) \/ ApplyDispatch(n)
  PROVE  NodeAsked(n)'
<1> DEFINE h == inner[n].last_applied
<1>1. /\ inner[n] \in Machine /\ h \in Nat /\ h + 1 \in Nat /\ h <= h + 1
      /\ inner[n].shard_routes \in [Module -> Shard \cup {NoRoute}]
      /\ queue[n] \in Seq(Command)
  BY MachineFacts, SMT DEF TypeOK
<1>2. /\ log' = log /\ UNCHANGED <<builder, cached_snapshot, pool>>
  BY DEF ApplyStamp, ApplyUpdate, ApplyDispatch, cluster
<1>3. CASE ApplyStamp(n)
  <2>1. /\ inner'[n].last_applied = h + 1 /\ queue' = queue
        /\ inner'[n].shard_routes = inner[n].shard_routes
        /\ inner'[n].active_shards = inner[n].active_shards
    BY <1>3, SMT DEF ApplyStamp, TypeOK, Machine
  <2>2. AskedMachine(log, inner'[n])
    <3>1. /\ \A cmd : Asked(log, h, cmd) => Asked(log, h + 1, cmd)
          /\ \A r : AskedRoutes(log, h, r) => AskedRoutes(log, h + 1, r)
      BY <1>1, AskedGrows
    <3>2. /\ \A s \in inner[n].active_shards : Asked(log, h, CreateShard(s))
          /\ AskedRoutes(log, h, inner[n].shard_routes)
      BY DEF NodeAsked, AskedMachine
    <3>. QED
      BY <2>1, <3>1, <3>2 DEF AskedMachine
  <2>3. AskedPool(log, h + 1, queue[n], shards[n], routes[n], listener[n])
    BY <1>1, AskedPoolGrows DEF NodeAsked
  <2>. QED
    BY <1>2, <2>1, <2>2, <2>3, AskedNext DEF NodeAsked, pool
<1>4. ASSUME ApplyUpdate(n) \/ ApplyDispatch(n)
      PROVE  Current(n) \in Command /\ Asked(log, h, Current(n))
  <2>1. h \in 1..Len(log) /\ Current(n) \in Command
    BY <1>4, CurrentType DEF ApplyUpdate, ApplyDispatch
  <2>2. h \in 1..h
    BY <1>1, <2>1
  <2>. QED
    BY <2>1, <2>2 DEF Asked, Current
<1>5. CASE ApplyUpdate(n)
  <2> DEFINE cmd == Current(n)
  <2>1. inner'[n] = Updated(inner[n], cmd) /\ queue' = queue
    BY <1>5 DEF ApplyUpdate, TypeOK
  <2>2. cmd \in Command /\ Asked(log, h, cmd)
    BY <1>4, <1>5
  <2> HIDE DEF cmd
  <2>3. /\ inner'[n].last_applied = h
        /\ inner'[n].shard_routes = Rerouted(inner[n].shard_routes, cmd)
        /\ inner'[n].active_shards = IF cmd.tag = "CreateShard"
             THEN inner[n].active_shards \cup {cmd.shard} ELSE inner[n].active_shards
    <3>1. inner[n] \in Machine
      BY <1>1
    <3>. QED
      BY <2>1, <2>2, <3>1, UpdatedFacts, SMT
  <2>4. AskedRoutes(log, h, Rerouted(inner[n].shard_routes, cmd))
    BY <1>1, <2>2, AskedRerouted DEF NodeAsked, AskedMachine
  <2>5. ASSUME NEW s \in inner'[n].active_shards PROVE Asked(log, h, CreateShard(s))
    BY <2>2, <2>3, <2>5, CreateIs DEF NodeAsked, AskedMachine
  <2>6. AskedMachine(log, inner'[n])
    BY <2>3, <2>4, <2>5 DEF AskedMachine
  <2>. QED
    BY <1>2, <2>1, <2>3, <2>6, AskedNext DEF NodeAsked, pool
<1>6. CASE ApplyDispatch(n)
  <2>1. queue'[n] = Append(queue[n], Current(n)) /\ inner' = inner
    BY <1>6 DEF ApplyDispatch, TypeOK
  <2>2. ASSUME NEW k \in DOMAIN queue'[n] PROVE Asked(log, h, queue'[n][k])
    <3>1. Current(n) \in Command /\ Asked(log, h, Current(n))
      BY <1>4, <1>6
    <3>2. \/ k \in DOMAIN queue[n] /\ queue'[n][k] = queue[n][k]
          \/ queue'[n][k] = Current(n)
      BY <1>1, <2>1, <2>2, <3>1, AppendProperties, LenProperties, SMT
    <3>. QED
      BY <3>1, <3>2 DEF NodeAsked, AskedPool
  <2>3. AskedPool(log, h, queue'[n], shards[n], routes[n], listener[n])
    BY <2>2 DEF NodeAsked, AskedPool
  <2>. QED
    BY <1>2, <2>1, <2>3, AskedNext DEF NodeAsked, pool
<1>. QED
  BY <1>3, <1>5, <1>6

(* A snapshot is a machine, and a replay has nothing else than a machine.  *)
LEMMA AskedSnapshots ==
  ASSUME TypeOK, NEW n \in Node, \A k \in Node : NodeAsked(k),
         \/ BuildRead(n) \/ BuildCache(n)
         \/ InstallInner(n) \/ InstallReplay(n) \/ InstallCache(n)
  PROVE  NodeAsked(n)'
<1>1. inner[n] \in Machine /\ log' = log /\ UNCHANGED pool /\ queue[n] \in Seq(Command)
  BY DEF BuildRead, BuildCache, InstallInner, InstallReplay, InstallCache, cluster, TypeOK
<1>2. CASE BuildRead(n) \/ BuildCache(n) \/ InstallCache(n)
  <2>1. inner' = inner /\ queue' = queue
    BY <1>2 DEF BuildRead, BuildCache, InstallCache
  <2>2. /\ builder'[n] \in {inner[n], builder[n], NoSnapshot}
        /\ cached_snapshot'[n] \in {inner[n], builder[n], cached_snapshot[n]}
    BY <1>2 DEF BuildRead, BuildCache, InstallCache, TypeOK
  <2>3. AskedSnapshot(log, builder'[n]) /\ AskedSnapshot(log, cached_snapshot'[n])
    BY <2>2 DEF NodeAsked, AskedSnapshot
  <2>. QED
    BY <1>1, <2>1, <2>3, AskedNext DEF NodeAsked, pool
<1>3. CASE InstallInner(n)
  <2> DEFINE x == cached_snapshot[leader]
             h == inner[n].last_applied
  <2>1. /\ leader \in Node /\ x # NoSnapshot /\ stored[n] < x.last_applied
        /\ inner'[n] = x /\ UNCHANGED <<builder, cached_snapshot, queue>>
    BY <1>3 DEF InstallInner, TypeOK
  <2>2. x \in Machine /\ AskedMachine(log, x)
    BY <2>1 DEF NodeAsked, AskedSnapshot, TypeOK
  <2>3. h \in Nat /\ x.last_applied \in Nat /\ h <= x.last_applied
    <3>1. stored[n] \in Nat /\ h <= stored[n]
      BY ShardConfigAssumption, SMT DEF TypeOK
    <3>2. h \in Nat /\ x.last_applied \in Nat
      BY <1>1, <2>2, MachineFacts
    <3>. QED
      BY <2>1, <3>1, <3>2
  <2>4. AskedPool(log, x.last_applied, queue[n], shards[n], routes[n], listener[n])
    BY <2>3, AskedPoolGrows DEF NodeAsked
  <2>. QED
    BY <1>1, <2>1, <2>2, <2>4, AskedNext DEF NodeAsked, pool
<1>4. CASE InstallReplay(n)
  <2> DEFINE p == Replay(inner[n])
             h == inner[n].last_applied
  <2>1. queue'[n] = queue[n] \o p /\ UNCHANGED <<inner, builder, cached_snapshot>>
    BY <1>4 DEF InstallReplay, TypeOK
  <2>2. p \in Seq(Command)
    BY <1>1, ReplayFacts
  <2>3. ASSUME NEW k \in DOMAIN p PROVE Asked(log, h, p[k])
    <3>1. \/ \E s \in inner[n].active_shards : p[k] = CreateShard(s)
          \/ \E m \in Module : /\ inner[n].shard_routes[m] # NoRoute
                               /\ p[k] = AddRoute(m, inner[n].shard_routes[m])
      BY <1>1, ReplayFacts
    <3>. QED
      BY <3>1 DEF NodeAsked, AskedMachine, AskedRoutes
  <2> HIDE DEF p, h
  <2>4. ASSUME NEW k \in DOMAIN (queue[n] \o p) PROVE Asked(log, h, (queue[n] \o p)[k])
    <3>1. \/ k \in DOMAIN queue[n] /\ (queue[n] \o p)[k] = queue[n][k]
          \/ k - Len(queue[n]) \in DOMAIN p /\ (queue[n] \o p)[k] = p[k - Len(queue[n])]
      BY <1>1, <2>2, ConcatFacts, SMT
    <3>. QED
      BY <2>3, <3>1 DEF NodeAsked, AskedPool, h
  <2>5. AskedPool(log, h, queue'[n], shards[n], routes[n], listener[n])
    BY <2>1, <2>4 DEF NodeAsked, AskedPool, h
  <2>. QED
    BY <1>1, <2>1, <2>5, AskedNext DEF NodeAsked, pool, h
<1>. QED
  BY <1>2, <1>3, <1>4

(* The listener does what it takes from the channel.                       *)
LEMMA AskedListener ==
  ASSUME TypeOK, NEW n \in Node, NodeAsked(n),
         \/ HandleCreateShard(n) \/ HandleRoute(n) \/ CreateOk(n) \/ CreateErr(n)
         \/ CheckLeader(n) \/ Initialize(n) \/ InitializeErr(n)
  PROVE  NodeAsked(n)'
<1> DEFINE h == inner[n].last_applied
<1>1. log' = log /\ UNCHANGED <<inner, builder, cached_snapshot>>
  BY DEF HandleCreateShard, HandleRoute, ListenerTakes, CreateOk, CreateErr, CheckLeader,
         Initialize, InitializeErr, cluster, machine
<1>2. /\ \A k \in DOMAIN queue[n] : Asked(log, h, queue[n][k])
      /\ shards[n] \subseteq Made(log, h) /\ listener[n].shard \in Made(log, h)
      /\ 0 \in Made(log, h) /\ AskedRoutes(log, h, routes[n])
  BY DEF NodeAsked, AskedPool, Made
<1>3. ASSUME NEW tag, ListenerTakes(n, tag)
      PROVE  /\ Head(queue[n]) \in Command /\ Asked(log, h, Head(queue[n]))
             /\ \A k \in DOMAIN queue'[n] : Asked(log, h, queue'[n][k])
  <2>1. queue[n] # <<>> /\ queue'[n] = Tail(queue[n]) /\ queue[n] \in Seq(Command)
    BY <1>3 DEF ListenerTakes, TypeOK
  <2>2. /\ Head(queue[n]) \in Command /\ 1 \in DOMAIN queue[n] /\ Head(queue[n]) = queue[n][1]
        /\ \A k \in DOMAIN Tail(queue[n]) :
             k + 1 \in DOMAIN queue[n] /\ Tail(queue[n])[k] = queue[n][k + 1]
    BY <2>1, HeadTailProperties, LenProperties, EmptySeq, SMT
  <2>. QED
    BY <1>2, <2>1, <2>2
<1>4. CASE HandleCreateShard(n)
  <2> DEFINE cmd == Head(queue[n])
  <2>1. /\ ListenerTakes(n, "CreateShard") /\ cmd.tag = "CreateShard"
        /\ shards' = shards /\ routes' = routes
        /\ listener'[n].shard \in {0, cmd.shard}
    BY <1>4 DEF HandleCreateShard, ListenerTakes, TypeOK, Idle
  <2>2. cmd \in Command /\ Asked(log, h, cmd) /\ \A k \in DOMAIN queue'[n] : Asked(log, h, queue'[n][k])
    BY <1>3, <2>1
  <2>3. cmd.shard \in Made(log, h)
    <3>1. cmd = CreateShard(cmd.shard) /\ cmd.shard \in Shard
      BY <2>1, <2>2, CreateIs, CommandFacts
    <3>. QED
      BY <2>2, <3>1 DEF Asked, Made
  <2>4. AskedPool(log, h, queue'[n], shards[n], routes[n], listener'[n])
    BY <1>2, <2>1, <2>2, <2>3 DEF AskedPool
  <2>. QED
    BY <1>1, <2>1, <2>4, AskedNext DEF NodeAsked
<1>5. CASE HandleRoute(n)
  <2> DEFINE cmd == Head(queue[n])
  <2>1. /\ \E tag \in {"AddRoute", "RemoveRoute"} : ListenerTakes(n, tag)
        /\ shards' = shards /\ listener' = listener
        /\ routes'[n] = Rerouted(routes[n], cmd) /\ routes[n] \in [Module -> Shard \cup {NoRoute}]
    BY <1>5 DEF HandleRoute, TypeOK
  <2>2. cmd \in Command /\ Asked(log, h, cmd) /\ \A k \in DOMAIN queue'[n] : Asked(log, h, queue'[n][k])
    BY <1>3, <2>1
  <2>3. AskedRoutes(log, h, routes'[n])
    BY <1>2, <2>1, <2>2, AskedRerouted
  <2>4. AskedPool(log, h, queue'[n], shards[n], routes'[n], listener[n])
    BY <1>2, <2>2, <2>3 DEF AskedPool
  <2>. QED
    BY <1>1, <2>1, <2>4, AskedNext DEF NodeAsked
<1>6. CASE CreateOk(n) \/ CreateErr(n) \/ CheckLeader(n) \/ Initialize(n) \/ InitializeErr(n)
  <2>1. queue' = queue /\ routes' = routes
    BY <1>6 DEF CreateOk, CreateErr, CheckLeader, Initialize, InitializeErr
  <2>2. /\ shards'[n] \subseteq shards[n] \cup {listener[n].shard}
        /\ listener'[n].shard \in {0, listener[n].shard}
    BY <1>6, SMT DEF CreateOk, CreateErr, CheckLeader, Initialize, InitializeErr, TypeOK, Idle
  <2>3. AskedPool(log, h, queue[n], shards'[n], routes[n], listener'[n])
    BY <1>2, <2>2 DEF AskedPool
  <2>. QED
    BY <1>1, <2>1, <2>3, AskedNext DEF NodeAsked
<1>. QED
  BY <1>4, <1>5, <1>6

(* A node that has nothing, at first or after a restart.                   *)
LEMMA AskedNothing ==
  ASSUME NEW lg
  PROVE  /\ AskedMachine(lg, New) /\ AskedSnapshot(lg, NoSnapshot)
         /\ AskedPool(lg, New.last_applied, <<>>, {0}, NoRoutes, Idle)
<1>1. AskedRoutes(lg, 0, NoRoutes)
  BY DEF AskedRoutes, NoRoutes
<1>2. DOMAIN <<>> = {} /\ Idle.shard = 0 /\ New.last_applied = 0
      /\ New.active_shards = {} /\ New.shard_routes = NoRoutes
  BY EmptySeq DEF Idle, New
<1>. QED
  BY <1>1, <1>2 DEF AskedMachine, AskedSnapshot, AskedPool, Made

LEMMA AskedStep == TypeOK /\ AskedInv /\ [Next]_vars => AskedInv'
<1> SUFFICES ASSUME TypeOK, AskedInv, [Next]_vars PROVE AskedInv'
  OBVIOUS
<1>0. \A k \in Node : NodeAsked(k)
  BY DEF AskedInv
<1>1. ASSUME NEW cmd \in Command, client_write(cmd), NEW k \in Node PROVE Onward /\ Same(k)
  BY <1>1, KeepOnward DEF client_write, machine, pool, Same
<1>2. ASSUME NEW n \in Node, Replicate(n) \/ Elect(n) \/ Purge(n), NEW k \in Node
      PROVE  Onward /\ Same(k)
  <2>1. Onward
    BY <1>2, SpendOnward, KeepOnward DEF Replicate, Elect, Purge, Onward, Kind, cluster
  <2>2. Same(k)
    BY <1>2 DEF Replicate, Elect, Purge, machine, pool, Same
  <2>. QED
    BY <2>1, <2>2
<1>3. ASSUME UNCHANGED vars, NEW k \in Node PROVE Onward /\ Same(k)
  BY <1>3, KeepOnward DEF vars, cluster, machine, pool, Same
<1>4. CreateShardCommand \/ AddRouteCommand \/ RemoveRouteCommand =>
        \E cmd \in Command : client_write(cmd)
  BY ApiCommands
  DEF CreateShardCommand, AddRouteCommand, RemoveRouteCommand,
      shard_create, shard_add_route, shard_remove_route
<1>5. ASSUME NEW n \in Node, NEW k \in Node,
             Progress(n) \/ Elect(n) \/ Purge(n) \/ BuildRead(n) \/ BuildCache(n)
               \/ CreateErr(n) \/ InitializeErr(n) \/ Restart(n)
      PROVE  NodeAsked(k)'
  <2>1. CASE Replicate(n) \/ Elect(n) \/ Purge(n)
    BY <1>0, <1>2, <2>1, AskedSame
  <2>2. CASE ~ (Replicate(n) \/ Elect(n) \/ Purge(n)) /\ k # n
    <3>1. Onward /\ Same(k)
      BY <1>5, <2>2, StepOfOne DEF Progress
    <3>. QED
      BY <1>0, <3>1, AskedSame
  <2>3. CASE Restart(n) /\ k = n
    <3>1. /\ inner'[n] = New /\ queue'[n] = <<>>
          /\ shards'[n] = {0} /\ routes'[n] = NoRoutes /\ listener'[n] = Idle
          /\ builder'[n] = NoSnapshot /\ cached_snapshot'[n] = NoSnapshot
      BY <2>3 DEF Restart, TypeOK
    <3>. QED
      BY <2>3, <3>1, AskedNothing, AskedNext
  <2>4. CASE ~ (Replicate(n) \/ Elect(n) \/ Purge(n) \/ Restart(n)) /\ k = n
    BY <1>0, <1>5, <2>4, AskedApply, AskedSnapshots, AskedListener DEF Progress
  <2>. QED
    BY <2>1, <2>2, <2>3, <2>4
<1>6. ASSUME NEW k \in Node PROVE NodeAsked(k)'
  BY <1>0, <1>1, <1>3, <1>4, <1>5, <1>6, AskedSame DEF Next
<1>7. Made(log, Len(log)) \subseteq Made(log', Len(log'))
  <2>1. log' = log \/ \E cmd \in Command : log' = Append(log, cmd)
    <3>1. ASSUME NEW n \in Node,
                 Progress(n) \/ Elect(n) \/ Purge(n) \/ BuildRead(n) \/ BuildCache(n)
                   \/ CreateErr(n) \/ InitializeErr(n) \/ Restart(n)
          PROVE  log' = log
      BY <3>1 DEF Progress, Replicate, ApplyStamp, ApplyUpdate, ApplyDispatch, InstallInner,
           InstallReplay, InstallCache, HandleCreateShard, HandleRoute, ListenerTakes, CreateOk,
           CheckLeader, Initialize, Elect, Purge, BuildRead, BuildCache, CreateErr,
           InitializeErr, Restart, cluster
    <3>2. \A cmd \in Command : client_write(cmd) => log' = Append(log, cmd)
      BY DEF client_write
    <3>3. UNCHANGED vars => log' = log
      BY DEF vars, cluster
    <3>. QED
      BY <1>4, <3>1, <3>2, <3>3 DEF Next
  <2>2. CASE log' = log
    BY <2>2
  <2>3. ASSUME NEW cmd \in Command, log' = Append(log, cmd)
        PROVE  Made(log, Len(log)) \subseteq Made(log', Len(log'))
    <3>1. /\ log \in Seq(Command) /\ Len(log) \in Nat /\ Len(log') = Len(log) + 1
          /\ \A j \in 1..Len(log) : log'[j] = log[j]
      BY <2>3, LenProperties, AppendProperties, SMT DEF TypeOK
    <3>2. Len(log') \in Nat /\ Len(log) <= Len(log')
      BY <3>1
    <3>. QED
      BY <3>1, <3>2, AskedGrows
  <2>. QED
    BY <2>1, <2>2, <2>3
<1>8. initialized' \subseteq Made(log, Len(log))
  <2>1. initialized' = initialized \/ \E n \in Node : Initialize(n)
    <3>1. ASSUME NEW n \in Node,
                 Progress(n) \/ Elect(n) \/ Purge(n) \/ BuildRead(n) \/ BuildCache(n)
                   \/ CreateErr(n) \/ InitializeErr(n) \/ Restart(n)
          PROVE  initialized' = initialized \/ Initialize(n)
      BY <3>1 DEF Progress, Replicate, ApplyStamp, ApplyUpdate, ApplyDispatch, InstallInner,
           InstallReplay, InstallCache, HandleCreateShard, HandleRoute, ListenerTakes, CreateOk,
           CheckLeader, Elect, Purge, BuildRead, BuildCache, CreateErr,
           InitializeErr, Restart, cluster
    <3>2. \A cmd \in Command : client_write(cmd) => initialized' = initialized
      BY DEF client_write
    <3>3. UNCHANGED vars => initialized' = initialized
      BY DEF vars, cluster
    <3>. QED
      BY <1>4, <3>1, <3>2, <3>3 DEF Next
  <2>2. ASSUME NEW n \in Node, Initialize(n) PROVE listener[n].shard \in Made(log, Len(log))
    <3> DEFINE h == inner[n].last_applied
    <3>1. h \in Nat /\ Len(log) \in Nat /\ h <= Len(log)
      <4>1. h \in Nat
        BY MachineFacts DEF TypeOK
      <4>2. stored[n] \in Nat /\ h <= stored[n] /\ stored[n] <= Len(log)
        BY ShardConfigAssumption, SMT DEF TypeOK
      <4>3. Len(log) \in Nat
        BY AppliedFacts
      <4>. QED
        BY <4>1, <4>2, <4>3
    <3>2. listener[n].shard \in Made(log, h)
      BY <1>0 DEF NodeAsked, AskedPool
    <3>. QED
      BY <3>1, <3>2, AskedGrows
  <2>. QED
    BY <2>1, <2>2 DEF AskedInv, Initialize
<1>9. Made(log, Len(log))' = Made(log', Len(log'))
  BY DEF Made
<1>. QED
  BY <1>6, <1>7, <1>8, <1>9 DEF AskedInv

(* Whatever shard or route a node has, through snapshots, restarts,        *)
(* elections and failures, a command of the log that it has applied asked  *)
(* for it: neither the replay of install_snapshot nor the listener adds    *)
(* anything, and a shard is initialized only once its creation is          *)
(* committed.                                                              *)
THEOREM NothingIsInvented == Spec => []NothingInvented
<1>1. Init => AskedInv
  <2> SUFFICES ASSUME Init PROVE AskedInv
    OBVIOUS
  <2>1. ASSUME NEW n \in Node PROVE NodeAsked(n)
    BY AskedNothing DEF Init, NodeAsked
  <2>. QED
    BY <2>1 DEF Init, AskedInv, Made
<1>2. AskedInv => NothingInvented
  <2> SUFFICES ASSUME AskedInv PROVE NothingInvented
    OBVIOUS
  <2>1. ASSUME NEW n \in Node
        PROVE  /\ Held(shards[n], listener[n]) \subseteq Made(log, inner[n].last_applied)
               /\ AskedRoutes(log, inner[n].last_applied, routes[n])
    BY DEF AskedInv, NodeAsked, AskedPool, Held
  <2>. QED
    BY <2>1 DEF AskedInv, NothingInvented, AskedRoutes, Asked
<1>. QED
  BY <1>1, <1>2, AskedStep, ConfigTypeCorrect, PTL DEF Spec
=============================================================================
