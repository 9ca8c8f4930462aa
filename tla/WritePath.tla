------------------------------ MODULE WritePath ------------------------------
(***************************************************************************)
(* The path of client messages through one Raft group (one shard): the     *)
(* WebSocket handler of each connection, the proposal to the group's       *)
(* leader, the state machine's apply loop, the forwarder task, and the     *)
(* SpacetimeDB instance beside every proxy.                                *)
(*                                                                         *)
(* openraft is external.  It is represented by what the code relies on:    *)
(* one totally ordered sequence `log' of committed entries that only       *)
(* grows, of which every node applies a prefix; a proposal accepted by a   *)
(* node that takes itself for the leader may be committed at any later     *)
(* time, or never; client_write returns Ok only after the accepting node   *)
(* has applied the entry.                                                  *)
(*                                                                         *)
(* A node executes a committed write on its SpacetimeDB by one of two      *)
(* routes: the handler of the connection the write came from, on the       *)
(* origin node, and the forwarder task everywhere else.                    *)
(***************************************************************************)
EXTENDS Integers, Sequences, FiniteSets

CONSTANTS
  Node,       \* proxy nodes, each with its own SpacetimeDB instance
  Conn,       \* client WebSocket connections
  Msg,        \* client messages
  Database,   \* request paths: the SpacetimeDB database a connection is for
  Home,       \* Home[c]: the node that connection c is made to
  Path,       \* Path[c]: the request path of connection c
  From,       \* From[m]: the connection that message m is sent on
  Tag,        \* Tag[m]: first byte of m, or NoTag for a text, control or empty message
  NoTag,
  NoPath,     \* the initial, empty database path
  MaxFaults   \* bound on failed sends, failed calls, shutdowns and restarts

ASSUME WritePathAssumption ==
  /\ Home \in [Conn -> Node]
  /\ Path \in [Conn -> Database]
  /\ From \in [Msg -> Conn]
  /\ NoTag \notin 0..255
  /\ Tag \in [Msg -> 0..255 \cup {NoTag}]
  /\ NoPath \notin Database
  /\ MaxFaults \in Nat

VARIABLES
  log,      \* committed entries of the Raft group (external)
  pending,  \* entries accepted by some leader and not committed (external)
  http,     \* forwarded writes on their way to the /write endpoint of node e.by
  applied,  \* applied[n]: index of the last entry applied by n's state machine
  chan,     \* chan[n]: the unbounded channel from the state machine to the forwarder
  fwd,      \* fwd[n]: where n's forwarder task is
  fwdDb,    \* fwdDb[n]: the database path n's forwarder connects to
  dbPath,   \* dbPath[n]: the watch channel of database paths seen by n's handlers
  pc,       \* pc[c]: where the handler of connection c is
  at,       \* at[c]: the node whose client_write the handler of c waits for
  sent,     \* sent[c]: messages the handler of c has read, oldest first
  down,     \* down[n]: the shutdown signal of n has been sent
  exec,     \* exec[n]: messages that n's SpacetimeDB instance received (external)
  boot,     \* boot[n]: Len(exec[n]) when n's process last started (history)
  faults    \* number of faults so far

raftVars == <<log, pending>>
nodeVars == <<applied, chan, fwd, fwdDb, dbPath, down>>
connVars == <<pc, at, sent, http>>
histVars == <<exec, boot, faults>>
vars == <<log, pending, http, applied, chan, fwd, fwdDb, dbPath, pc, at, sent,
          down, exec, boot, faults>>

-----------------------------------------------------------------------------
CALL_REDUCER == 3
CALL_PROCEDURE == 4

is_write_tag(tag) == tag \in {CALL_REDUCER, CALL_PROCEDURE}

(* A tag outside 0..4 is forwarded like a read.                            *)
classify_message(m) ==
  CASE Tag[m] = NoTag -> "PassThrough"
    [] is_write_tag(Tag[m]) -> "Write"
    [] OTHER -> "Read"

Writes == {m \in Msg : classify_message(m) = "Write"}

(* ReducerCallRequest, the raw message and the node its client is on,      *)
(* together with the node asked to accept it (part of an entry's log id).  *)
Entry == [msg : Writes, origin : Node, by : Node]

Cur(c) == sent[c][Len(sent[c])]

Request(c, l) == [msg |-> Cur(c), origin |-> Home[c], by |-> l]

Committed(e) == \E i \in 1..Len(log) : log[i] = e

AppliedAt(n, e) == \E i \in 1..applied[n] : log[i] = e

(* m reaches database d of n's SpacetimeDB, through the client's own       *)
(* connection or through the forwarder; for a write, by identifies the     *)
(* log entry that carried it.                                              *)
Execute(n, m, by, d, via) ==
  exec' = [exec EXCEPT ![n] =
             Append(@, [msg |-> m, by |-> by, db |-> d, via |-> via])]

Goto(c, label) == pc' = [pc EXCEPT ![c] = label]

Fault == faults < MaxFaults /\ faults' = faults + 1

NoFault == UNCHANGED faults

Listening(n) == fwd[n] # "unset"

Init ==
  /\ log = <<>>
  /\ pending = {}
  /\ http = {}
  /\ applied = [n \in Node |-> 0]
  /\ chan = [n \in Node |-> <<>>]
  /\ fwd = [n \in Node |-> "waiting"]
  /\ fwdDb = [n \in Node |-> NoPath]
  /\ dbPath = [n \in Node |-> NoPath]
  /\ pc = [c \in Conn |-> "new"]
  /\ at = [c \in Conn |-> Home[c]]
  /\ sent = [c \in Conn |-> <<>>]
  /\ down = [n \in Node |-> FALSE]
  /\ exec = [n \in Node |-> <<>>]
  /\ boot = [n \in Node |-> 0]
  /\ faults = 0

-----------------------------------------------------------------------------
(* The handler of a connection.                                            *)

(* Proxy::run accepts the TCP connection and spawns the handler.           *)
Accept(c) ==
  /\ pc[c] = "new"
  /\ Listening(Home[c])
  /\ ~down[Home[c]]
  /\ Goto(c, "handshake")
  /\ UNCHANGED <<raftVars, nodeVars, histVars, at, sent, http>>

(* The handshake yields the path; the path is broadcast to the forwarder   *)
(* before the upstream connection is tried.                                *)
Handshake(c) ==
  /\ pc[c] = "handshake"
  /\ dbPath' = [dbPath EXCEPT ![Home[c]] = Path[c]]
  /\ Goto(c, "upstream")
  /\ UNCHANGED <<raftVars, histVars, at, sent, http, applied, chan, fwd, fwdDb, down>>

ConnectUpstream(c) ==
  /\ pc[c] = "upstream"
  /\ Goto(c, "read")
  /\ UNCHANGED <<raftVars, nodeVars, histVars, at, sent, http>>

ConnectUpstreamFails(c) ==
  /\ pc[c] = "upstream"
  /\ Fault
  /\ Goto(c, "closed")
  /\ UNCHANGED <<raftVars, nodeVars, at, sent, http, exec, boot>>

(* The client goes away: the handshake fails, or client_rx.next() is None  *)
(* or an error and the inbound task ends.                                  *)
ClientGone(c) ==
  /\ pc[c] \in {"handshake", "read"}
  /\ Goto(c, "closed")
  /\ UNCHANGED <<raftVars, nodeVars, histVars, at, sent, http>>

ReadMessage(c, m) ==
  /\ pc[c] = "read"
  /\ From[m] = c
  /\ \A i \in 1..Len(sent[c]) : sent[c][i] # m
  /\ sent' = [sent EXCEPT ![c] = Append(@, m)]

(* Faulty variant: every message goes through Raft.                        *)
ReadWriteUnclassified(c, m) ==
  /\ ReadMessage(c, m)
  /\ Goto(c, "propose")
  /\ UNCHANGED <<raftVars, nodeVars, histVars, at, http>>

(* A write is proposed before anything is sent upstream.                   *)
ReadWrite(c, m) ==
  /\ ReadMessage(c, m)
  /\ classify_message(m) = "Write"
  /\ Goto(c, "propose")
  /\ UNCHANGED <<raftVars, nodeVars, histVars, at, http>>

(* Reads and pass-through messages go straight to SpacetimeDB.             *)
ReadOther(c, m) ==
  /\ ReadMessage(c, m)
  /\ classify_message(m) # "Write"
  /\ Execute(Home[c], m, Home[c], Path[c], "client")
  /\ NoFault
  /\ UNCHANGED <<raftVars, nodeVars, pc, at, http, boot>>

ReadOtherFails(c, m) ==
  /\ ReadMessage(c, m)
  /\ classify_message(m) # "Write"
  /\ Fault
  /\ Goto(c, "closed")
  /\ UNCHANGED <<raftVars, nodeVars, at, http, exec, boot>>

-----------------------------------------------------------------------------
(* RaftPool::propose_write, called by the handler, and the leader's        *)
(* /cluster/{shard}/write endpoint.                                        *)

(* This node takes itself for the leader: client_write accepts the entry.  *)
ProposeLocal(c) ==
  /\ pc[c] = "propose"
  /\ pending' = pending \cup {Request(c, Home[c])}
  /\ at' = [at EXCEPT ![c] = Home[c]]
  /\ Goto(c, "local")
  /\ UNCHANGED <<log, nodeVars, histVars, sent, http>>

(* ForwardToLeader names node l, rightly or not: one HTTP POST, with the   *)
(* origin preserved.                                                       *)
PostToLeader(c, l) ==
  /\ l # Home[c]
  /\ http' = http \cup {Request(c, l)}
  /\ at' = [at EXCEPT ![c] = l]
  /\ Goto(c, "http")

ProposeForward(c, l) ==
  /\ pc[c] = "propose"
  /\ PostToLeader(c, l)
  /\ UNCHANGED <<raftVars, nodeVars, histVars, sent>>

(* client_write also answers ForwardToLeader for an entry it had accepted, *)
(* when leadership is lost before the entry commits; the entry may survive *)
(* on another node and commit later.                                       *)
Redirect(c, l) ==
  /\ pc[c] = "local"
  /\ ~Committed(Request(c, Home[c]))
  /\ Fault
  /\ PostToLeader(c, l)
  /\ UNCHANGED <<raftVars, nodeVars, exec, boot, sent>>

(* No leader known: Err, and the handler drops the message (`continue').   *)
ProposeRefused(c) ==
  /\ pc[c] = "propose"
  /\ Goto(c, "read")
  /\ UNCHANGED <<raftVars, nodeVars, histVars, at, sent, http>>

(* cluster_shard_write on a node that takes itself for the leader.         *)
HttpAccept(e) ==
  /\ e \in http
  /\ Listening(e.by)
  /\ http' = http \ {e}
  /\ pending' = pending \cup {e}
  /\ UNCHANGED <<log, nodeVars, histVars, pc, at, sent>>

(* cluster_shard_write answers 500 on a node that is not the leader (it    *)
(* does not forward again), or the node cannot be reached.                 *)
HttpReject(e) ==
  /\ e \in http
  /\ http' = http \ {e}
  /\ LET c == From[e.msg] IN
     pc' = IF pc[c] = "http" /\ Cur(c) = e.msg
           THEN [pc EXCEPT ![c] = "read"] ELSE pc
  /\ UNCHANGED <<raftVars, nodeVars, histVars, at, sent>>

(* client_write, here or on the leader, returns Ok.                        *)
CallOk(c) ==
  /\ pc[c] \in {"local", "http"}
  /\ AppliedAt(at[c], Request(c, at[c]))
  /\ Goto(c, "send")
  /\ UNCHANGED <<raftVars, nodeVars, histVars, at, sent, http>>

(* Faulty variant: the error is logged and the message forwarded anyway.   *)
CallErrForwards(c) ==
  /\ pc[c] \in {"local", "http"}
  /\ Fault
  /\ Goto(c, "send")
  /\ UNCHANGED <<raftVars, nodeVars, at, sent, http, exec, boot>>

(* Lost leadership, lost response, error status: the outcome of the write  *)
(* is unknown, the handler drops the message (`continue').                 *)
CallErr(c) ==
  /\ pc[c] \in {"local", "http"}
  /\ Fault
  /\ Goto(c, "read")
  /\ UNCHANGED <<raftVars, nodeVars, at, sent, http, exec, boot>>

ForwardUpstream(c) ==
  /\ pc[c] = "send"
  /\ Execute(Home[c], Cur(c), at[c], Path[c], "client")
  /\ Goto(c, "read")
  /\ NoFault
  /\ UNCHANGED <<raftVars, nodeVars, at, sent, http, boot>>

ForwardUpstreamFails(c) ==
  /\ pc[c] = "send"
  /\ Fault
  /\ Goto(c, "closed")
  /\ UNCHANGED <<raftVars, nodeVars, at, sent, http, exec, boot>>

-----------------------------------------------------------------------------
(* The Raft group (external) and the state machine.                        *)

Commit(e) ==
  /\ e \in pending
  /\ pending' = pending \ {e}
  /\ log' = Append(log, e)
  /\ UNCHANGED <<nodeVars, connVars, histVars>>

(* Faulty variant: nothing is queued before the forwarder is connected.    *)
ApplyIfConnected(n) ==
  /\ applied[n] < Len(log)
  /\ applied' = [applied EXCEPT ![n] = @ + 1]
  /\ chan' = IF fwd[n] # "connected" THEN chan
             ELSE [chan EXCEPT ![n] = Append(@, log[applied[n] + 1])]
  /\ UNCHANGED <<raftVars, connVars, histVars, fwd, fwdDb, dbPath, down>>

(* StateMachineStore::apply for one Normal entry that is a client write:   *)
(* every such entry goes to the forwarder, if one is set and alive.        *)
Apply(n) ==
  /\ applied[n] < Len(log)
  /\ applied' = [applied EXCEPT ![n] = @ + 1]
  /\ chan' = IF fwd[n] \in {"unset", "stopped"} THEN chan
             ELSE [chan EXCEPT ![n] = Append(@, log[applied[n] + 1])]
  /\ UNCHANGED <<raftVars, connVars, histVars, fwd, fwdDb, dbPath, down>>

-----------------------------------------------------------------------------
(* The forwarder task of a node (RaftPool::spawn_forwarder).               *)

(* The path is read once; later paths are ignored.                         *)
FwdLearnPath(n) ==
  /\ fwd[n] = "waiting"
  /\ dbPath[n] # NoPath
  /\ fwd' = [fwd EXCEPT ![n] = "connecting"]
  /\ fwdDb' = [fwdDb EXCEPT ![n] = dbPath[n]]
  /\ UNCHANGED <<raftVars, connVars, histVars, applied, chan, dbPath, down>>

(* A failed connect is retried after one second: a stuttering step.        *)
FwdConnect(n) ==
  /\ fwd[n] = "connecting"
  /\ fwd' = [fwd EXCEPT ![n] = "connected"]
  /\ UNCHANGED <<raftVars, connVars, histVars, applied, chan, fwdDb, dbPath, down>>

FwdRecv(n) ==
  /\ fwd[n] = "connected"
  /\ chan[n] # <<>>
  /\ chan' = [chan EXCEPT ![n] = Tail(@)]

(* Faulty variant: the task returns where it should continue.              *)
FwdSkipReturns(n) ==
  /\ FwdRecv(n)
  /\ Head(chan[n]).origin = n
  /\ fwd' = [fwd EXCEPT ![n] = "stopped"]
  /\ UNCHANGED <<raftVars, connVars, histVars, applied, fwdDb, dbPath, down>>

(* The handler already forwarded this node's own writes.                   *)
FwdSkip(n) ==
  /\ FwdRecv(n)
  /\ Head(chan[n]).origin = n
  /\ UNCHANGED <<raftVars, connVars, histVars, applied, fwd, fwdDb, dbPath, down>>

(* Faulty variant: no origin_node_id test.                                 *)
FwdSendAny(n) ==
  /\ FwdRecv(n)
  /\ Execute(n, Head(chan[n]).msg, Head(chan[n]).by, fwdDb[n], "forwarder")
  /\ NoFault
  /\ UNCHANGED <<raftVars, connVars, boot, applied, fwd, fwdDb, dbPath, down>>

FwdSend(n) ==
  /\ FwdRecv(n)
  /\ Head(chan[n]).origin # n
  /\ Execute(n, Head(chan[n]).msg, Head(chan[n]).by, fwdDb[n], "forwarder")
  /\ NoFault
  /\ UNCHANGED <<raftVars, connVars, boot, applied, fwd, fwdDb, dbPath, down>>

(* Faulty variant: the message is queued again, behind later ones.         *)
FwdSendFailsRequeues(n) ==
  /\ fwd[n] = "connected"
  /\ chan[n] # <<>>
  /\ Head(chan[n]).origin # n
  /\ chan' = [chan EXCEPT ![n] = Append(Tail(@), Head(@))]
  /\ Fault
  /\ fwd' = [fwd EXCEPT ![n] = "connecting"]
  /\ UNCHANGED <<raftVars, connVars, exec, boot, applied, fwdDb, dbPath, down>>

(* The received message is not put back before reconnecting.               *)
FwdSendFails(n) ==
  /\ FwdRecv(n)
  /\ Head(chan[n]).origin # n
  /\ Fault
  /\ fwd' = [fwd EXCEPT ![n] = "connecting"]
  /\ UNCHANGED <<raftVars, connVars, exec, boot, applied, fwdDb, dbPath, down>>

(* The shutdown signal ends the task; the channel's receiver is dropped.   *)
FwdStop(n) ==
  /\ down[n]
  /\ fwd[n] \in {"waiting", "connecting", "connected"}
  /\ fwd' = [fwd EXCEPT ![n] = "stopped"]
  /\ chan' = [chan EXCEPT ![n] = <<>>]
  /\ UNCHANGED <<raftVars, connVars, histVars, applied, fwdDb, dbPath, down>>

-----------------------------------------------------------------------------
(* Process life cycle.                                                     *)

(* main sends the shutdown signal; Raft and the open connections' inbound  *)
(* tasks keep running until the process exits.                             *)
Shutdown(n) ==
  /\ ~down[n]
  /\ Listening(n)
  /\ Fault
  /\ down' = [down EXCEPT ![n] = TRUE]
  /\ UNCHANGED <<raftVars, connVars, exec, boot, applied, chan, fwd, fwdDb, dbPath>>

(* n's process ends, gracefully or not, and starts again.  The state       *)
(* machine (StateMachineStore::new), the channel, the tasks and the        *)
(* connections are in memory only; the log and SpacetimeDB are not.        *)
Restart(n) ==
  /\ Fault
  /\ applied' = [applied EXCEPT ![n] = 0]
  /\ chan' = [chan EXCEPT ![n] = <<>>]
  /\ fwd' = [fwd EXCEPT ![n] = "unset"]
  /\ fwdDb' = [fwdDb EXCEPT ![n] = NoPath]
  /\ dbPath' = [dbPath EXCEPT ![n] = NoPath]
  /\ down' = [down EXCEPT ![n] = FALSE]
  /\ boot' = [boot EXCEPT ![n] = Len(exec[n])]
  /\ http' = {e \in http : e.by # n}
  /\ pc' = [c \in Conn |->
              IF Home[c] = n THEN IF pc[c] = "new" THEN "new" ELSE "closed"
              ELSE IF pc[c] = "http" /\ at[c] = n THEN "read"
              ELSE pc[c]]
  /\ UNCHANGED <<raftVars, at, sent, exec>>

(* RaftPool::new hands the forwarder to the state machine after Raft::new  *)
(* has started: entries applied in between are not forwarded.              *)
SetForwarder(n) ==
  /\ fwd[n] = "unset"
  /\ fwd' = [fwd EXCEPT ![n] = "waiting"]
  /\ UNCHANGED <<raftVars, connVars, histVars, applied, chan, fwdDb, dbPath, down>>

-----------------------------------------------------------------------------
HandlerStep(c) ==
  \/ Accept(c) \/ Handshake(c) \/ ConnectUpstream(c) \/ ConnectUpstreamFails(c)
  \/ ClientGone(c)
  \/ \E m \in Msg : ReadWrite(c, m) \/ ReadOther(c, m) \/ ReadOtherFails(c, m)
  \/ ProposeLocal(c) \/ ProposeRefused(c)
  \/ \E l \in Node : ProposeForward(c, l) \/ Redirect(c, l)
  \/ CallOk(c) \/ CallErr(c)
  \/ ForwardUpstream(c) \/ ForwardUpstreamFails(c)

NodeStep(n) ==
  \/ Apply(n)
  \/ FwdLearnPath(n) \/ FwdConnect(n) \/ FwdSkip(n) \/ FwdSend(n)
  \/ FwdSendFails(n) \/ FwdStop(n)
  \/ Shutdown(n) \/ Restart(n) \/ SetForwarder(n)

Next ==
  \/ \E c \in Conn : HandlerStep(c)
  \/ \E e \in http : HttpAccept(e) \/ HttpReject(e)
  \/ \E e \in pending : Commit(e)
  \/ \E n \in Node : NodeStep(n)

Spec == Init /\ [][Next]_vars

(* A running node's apply loop and forwarder task are scheduled, and its   *)
(* SpacetimeDB accepts one of the forwarder's connection attempts.         *)
NodeFairness(n) ==
  /\ WF_vars(Apply(n))
  /\ WF_vars(SetForwarder(n))
  /\ WF_vars(FwdLearnPath(n))
  /\ WF_vars(FwdConnect(n))
  /\ WF_vars(FwdSkip(n) \/ FwdSend(n))

(* A handler whose call has returned Ok goes on to forward the message.    *)
HandlerFairness(c) ==
  /\ WF_vars(CallOk(c))
  /\ WF_vars(ForwardUpstream(c))

FairSpec ==
  /\ Spec
  /\ \A n \in Node : NodeFairness(n)
  /\ \A c \in Conn : HandlerFairness(c)

-----------------------------------------------------------------------------
(* Properties.                                                             *)

ForwarderState == {"unset", "waiting", "connecting", "connected", "stopped"}

HandlerState == {"new", "handshake", "upstream", "read", "propose", "local",
                 "http", "send", "closed"}

Execution == [msg : Msg, by : Node, db : Database \cup {NoPath},
              via : {"client", "forwarder"}]

(* Every variable keeps its type; in particular only messages that         *)
(* classify_message takes for writes are ever proposed.                    *)
TypeOK ==
  /\ log \in Seq(Entry)
  /\ pending \subseteq Entry
  /\ http \subseteq Entry
  /\ applied \in [Node -> Nat]
  /\ chan \in [Node -> Seq(Entry)]
  /\ fwd \in [Node -> ForwarderState]
  /\ fwdDb \in [Node -> Database \cup {NoPath}]
  /\ dbPath \in [Node -> Database \cup {NoPath}]
  /\ pc \in [Conn -> HandlerState]
  /\ at \in [Conn -> Node]
  /\ sent \in [Conn -> Seq(Msg)]
  /\ down \in [Node -> BOOLEAN]
  /\ exec \in [Node -> Seq(Execution)]
  /\ boot \in [Node -> Nat]
  /\ faults \in Nat

(* The executed message x was carried by the log entry e.                  *)
CarriedBy(x, e) == x.msg = e.msg /\ x.by = e.by

(* A write is executed by a SpacetimeDB instance, on the origin node or    *)
(* anywhere else, only after the Raft group has committed it: whatever     *)
(* fails, propose_write returns Ok to the handler, and apply feeds the     *)
(* forwarder, for committed entries only.                                  *)
ConsensusFirst ==
  \A n \in Node : \A i \in 1..Len(exec[n]) :
    exec[n][i].msg \in Writes =>
      \E j \in 1..Len(log) : CarriedBy(exec[n][i], log[j])

(* While a node's process runs, its handlers and its forwarder never       *)
(* execute one log entry twice and never execute a message both ways: the  *)
(* origin_node_id test of the forwarder complements the handler's own      *)
(* send.                                                                   *)
NoDoubleSend ==
  \A n \in Node : \A i, j \in (boot[n] + 1)..Len(exec[n]) :
    (i < j /\ exec[n][i].msg = exec[n][j].msg) =>
      /\ exec[n][i].via = "forwarder"
      /\ exec[n][j].via = "forwarder"
      /\ exec[n][i].by # exec[n][j].by

(* While a node's process runs, its forwarder executes other nodes' writes *)
(* in the order of the log, across failed sends and reconnections.         *)
ForwarderFollowsLog ==
  \A n \in Node : \A i, j \in (boot[n] + 1)..Len(exec[n]) :
    (i < j /\ exec[n][i].via = "forwarder" /\ exec[n][j].via = "forwarder") =>
      \A a, b \in 1..Len(log) :
        (CarriedBy(exec[n][i], log[a]) /\ CarriedBy(exec[n][j], log[b])) => a < b

ByClient(x, m) == x.via = "client" /\ x.msg = m

ByForwarder(x, m) == x.via = "forwarder" /\ x.msg = m

(* What one client sends is executed in the order in which it sent it.     *)
(* When the handler has forwarded message p of its connection, the home    *)
(* node executes a later message q after it, and so does every other       *)
(* node's forwarder while its process runs: the handler reads the next     *)
(* message only when propose_write has returned.  A forwarder may still    *)
(* execute p again, from another entry (see Redirect), at any later time.  *)
OneClientOneOrder ==
  \A c \in Conn : \A p, q \in 1..Len(sent[c]), i \in 1..Len(exec[Home[c]]) :
    (p < q /\ ByClient(exec[Home[c]][i], sent[c][p])) =>
      /\ \A j \in 1..Len(exec[Home[c]]) :
           ByClient(exec[Home[c]][j], sent[c][q]) => i < j
      /\ \A o \in Node : \A k, l \in (boot[o] + 1)..Len(exec[o]) :
           /\ ByForwarder(exec[o][k], sent[c][p])
           /\ exec[o][k].by = exec[Home[c]][i].by
           /\ ByForwarder(exec[o][l], sent[c][q])
           => k < l

(* The handler of c still has to forward its current message, m.           *)
HandlerOwes(c, m) ==
  /\ pc[c] \in {"local", "http", "send"}
  /\ Cur(c) = m

ExecutedVia(n, e, via) ==
  \E i \in 1..Len(exec[n]) : exec[n][i].via = via /\ CarriedBy(exec[n][i], e)

(* A committed write of one of n's own clients has been executed by the    *)
(* client's handler, or still will be.                                     *)
OriginForwards ==
  \A n \in Node : \A i \in 1..applied[n] :
    log[i].origin = n =>
      \/ ExecutedVia(n, log[i], "client")
      \/ HandlerOwes(From[log[i].msg], log[i].msg)

(* As long as no call or send has failed and no process has stopped,       *)
(* every write a node has applied is executed by its SpacetimeDB or still  *)
(* on its way there: queued for the forwarder, or owed by the handler.     *)
NothingLost ==
  faults = 0 =>
    /\ OriginForwards
    /\ \A n \in Node : \A i \in 1..applied[n] :
         log[i].origin # n =>
           \/ ExecutedVia(n, log[i], "forwarder")
           \/ \E k \in 1..Len(chan[n]) : chan[n][k] = log[i]

(* A write committed for another node's client is eventually executed by   *)
(* node n, once some client of n has told the forwarder the database path, *)
(* unless something fails.                                                 *)
RemoteDelivery ==
  \A n \in Node, e \in Entry :
    (Committed(e) /\ e.origin # n /\ dbPath[n] # NoPath)
      ~> (ExecutedVia(n, e, "forwarder") \/ faults > 0)

(* All replicas execute the writes they have both executed in the same     *)
(* order.                                                                  *)
ReplicasAgreeOnOrder ==
  \A n, o \in Node :
    \A i, j \in 1..Len(exec[n]) : \A k, l \in 1..Len(exec[o]) :
      ~ /\ i < j /\ k < l
        /\ exec[n][i].msg \in Writes /\ exec[n][j].msg \in Writes
        /\ exec[n][i].msg = exec[o][l].msg
        /\ exec[n][j].msg = exec[o][k].msg

(* A replica executes a log entry at most once, restarts included.         *)
ExecutedOnce ==
  \A n \in Node : \A i, j \in 1..Len(exec[n]) :
    i < j => ~(exec[n][i].msg = exec[n][j].msg /\ exec[n][i].by = exec[n][j].by)
=============================================================================
