----------------------------- MODULE Connection -----------------------------
(***************************************************************************)
(* The life of a client's connection.  Its handler connects to SpacetimeDB *)
(* and starts two tasks, one for each direction; it ends with the first of *)
(* them, or when the process is told to shut down, after it has sent the   *)
(* client a Close.  The other tasks are detached and go on.                *)
(*                                                                         *)
(* What becomes of a proposed write is module WritePath's; here a proposal *)
(* succeeds or fails.  Clients, SpacetimeDB and the WebSocket library are  *)
(* external: after a Close nothing more can be sent in its direction, and  *)
(* a connection may be lost at any time.                                   *)
(***************************************************************************)
EXTENDS ModulePath

CONSTANTS
  Conn,         \* client connections
  MaxPath,      \* bound on the tokens of a request path
  MaxAsked,     \* bound on a client's messages
  MaxAnswers    \* bound on SpacetimeDB's messages on a connection

ASSUME ConnectionAssumption ==
  /\ IsFiniteSet(Conn)
  /\ NoModule \notin Seq(Token)
  /\ {MaxPath, MaxAsked, MaxAnswers} \subseteq Nat

VARIABLES
  process,       \* main: "running", "draining" or "exited"
  gauge,         \* CONNECTIONS_ACTIVE
  handler,       \* handler[c]: where handle_client is
  path,          \* path[c]: request path of the handshake, <<>> when done with
  module,        \* module[c]: module_name, NoModule when done with
  inbound,       \* inbound[c]: the task that reads from the client
  outbound,      \* outbound[c]: the task that reads from SpacetimeDB
  client_tx,     \* client_tx[c]: who holds the lock
  seen,          \* seen[c]: the connection's shutdown receiver has seen the signal
  client,        \* client[c]: "open", "closing" or "lost"
  up,            \* up[c]: what the client has sent and inbound has not read
  asked,         \* asked[c]: number of messages the client has sent
  upstream,      \* upstream[c]: SpacetimeDB's end, "open", "closed" or "lost"
  down,          \* down[c]: what SpacetimeDB has sent and outbound has not read
  answers,       \* answers[c]: number of messages SpacetimeDB has sent
  told,          \* told[c]: SpacetimeDB has received the client's Close
  got            \* got[c]: what the client has received

ends == <<client, up, asked, upstream, down, answers, told>>
tasks == <<inbound, outbound>>
vars == <<process, gauge, handler, path, module, tasks, client_tx, seen, ends, got>>

(* Messages to the client are numbered, its own are named by their kind.  *)
Close == 0

Init ==
  /\ process = "running"
  /\ gauge = 0
  /\ handler = [c \in Conn |-> "new"]
  /\ path = [c \in Conn |-> <<>>]
  /\ module = [c \in Conn |-> NoModule]
  /\ inbound = [c \in Conn |-> "none"]
  /\ outbound = [c \in Conn |-> "none"]
  /\ client_tx = [c \in Conn |-> "free"]
  /\ seen = [c \in Conn |-> FALSE]
  /\ client = [c \in Conn |-> "open"]
  /\ up = [c \in Conn |-> <<>>]
  /\ asked = [c \in Conn |-> 0]
  /\ upstream = [c \in Conn |-> "open"]
  /\ down = [c \in Conn |-> <<>>]
  /\ answers = [c \in Conn |-> 0]
  /\ told = [c \in Conn |-> FALSE]
  /\ got = [c \in Conn |-> <<>>]

(* What a request path may have behind its first slash.                    *)
Rest == UNION {[1..k -> Token] : k \in 0..(MaxPath - 1)}

Set(f, c, v) == [f EXCEPT ![c] = v]

-----------------------------------------------------------------------------
(* The process.                                                            *)

(* On a signal main drops Proxy::run and with it the listener, tells the   *)
(* tasks, and waits five seconds.                                          *)
Signal ==
  /\ process = "running"
  /\ process' = "draining"
  /\ UNCHANGED <<gauge, handler, path, module, tasks, client_tx, seen, ends, got>>

(* The wait is over; or accept() failed, and Proxy::run and main return.   *)
Exit ==
  /\ process # "exited"
  /\ process' = "exited"
  /\ UNCHANGED <<gauge, handler, path, module, tasks, client_tx, seen, ends, got>>

Accept(c) ==
  /\ process = "running"
  /\ handler[c] = "new"
  /\ handler' = Set(handler, c, "handshake")
  /\ gauge' = gauge + 1
  /\ UNCHANGED <<process, path, module, tasks, client_tx, seen, ends, got>>

-----------------------------------------------------------------------------
(* handle_client.                                                          *)

Done(c) ==
  /\ handler' = Set(handler, c, "done")
  /\ gauge' = gauge - 1

Handshake(c, p) ==
  /\ process # "exited"
  /\ handler[c] = "handshake"
  /\ handler' = Set(handler, c, "upstream")
  /\ path' = Set(path, c, p)
  /\ module' = Set(module, c, extract_module_name(p))
  /\ UNCHANGED <<process, gauge, tasks, client_tx, seen, ends, got>>

(* The shard of the module decides where proposals go, which is left out.  *)
Forget(c) ==
  /\ path' = Set(path, c, <<>>)
  /\ module' = Set(module, c, NoModule)

(* Faulty variant: the receiver is marked as up to date on the way.        *)
ConnectUpstreamMarks(c) ==
  /\ process # "exited"
  /\ handler[c] = "upstream"
  /\ handler' = Set(handler, c, "select")
  /\ Forget(c)
  /\ inbound' = Set(inbound, c, "read")
  /\ outbound' = Set(outbound, c, "read")
  /\ seen' = Set(seen, c, process = "draining")
  /\ UNCHANGED <<process, gauge, client_tx, ends, got>>

ConnectUpstream(c) ==
  /\ process # "exited"
  /\ handler[c] = "upstream"
  /\ handler' = Set(handler, c, "select")
  /\ Forget(c)
  /\ inbound' = Set(inbound, c, "read")
  /\ outbound' = Set(outbound, c, "read")
  /\ UNCHANGED <<process, gauge, client_tx, seen, ends, got>>

(* Faulty variant: `?' leaves before the gauge is set back.                *)
StartFailsCounted(c) ==
  /\ process # "exited"
  /\ handler[c] \in {"handshake", "upstream"}
  /\ handler' = Set(handler, c, "done")
  /\ Forget(c)
  /\ UNCHANGED <<process, gauge, tasks, client_tx, seen, ends, got>>

(* The handshake or the connection to SpacetimeDB fails.                   *)
StartFails(c) ==
  /\ process # "exited"
  /\ handler[c] \in {"handshake", "upstream"}
  /\ Done(c)
  /\ Forget(c)
  /\ UNCHANGED <<process, tasks, client_tx, seen, ends, got>>

SelectEnded(c) ==
  /\ process # "exited"
  /\ handler[c] = "select"
  /\ inbound[c] = "done" \/ outbound[c] = "done"
  /\ Done(c)
  /\ UNCHANGED <<process, path, module, tasks, client_tx, seen, ends, got>>

SelectShutdown(c) ==
  /\ process = "draining"
  /\ handler[c] = "select"
  /\ ~ seen[c]
  /\ seen' = Set(seen, c, TRUE)
  /\ handler' = Set(handler, c, "hint")
  /\ UNCHANGED <<process, gauge, path, module, tasks, client_tx, ends, got>>

(* leader_close_frame finds a leader with an address, or does not.         *)
Hint(c) ==
  /\ process # "exited"
  /\ handler[c] = "hint"
  /\ \/ handler' = Set(handler, c, "lock") /\ UNCHANGED gauge
     \/ Done(c)
  /\ UNCHANGED <<process, path, module, tasks, client_tx, seen, ends, got>>

LockForClose(c) ==
  /\ process # "exited"
  /\ handler[c] = "lock"
  /\ client_tx[c] = "free"
  /\ client_tx' = Set(client_tx, c, "handler")
  /\ handler' = Set(handler, c, "close")
  /\ UNCHANGED <<process, gauge, path, module, tasks, seen, ends, got>>

(* The result of the send is ignored.                                      *)
SendClose(c) ==
  /\ process # "exited"
  /\ handler[c] = "close"
  /\ \/ /\ client[c] # "lost" /\ ~ Has(got[c], Close)
        /\ got' = Set(got, c, Append(got[c], Close))
     \/ /\ client[c] # "open" \/ Has(got[c], Close)
        /\ UNCHANGED got
  /\ client_tx' = Set(client_tx, c, "free")
  /\ Done(c)
  /\ UNCHANGED <<process, path, module, tasks, seen, ends>>

-----------------------------------------------------------------------------
(* From the client to SpacetimeDB.                                         *)

ToInbound(c, pc) ==
  /\ process # "exited"
  /\ inbound' = Set(inbound, c, pc)
  /\ UNCHANGED <<process, gauge, handler, path, module, outbound, client_tx, seen, got>>

(* Faulty variant: the task ends with the client's Close.                  *)
ReadClientStops(c) ==
  /\ inbound[c] = "read"
  /\ up[c] # <<>>
  /\ ToInbound(c, IF Head(up[c]) = "close" THEN "done" ELSE Head(up[c]))
  /\ up' = Set(up, c, Tail(up[c]))
  /\ UNCHANGED <<client, asked, upstream, down, answers, told>>

(* The task's position is then the message it deals with.                  *)
ReadClient(c) ==
  /\ inbound[c] = "read"
  /\ up[c] # <<>>
  /\ ToInbound(c, Head(up[c]))
  /\ up' = Set(up, c, Tail(up[c]))
  /\ UNCHANGED <<client, asked, upstream, down, answers, told>>

(* The client's stream ends or fails.                                      *)
ClientEnded(c) ==
  /\ inbound[c] = "read"
  /\ client[c] = "lost" \/ (client[c] = "closing" /\ up[c] = <<>>)
  /\ ToInbound(c, "done")
  /\ UNCHANGED ends

ProposeOk(c) ==
  /\ inbound[c] = "write"
  /\ ToInbound(c, "proposed")
  /\ UNCHANGED ends

ProposeErr(c) ==
  /\ inbound[c] = "write"
  /\ ToInbound(c, "read")
  /\ UNCHANGED ends

(* A message to a connection that is closed or lost may vanish.            *)
SendUpstream(c) ==
  /\ inbound[c] \in {"proposed", "read_op", "close"}
  /\ ToInbound(c, "read")
  /\ told' = Set(told, c, told[c] \/ (inbound[c] = "close" /\ upstream[c] = "open"))
  /\ UNCHANGED <<client, up, asked, upstream, down, answers>>

SendUpstreamFails(c) ==
  /\ inbound[c] \in {"proposed", "read_op", "close"}
  /\ upstream[c] # "open"
  /\ ToInbound(c, "done")
  /\ UNCHANGED ends

-----------------------------------------------------------------------------
(* From SpacetimeDB to the client.                                         *)

ReadUpstream(c) ==
  /\ process # "exited"
  /\ outbound[c] = "read"
  /\ down[c] # <<>>
  /\ outbound' = Set(outbound, c, "lock")
  /\ UNCHANGED <<process, gauge, handler, path, module, inbound, client_tx, seen, ends, got>>

(* SpacetimeDB's stream ends or fails.                                     *)
UpstreamEnded(c) ==
  /\ process # "exited"
  /\ outbound[c] = "read"
  /\ upstream[c] = "lost" \/ (upstream[c] = "closed" /\ down[c] = <<>>)
  /\ outbound' = Set(outbound, c, "done")
  /\ UNCHANGED <<process, gauge, handler, path, module, inbound, client_tx, seen, ends, got>>

LockForRelay(c) ==
  /\ process # "exited"
  /\ outbound[c] = "lock"
  /\ client_tx[c] = "free"
  /\ client_tx' = Set(client_tx, c, "outbound")
  /\ outbound' = Set(outbound, c, "send")
  /\ UNCHANGED <<process, gauge, handler, path, module, inbound, seen, ends, got>>

Released(c, pc) ==
  /\ process # "exited"
  /\ outbound' = Set(outbound, c, pc)
  /\ client_tx' = Set(client_tx, c, "free")
  /\ down' = Set(down, c, Tail(down[c]))
  /\ UNCHANGED <<process, gauge, handler, path, module, inbound, seen,
                 client, up, asked, upstream, answers, told>>

Relay(c) ==
  /\ outbound[c] = "send"
  /\ client[c] # "lost" /\ ~ Has(got[c], Close)
  /\ got' = Set(got, c, Append(got[c], Head(down[c])))
  /\ Released(c, "read")

(* Faulty variant: the next message is tried.                              *)
RelayFailsGoesOn(c) ==
  /\ outbound[c] = "send"
  /\ client[c] # "open" \/ Has(got[c], Close)
  /\ UNCHANGED got
  /\ Released(c, "read")

RelayFails(c) ==
  /\ outbound[c] = "send"
  /\ client[c] # "open" \/ Has(got[c], Close)
  /\ UNCHANGED got
  /\ Released(c, "done")

-----------------------------------------------------------------------------
(* Clients and SpacetimeDB.                                                *)

Outside == UNCHANGED <<process, gauge, handler, path, module, tasks, client_tx, seen, got>>

Connected(c) == inbound[c] # "none"

ClientSends(c, m) ==
  /\ Connected(c) /\ client[c] = "open" /\ asked[c] < MaxAsked
  /\ up' = Set(up, c, Append(up[c], m))
  /\ asked' = Set(asked, c, asked[c] + 1)
  /\ UNCHANGED <<client, upstream, down, answers, told>>
  /\ Outside

ClientCloses(c) ==
  /\ Connected(c) /\ client[c] = "open"
  /\ client' = Set(client, c, "closing")
  /\ up' = Set(up, c, Append(up[c], "close"))
  /\ UNCHANGED <<asked, upstream, down, answers, told>>
  /\ Outside

ClientLost(c) ==
  /\ Connected(c) /\ client[c] = "open"
  /\ client' = Set(client, c, "lost")
  /\ UNCHANGED <<up, asked, upstream, down, answers, told>>
  /\ Outside

UpstreamAnswers(c) ==
  /\ Connected(c) /\ upstream[c] = "open" /\ answers[c] < MaxAnswers
  /\ answers' = Set(answers, c, answers[c] + 1)
  /\ down' = Set(down, c, Append(down[c], answers[c] + 1))
  /\ UNCHANGED <<client, up, asked, upstream, told>>
  /\ Outside

UpstreamCloses(c) ==
  /\ Connected(c) /\ upstream[c] = "open"
  /\ upstream' = Set(upstream, c, "closed")
  /\ down' = Set(down, c, Append(down[c], Close))
  /\ UNCHANGED <<client, up, asked, answers, told>>
  /\ Outside

UpstreamLost(c) ==
  /\ Connected(c) /\ upstream[c] = "open"
  /\ upstream' = Set(upstream, c, "lost")
  /\ UNCHANGED <<client, up, asked, down, answers, told>>
  /\ Outside

-----------------------------------------------------------------------------
Handling(c) ==
  \/ ConnectUpstream(c) \/ StartFails(c)
  \/ SelectEnded(c) \/ SelectShutdown(c) \/ Hint(c) \/ LockForClose(c)

(* A proposal may take for ever: it has no timeout.                        *)
Reading(c) == ReadClient(c) \/ ClientEnded(c) \/ SendUpstream(c) \/ SendUpstreamFails(c)

Relaying(c) == ReadUpstream(c) \/ UpstreamEnded(c) \/ LockForRelay(c)

Next ==
  \/ Signal \/ Exit
  \/ \E c \in Conn :
       \/ Accept(c)
       \/ \E p \in Rest : Handshake(c, <<"/">> \o p)
       \/ Handling(c) \/ SendClose(c)
       \/ Reading(c) \/ ProposeOk(c) \/ ProposeErr(c)
       \/ Relaying(c) \/ Relay(c) \/ RelayFails(c)
       \/ \E m \in {"write", "read_op"} : ClientSends(c, m)
       \/ ClientCloses(c) \/ ClientLost(c)
       \/ UpstreamAnswers(c) \/ UpstreamCloses(c) \/ UpstreamLost(c)

Spec == Init /\ [][Next]_vars

(* tokio runs every task that can go on, and its mutex serves the waiting  *)
(* tasks in turn.  A send to a client ends if the client is closing or     *)
(* lost, and SpacetimeDB answers a Close; nothing is assumed of other      *)
(* sends, of proposals and of clients.                                     *)
FairSpec ==
  /\ Spec
  /\ \A c \in Conn :
       /\ WF_vars(Handling(c)) /\ WF_vars(Reading(c)) /\ WF_vars(Relaying(c))
       /\ SF_vars(LockForClose(c)) /\ SF_vars(LockForRelay(c))
       /\ WF_vars(client[c] # "open" /\ (Relay(c) \/ RelayFails(c) \/ SendClose(c)))
       /\ WF_vars(told[c] /\ UpstreamCloses(c))

-----------------------------------------------------------------------------
(* Properties.                                                             *)

(* Every variable keeps its type, and CONNECTIONS_ACTIVE is the number of  *)
(* handlers that run, whichever way handle_client_inner returned.          *)
TypeOK ==
  /\ process \in {"running", "draining", "exited"}
  /\ gauge = Cardinality({c \in Conn : handler[c] \notin {"new", "done"}})
  /\ \A c \in Conn :
       /\ handler[c] \in {"new", "handshake", "upstream", "select", "hint", "lock",
                          "close", "done"}
       /\ inbound[c] \in {"none", "read", "write", "proposed", "read_op", "close", "done"}
       /\ outbound[c] \in {"none", "read", "lock", "send", "done"}
       /\ client_tx[c] \in {"free", "handler", "outbound"}
       /\ outbound[c] \in {"lock", "send"} => down[c] # <<>>

(* A connection is routed by the module that its request path names, and   *)
(* by the default shard if the path names none.                            *)
RoutedByName ==
  \A c \in Conn : path[c] # <<>> =>
    IF module[c] = NoModule
    THEN \A i, j \in DOMAIN path[c] : ~ Names(path[c], SubSeq(path[c], i, j))
    ELSE Names(path[c], module[c])

(* The client receives what SpacetimeDB sent, in order and without gaps,   *)
(* and nothing behind a Close, whether that is SpacetimeDB's own or the    *)
(* handler's at shutdown.                                                  *)
RelayInOrder ==
  \A c \in Conn : \A i \in DOMAIN got[c] :
    IF got[c][i] = Close THEN i = Len(got[c]) ELSE got[c][i] = i

Ended(c) == handler[c] = "done" /\ inbound[c] = "done" /\ outbound[c] = "done"

(* When a client closes its connection, handler and both tasks end, and    *)
(* with them the connection to SpacetimeDB, unless a proposal never        *)
(* returns.                                                                *)
ClosedEnds ==
  \A c \in Conn :
    client[c] = "closing" ~> (Ended(c) \/ process = "exited" \/ inbound[c] = "write")

(* After the shutdown signal a handler gets as far as its Close, also one  *)
(* that was still connecting when the signal came, unless a send to a slow *)
(* client holds the lock.                                                  *)
ShutdownReaches ==
  \A c \in Conn :
    (process = "draining" /\ handler[c] \in {"upstream", "select"}) ~>
      \/ handler[c] \in {"close", "done"}
      \/ process = "exited"
      \/ outbound[c] = "send"
=============================================================================
