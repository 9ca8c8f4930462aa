------------------------ MODULE WritePathSafetyProofs -----------------------
(***************************************************************************)
(* Proofs about WritePath: the steps of the handlers, the safety theorems  *)
(* that follow from all the invariants, that nothing is lost while nothing *)
(* fails, and that what one client sends is executed in order.             *)
(***************************************************************************)
EXTENDS WritePathProofs

(* The tableau prover first: most steps need no arithmetic.                *)
USE ZenonT(5), SMT

-----------------------------------------------------------------------------
(* The handlers.                                                           *)

(* HandledInv survives a step that executes nothing.                       *)
LEMMA HandledFrame ==
  ASSUME TypeInv, HandledInv, UNCHANGED exec,
         \A k \in Msg : WasSent(k) => WasSent(k)',
         Len(log) \in Nat, Len(log') \in Nat, Len(log) <= Len(log'),
         \A i \in 1..Len(log) : log'[i] = log[i],
         \A c \in Conn : pc'[c] \in Busy =>
           \/ pc[c] \in Busy /\ Cur(c)' = Cur(c)
           \/ Cur(c)' \in Msg /\ ~WasSent(Cur(c)'),
         \A c \in Conn : pc'[c] = "send" => Committed(Request(c, at[c]))'
  PROVE  HandledInv'
<1>1. ClientSent'
  <2> SUFFICES ASSUME NEW n \in Node, NEW i \in 1..Len(exec'[n]), FromClient(n, i)'
               PROVE  (/\ Home[From[exec[n][i].msg]] = n
                       /\ WasSent(exec[n][i].msg)
                       /\ exec[n][i].msg \in Writes =>
                            \E j \in 1..Len(log) : CarriedBy(exec[n][i], log[j]))'
    BY DEF ClientSent
  <2>0. exec' = exec /\ i \in 1..Len(exec[n]) /\ FromClient(n, i)
    BY DEF FromClient
  <2>1. /\ Home[From[exec[n][i].msg]] = n /\ WasSent(exec[n][i].msg)
        /\ exec[n][i].msg \in Writes =>
             \E j \in 1..Len(log) : CarriedBy(exec[n][i], log[j])
    BY <2>0 DEF HandledInv, ClientSent
  <2> DEFINE m == exec[n][i].msg
  <2>2. m \in Msg
    BY <2>0, ExecMsg
  <2>3. \E k \in 1..Len(sent'[From[m]]) : sent'[From[m]][k] = m
    <3>1. \A k \in Msg : WasSent(k) =>
            \E j \in 1..Len(sent'[From[k]]) : sent'[From[k]][j] = k
      BY DEF WasSent
    <3> HIDE DEF m
    <3>2. WasSent(m)
      BY <2>1 DEF m
    <3>. QED
      BY <2>2, <3>1, <3>2
  <2>4. \A j \in 1..Len(log) : j \in 1..Len(log') /\ log'[j] = log[j]
    OBVIOUS
  <2>5. exec[n][i].msg \in Writes =>
          \E j \in 1..Len(log') : CarriedBy(exec[n][i], log'[j])
    BY <2>1, <2>4
  <2>. QED
    BY <2>0, <2>1, <2>3, <2>5, ZenonT(30) DEF WasSent, CarriedBy
<1>2. ClientOnce'
  BY DEF HandledInv, ClientOnce, FromClient
<1>3. BusyFresh'
  <2> SUFFICES ASSUME NEW c \in Conn, pc'[c] \in Busy,
                      NEW i \in 1..Len(exec[Home[c]]), FromClient(Home[c], i)
               PROVE  exec[Home[c]][i].msg # Cur(c)'
    BY DEF BusyFresh, FromClient
  <2>1. CASE pc[c] \in Busy /\ Cur(c)' = Cur(c)
    BY <2>1 DEF HandledInv, BusyFresh
  <2>2. CASE ~WasSent(Cur(c)')
    <3>1. WasSent(exec[Home[c]][i].msg)
      BY ConnFacts DEF HandledInv, ClientSent
    <3>. QED
      BY <2>2, <3>1
  <2>. QED
    BY <2>1, <2>2
<1>4. SendCommitted'
  BY DEF SendCommitted
<1>. QED
  BY <1>1, <1>2, <1>3, <1>4 DEF HandledInv

(* No handler takes up a write or forgets what it has read, and those      *)
(* about to send have their entry committed.                               *)
HandlersKeep ==
  /\ \A k \in Msg : WasSent(k) => WasSent(k)'
  /\ \A c \in Conn : pc'[c] \in Busy => pc[c] \in Busy /\ Cur(c)' = Cur(c)
  /\ \A c \in Conn : pc'[c] = "send" => Committed(Request(c, at[c]))'

(* A client of n has sent m, which no handler has sent on or still has to. *)
Fresh(n, m, by) ==
  /\ Home[From[m]] = n /\ WasSent(m)'
  /\ m \in Writes => \E j \in 1..Len(log) : m = log[j].msg /\ by = log[j].by
  /\ \A i \in 1..Len(exec[n]) : FromClient(n, i) => exec[n][i].msg # m
  /\ \A c \in Conn : (pc'[c] \in Busy /\ Home[c] = n) => Cur(c) # m

(* After an execution, HandledInv need only be shown for the new record.   *)
LEMMA HandledAfterExecute ==
  ASSUME TypeInv, HandledInv, NEW n \in Node, NEW m \in Msg, NEW by \in Node,
         NEW d \in Database \cup {NoPath}, NEW via \in {"client", "forwarder"},
         Execute(n, m, by, d, via), UNCHANGED log,
         HandlersKeep, via = "client" => Fresh(n, m, by)
  PROVE  HandledInv'
<1> USE DEF HandlersKeep, Fresh
<1> DEFINE x == [msg |-> m, by |-> by, db |-> d, via |-> via]
<1>0. \A o \in Node : Len(exec[o]) \in Nat
  BY LenProperties, Types
<1>1. /\ Len(exec'[n]) = Len(exec[n]) + 1
      /\ exec'[n][Len(exec[n]) + 1] = x
      /\ \A i \in 1..Len(exec[n]) : exec'[n][i] = exec[n][i]
      /\ \A o \in Node : o # n => exec'[o] = exec[o]
  <2>1. x \in Execution
    BY DEF Execution
  <2>2. /\ exec[n] \in Seq(Execution) /\ exec'[n] = Append(exec[n], x)
        /\ \A o \in Node : o # n => exec'[o] = exec[o]
    BY Types DEF Execute
  <2> HIDE DEF x
  <2>. QED
    BY <2>1, <2>2, AppendProperties, SMT
<1>2. x.msg = m /\ x.by = by /\ x.via = via
  OBVIOUS
<1> HIDE DEF x
<1>3. \A o \in Node : /\ \A i \in 1..Len(exec[o]) : exec'[o][i] = exec[o][i]
                      /\ \A i \in 1..Len(exec'[o]) :
                           \/ i \in 1..Len(exec[o])
                           \/ o = n /\ i = Len(exec[n]) + 1 /\ exec'[o][i] = x
  <2> SUFFICES ASSUME NEW o \in Node
               PROVE  /\ \A i \in 1..Len(exec[o]) : exec'[o][i] = exec[o][i]
                      /\ \A i \in 1..Len(exec'[o]) :
                           \/ i \in 1..Len(exec[o])
                           \/ o = n /\ i = Len(exec[n]) + 1 /\ exec'[o][i] = x
    OBVIOUS
  <2>1. CASE o # n
    <3>1. exec'[o] = exec[o]
      BY <1>1, <2>1
    <3>. QED
      BY <1>0, <3>1
  <2>2. CASE o = n
    <3>1. Len(exec[n]) \in Nat
      BY <1>0
    <3>. QED
      BY <1>1, <2>2, <3>1, SMT
  <2>. QED
    BY <2>1, <2>2
<1>4. ASSUME NEW o \in Node, NEW i \in 1..Len(exec'[o]), exec'[o][i].via = "client"
      PROVE  /\ Home[From[exec'[o][i].msg]] = o
             /\ WasSent(exec[o][i].msg)'
             /\ exec'[o][i].msg \in Writes =>
                  \E j \in 1..Len(log) : CarriedBy(exec'[o][i], log[j])
  <2>1. CASE i \in 1..Len(exec[o])
    <3>1. exec'[o][i] = exec[o][i] /\ FromClient(o, i) /\ exec[o][i].msg \in Msg
      BY <1>3, <1>4, <2>1, ExecMsg DEF FromClient
    <3>2. WasSent(exec[o][i].msg)
      BY <2>1, <3>1 DEF HandledInv, ClientSent
    <3>3. WasSent(exec[o][i].msg)'
      BY <3>1, <3>2 DEF WasSent
    <3>. QED
      BY <2>1, <3>1, <3>3 DEF HandledInv, ClientSent
  <2>2. CASE o = n /\ exec'[o][i] = x
    <3>1. via = "client" /\ exec'[o][i].msg = m /\ exec'[o][i].by = by
      BY <1>2, <1>4, <2>2
    <3>2. WasSent(exec[o][i].msg)'
      BY <3>1 DEF WasSent
    <3>. QED
      BY <2>2, <3>1, <3>2 DEF CarriedBy
  <2>. QED
    BY <1>3, <2>1, <2>2
<1>5. ClientSent'
  BY <1>4, SMT DEF ClientSent, FromClient, CarriedBy
<1>6. ClientOnce'
  <2> SUFFICES ASSUME NEW o \in Node, NEW i \in 1..Len(exec'[o]), NEW j \in 1..Len(exec'[o]),
                      exec'[o][i].via = "client", exec'[o][j].via = "client",
                      exec'[o][i].msg = exec'[o][j].msg
               PROVE  i = j
    BY DEF ClientOnce, FromClient
  <2>1. CASE i \in 1..Len(exec[o]) /\ j \in 1..Len(exec[o])
    BY <1>3, <2>1, SMT DEF HandledInv, ClientOnce, FromClient
  <2>2. ASSUME NEW k \in 1..Len(exec[n]), o = n, exec'[n][k].via = "client", via = "client"
        PROVE  exec'[n][k].msg # m
    BY <1>3, <2>2 DEF FromClient
  <2>3. CASE i \in 1..Len(exec[o]) /\ o = n /\ exec'[o][j] = x
    BY <1>2, <2>2, <2>3
  <2>4. CASE j \in 1..Len(exec[o]) /\ o = n /\ exec'[o][i] = x
    BY <1>2, <2>2, <2>4
  <2>. QED
    BY <1>3, <2>1, <2>3, <2>4
<1>7. BusyFresh'
  <2> SUFFICES ASSUME NEW c \in Conn, pc'[c] \in Busy,
                      NEW i \in 1..Len(exec'[Home[c]]), exec'[Home[c]][i].via = "client"
               PROVE  exec'[Home[c]][i].msg # Cur(c)
    BY DEF BusyFresh, FromClient
  <2>0. Home[c] \in Node
    BY ConnFacts
  <2>1. CASE i \in 1..Len(exec[Home[c]])
    BY <1>3, <2>0, <2>1, SMT DEF HandledInv, BusyFresh, FromClient
  <2>2. CASE Home[c] = n /\ exec'[Home[c]][i] = x
    BY <1>2, <2>2
  <2>. QED
    BY <1>3, <2>0, <2>1, <2>2
<1>8. SendCommitted'
  BY DEF SendCommitted
<1>. QED
  BY <1>5, <1>6, <1>7, <1>8 DEF HandledInv

(* Committed entries stay committed.                                       *)
LEMMA CommittedStays ==
  ASSUME TypeInv, TypeInv', [Next]_vars
  PROVE  /\ Len(log) \in Nat /\ Len(log') \in Nat /\ Len(log) <= Len(log')
         /\ \A i \in 1..Len(log) : log'[i] = log[i]
<1>1. Len(log) \in Nat /\ Len(log') \in Nat
  BY LenProperties, Types, SMT
<1>2. CASE log' = log
  BY <1>1, <1>2
<1>3. ASSUME NEW e \in pending, Commit(e)
      PROVE  Len(log) <= Len(log') /\ \A i \in 1..Len(log) : log'[i] = log[i]
  BY <1>1, <1>3, CommitFacts
<1>4. log' = log \/ \E e \in pending : Commit(e)
  BY ZenonT(30) DEF Next, vars, raftVars, HandlerStep, Accept, Handshake, ConnectUpstream,
     ConnectUpstreamFails, ClientGone, ReadWrite, ReadOther, ReadOtherFails, ProposeLocal,
     ProposeForward, Redirect, ProposeRefused, CallOk, CallErr, ForwardUpstream,
     ForwardUpstreamFails, HttpAccept, HttpReject, NodeStep, Apply, FwdLearnPath,
     FwdConnect, FwdSkip, FwdSend, FwdSendFails, FwdStop, Shutdown, Restart, SetForwarder
<1>. QED
  BY <1>1, <1>2, <1>3, <1>4

LEMMA HandledInvStep ==
  TypeInv /\ TypeInv' /\ ChanInv /\ HandledInv /\ [Next]_vars => HandledInv'
<1> SUFFICES ASSUME TypeInv, TypeInv', ChanInv, HandledInv, [Next]_vars
             PROVE  HandledInv'
  OBVIOUS
<1> USE DEF raftVars, nodeVars, connVars, histVars, Goto
<1>0. /\ Len(log) \in Nat /\ Len(log') \in Nat /\ Len(log) <= Len(log')
      /\ \A i \in 1..Len(log) : log'[i] = log[i]
  BY CommittedStays
<1>a. pc \in [Conn -> HandlerState] /\ at \in [Conn -> Node]
  BY Types
(* A handler that was about to send still has its entry committed.         *)
<1>b. ASSUME NEW c \in Conn, pc[c] = "send", sent'[c] = sent[c], at'[c] = at[c]
      PROVE  Committed(Request(c, at[c]))'
  <2>1. PICK i \in 1..Len(log) : log[i] = Request(c, at[c])
    BY <1>b DEF HandledInv, SendCommitted, Committed
  <2>2. i \in 1..Len(log') /\ log'[i] = Request(c, at[c])
    BY <1>0, <2>1
  <2>3. Request(c, at[c])' = Request(c, at[c])
    BY <1>b DEF Request, Cur
  <2>4. \E j \in 1..Len(log') : log'[j] = Request(c, at[c])'
    BY <2>2, <2>3
  <2>. QED
    BY <2>4 DEF Committed
(* Steps that neither read, nor execute, nor get an answer.                *)
<1>c. ASSUME UNCHANGED <<exec, sent>>,
             \A c \in Conn : pc'[c] \in Busy => pc[c] \in Busy,
             \A c \in Conn : pc'[c] = "send" => pc[c] = "send" /\ at'[c] = at[c]
      PROVE  HandledInv'
  <2>1. \A c \in Conn : pc'[c] = "send" => Committed(Request(c, at[c]))'
    BY <1>b, <1>c
  <2>2. \A c \in Conn : Cur(c)' = Cur(c)
    BY <1>c DEF Cur
  <2>3. \A k \in Msg : WasSent(k) => WasSent(k)'
    BY <1>c DEF WasSent
  <2>. QED
    BY <1>0, <1>c, <2>1, <2>2, <2>3, HandledFrame
<1>1. ASSUME NEW c \in Conn, HandlerStep(c) PROVE HandledInv'
  <2>1. CASE Accept(c) \/ Handshake(c) \/ ConnectUpstream(c) \/ ConnectUpstreamFails(c)
             \/ ClientGone(c)
    BY <2>1, <1>a, <1>c DEF Accept, Handshake, ConnectUpstream, ConnectUpstreamFails,
       ClientGone, Busy
  <2>2. CASE ProposeRefused(c) \/ CallErr(c) \/ ForwardUpstreamFails(c) \/ ProposeLocal(c)
    BY <2>2, <1>a, <1>c DEF ProposeRefused, CallErr, ForwardUpstreamFails, ProposeLocal, Busy
  <2>3. ASSUME NEW l \in Node, ProposeForward(c, l) \/ Redirect(c, l) PROVE HandledInv'
    BY <2>3, <1>a, <1>c DEF ProposeForward, Redirect, PostToLeader, Busy
  <2>4. ASSUME NEW m \in Msg, ReadWrite(c, m) \/ ReadOtherFails(c, m) PROVE HandledInv'
    <3>1. /\ ReadMessage(c, m) /\ UNCHANGED <<exec, log, at>>
          /\ \A d \in Conn : d # c => pc'[d] = pc[d]
          /\ pc'[c] # "send"
      BY <2>4, <1>a DEF ReadWrite, ReadOtherFails, ReadMessage
    <3>2. Cur(c)' = m /\ \A d \in Conn : d # c => sent'[d] = sent[d]
      BY <3>1, ReadMessageFacts, TypeOKHolds
    <3>3. ~WasSent(m) /\ \A k \in Msg : WasSent(k) => WasSent(k)'
      BY <3>1, WasSentAfterRead
    <3>4. \A d \in Conn : d # c => Cur(d)' = Cur(d)
      BY <3>2 DEF Cur
    <3>5. \A d \in Conn : pc'[d] = "send" => Committed(Request(d, at[d]))'
      BY <1>b, <3>1, <3>2
    <3>6. \A d \in Conn : pc'[d] \in Busy =>
            \/ pc[d] \in Busy /\ Cur(d)' = Cur(d)
            \/ Cur(d)' \in Msg /\ ~WasSent(Cur(d)')
      <4> SUFFICES ASSUME NEW d \in Conn, pc'[d] \in Busy
                   PROVE  \/ pc[d] \in Busy /\ Cur(d)' = Cur(d)
                          \/ Cur(d)' \in Msg /\ ~WasSent(Cur(d)')
        OBVIOUS
      <4>1. CASE d = c
        <5>1. ~WasSent(Cur(d)')
          BY <3>2, <3>3, <4>1 DEF WasSent
        <5>. QED
          BY <3>2, <4>1, <5>1
      <4>2. CASE d # c
        BY <3>1, <3>4, <4>2
      <4>. QED
        BY <4>1, <4>2
    <3>. QED
      BY <1>0, <3>1, <3>3, <3>5, <3>6, HandledFrame
  <2>5. ASSUME NEW m \in Msg, ReadOther(c, m) PROVE HandledInv'
    <3>1. /\ ReadMessage(c, m) /\ UNCHANGED <<log, at, pc>>
          /\ Execute(Home[c], m, Home[c], Path[c], "client")
          /\ m \notin Writes /\ pc[c] = "read"
      BY <2>5 DEF ReadOther, ReadMessage, Writes
    <3>2. \A d \in Conn : d # c => sent'[d] = sent[d]
      BY <3>1, ReadMessageFacts, TypeOKHolds
    <3>3. /\ ~WasSent(m) /\ WasSent(m)' /\ From[m] = c
          /\ \A k \in Msg : WasSent(k) => WasSent(k)'
      BY <3>1, WasSentAfterRead
    <3>4. \A d \in Conn : pc'[d] \in Busy => pc[d] \in Busy /\ Cur(d)' = Cur(d)
      BY <3>1, <3>2 DEF Cur, Busy
    <3>5. \A d \in Conn : pc'[d] = "send" => Committed(Request(d, at[d]))'
      BY <1>b, <3>1, <3>2
    <3>6. Home[c] \in Node /\ Path[c] \in Database \cup {NoPath}
      BY ConnFacts
    <3>7. \A i \in 1..Len(exec[Home[c]]) : FromClient(Home[c], i) => exec[Home[c]][i].msg # m
      BY <3>3, <3>6 DEF HandledInv, ClientSent
    <3>8. \A d \in Conn : (pc'[d] \in Busy /\ Home[d] = Home[c]) => Cur(d) # m
      BY <3>1, BusyFacts
    <3>9. log' = log
      BY <3>1
    <3>10. HandlersKeep
      BY <3>3, <3>4, <3>5 DEF HandlersKeep
    <3>11. Fresh(Home[c], m, Home[c])
      BY <3>1, <3>3, <3>7, <3>8 DEF Fresh
    <3>. QED
      BY <3>1, <3>6, <3>9, <3>10, <3>11, HandledAfterExecute
  <2>6. CASE CallOk(c)
    <3>1. /\ pc[c] \in Busy /\ UNCHANGED <<log, at, sent, exec>>
          /\ AppliedAt(at[c], Request(c, at[c]))
          /\ \A d \in Conn : d # c => pc'[d] = pc[d]
      BY <2>6, <1>a DEF CallOk, Busy
    <3>2. Committed(Request(c, at[c]))
      <4>1. at[c] \in Node /\ applied[at[c]] \in Nat /\ applied[at[c]] <= Len(log)
        BY <1>a, Types DEF ChanInv
      <4>. QED
        BY <1>0, <3>1, <4>1, SMT DEF AppliedAt, Committed
    <3>3. Committed(Request(c, at[c]))'
      BY <3>1, <3>2 DEF Committed, Request, Cur
    <3>4. \A d \in Conn : pc'[d] = "send" => Committed(Request(d, at[d]))'
      BY <1>b, <3>1, <3>3
    <3>5. \A d \in Conn : Cur(d)' = Cur(d)
      BY <3>1 DEF Cur
    <3>6. \A k \in Msg : WasSent(k) => WasSent(k)'
      BY <3>1 DEF WasSent
    <3>7. \A d \in Conn : pc'[d] \in Busy => pc[d] \in Busy /\ Cur(d)' = Cur(d)
      BY <3>1, <3>5
    <3>8. UNCHANGED exec
      BY <3>1
    <3>. QED
      BY <1>0, <3>4, <3>6, <3>7, <3>8, HandledFrame
  <2>7. CASE ForwardUpstream(c)
    <3>1. /\ pc[c] = "send" /\ pc[c] \in Busy /\ UNCHANGED <<log, at, sent>>
          /\ Execute(Home[c], Cur(c), at[c], Path[c], "client")
          /\ pc'[c] = "read" /\ \A d \in Conn : d # c => pc'[d] = pc[d]
      BY <2>7, <1>a DEF ForwardUpstream, Busy
    <3>2. /\ Cur(c) \in Msg /\ From[Cur(c)] = c /\ WasSent(Cur(c)) /\ at[c] \in Node
          /\ Home[c] \in Node /\ Path[c] \in Database \cup {NoPath}
      BY <1>a, <3>1, BusyFacts, ConnFacts
    <3>3. \A k \in Msg : WasSent(k) => WasSent(k)'
      BY <3>1 DEF WasSent
    <3>4. \A d \in Conn : pc'[d] \in Busy => pc[d] \in Busy /\ Cur(d)' = Cur(d)
      BY <3>1 DEF Cur, Busy
    <3>5. \A d \in Conn : pc'[d] = "send" => Committed(Request(d, at[d]))'
      BY <1>b, <3>1
    <3>6. \A i \in 1..Len(exec[Home[c]]) :
            FromClient(Home[c], i) => exec[Home[c]][i].msg # Cur(c)
      BY <3>1 DEF HandledInv, BusyFresh
    <3>7. \A d \in Conn : (pc'[d] \in Busy /\ Home[d] = Home[c]) => Cur(d) # Cur(c)
      BY <3>1, <3>2, BusyFacts DEF Busy
    <3>8. \E j \in 1..Len(log) : Cur(c) = log[j].msg /\ at[c] = log[j].by
      <4>1. PICK j \in 1..Len(log) : log[j] = Request(c, at[c])
        BY <3>1 DEF HandledInv, SendCommitted, Committed
      <4>. QED
        BY <4>1 DEF Request
    <3>9. log' = log /\ WasSent(Cur(c))'
      BY <3>1, <3>2 DEF WasSent, Cur
    <3>10. HandlersKeep
      BY <3>3, <3>4, <3>5 DEF HandlersKeep
    <3>11. Fresh(Home[c], Cur(c), at[c])
      BY <3>2, <3>6, <3>7, <3>8, <3>9 DEF Fresh
    <3>. QED
      BY <3>1, <3>2, <3>9, <3>10, <3>11, HandledAfterExecute
  <2>. QED
    BY <1>1, <2>1, <2>2, <2>3, <2>4, <2>5, <2>6, <2>7 DEF HandlerStep
<1>2. ASSUME NEW e \in http, HttpAccept(e) PROVE HandledInv'
  BY <1>2, <1>c DEF HttpAccept
<1>3. ASSUME NEW e \in http, HttpReject(e) PROVE HandledInv'
  <2>1. e \in Entry
    BY Types
  <2>. QED
    BY <1>3, <1>a, <1>c, <2>1, EntryFacts DEF HttpReject, Busy
<1>4. ASSUME NEW e \in pending, Commit(e) PROVE HandledInv'
  BY <1>4, <1>c DEF Commit
<1>5. ASSUME NEW n \in Node, NodeStep(n) PROVE HandledInv'
  <2>1. CASE FwdSend(n)
    <3>1. /\ FwdRecv(n) /\ UNCHANGED <<log, sent, pc, at>>
          /\ Execute(n, Head(chan[n]).msg, Head(chan[n]).by, fwdDb[n], "forwarder")
      BY <2>1 DEF FwdSend
    <3>2. /\ Head(chan[n]).msg \in Msg /\ Head(chan[n]).by \in Node
          /\ fwdDb[n] \in Database \cup {NoPath}
      BY <3>1, FwdRecvFacts, EntryFacts, Types, TypeOKHolds
    <3>3. \A k \in Msg : WasSent(k) => WasSent(k)'
      BY <3>1 DEF WasSent
    <3>4. \A d \in Conn : pc'[d] \in Busy => pc[d] \in Busy /\ Cur(d)' = Cur(d)
      BY <3>1 DEF Cur
    <3>5. \A d \in Conn : pc'[d] = "send" => Committed(Request(d, at[d]))'
      BY <1>b, <3>1
    <3>6. log' = log
      BY <3>1
    <3>7. HandlersKeep
      BY <3>3, <3>4, <3>5 DEF HandlersKeep
    <3>. QED
      BY <3>1, <3>2, <3>6, <3>7, HandledAfterExecute
  <2>2. CASE Restart(n)
    BY <2>2, <1>a, <1>c DEF Restart, Busy
  <2>3. CASE Apply(n) \/ FwdLearnPath(n) \/ FwdConnect(n) \/ FwdSkip(n) \/ FwdSendFails(n)
             \/ FwdStop(n) \/ Shutdown(n) \/ SetForwarder(n)
    BY <2>3, <1>c DEF Apply, FwdLearnPath, FwdConnect, FwdSkip, FwdSendFails, FwdStop,
       Shutdown, SetForwarder
  <2>. QED
    BY <1>5, <2>1, <2>2, <2>3 DEF NodeStep
<1>6. CASE UNCHANGED vars
  BY <1>6, <1>c DEF vars
<1>. QED
  BY <1>1, <1>2, <1>3, <1>4, <1>5, <1>6 DEF Next

-----------------------------------------------------------------------------
(* The safety theorems.                                                    *)

SafetyInv == TypeInv /\ EntryInv /\ ChanInv /\ ForwardedInv /\ HandledInv

LEMMA SafetyInvInit == Init => SafetyInv
BY TypeInvInit, EntryInvInit, ChanInvInit, ForwardedInvInit, HandledInvInit DEF SafetyInv

LEMMA SafetyInvariance == Spec => []SafetyInv
<1>1. SafetyInv /\ [Next]_vars => SafetyInv'
  BY TypeInvStep, EntryInvStep, ChanInvStep, ForwardedInvStep, HandledInvStep
     DEF SafetyInv
<1>. QED
  BY SafetyInvInit, <1>1, PTL DEF Spec

(* A message and the node that accepted it identify a log entry.           *)
LEMMA LogKey ==
  ASSUME TypeInv, EntryInv, NEW a \in 1..Len(log), NEW b \in 1..Len(log),
         log[a].msg = log[b].msg, log[a].by = log[b].by
  PROVE  a = b
<1>1. log[a] \in Entry /\ log[b] \in Entry
  BY ElementOfSeq, Types
<1>2. Known(log[a]) /\ Known(log[b])
  BY DEF Known, Committed
<1>3. log[a].origin = log[b].origin
  BY <1>1, <1>2, SMT DEF EntryInv
<1>4. log[a] = log[b]
  BY <1>1, <1>3, EntryFacts
<1>. QED
  BY <1>4 DEF EntryInv

(* The same after a step.                                                  *)
LEMMA LogKeyNext ==
  ASSUME TypeInv', EntryInv', NEW a \in 1..Len(log'), NEW b \in 1..Len(log'),
         log'[a].msg = log'[b].msg, log'[a].by = log'[b].by
  PROVE  a = b
<1>1. log'[a] \in Entry /\ log'[b] \in Entry
  <2>1. log' \in Seq(Entry)
    BY DEF TypeInv, TypeOK
  <2>. QED
    BY <2>1, ElementOfSeq
<1>2. Known(log[a])' /\ Known(log[b])'
  BY DEF Known, Committed
<1>3. log'[a].origin = log'[b].origin
  BY <1>1, <1>2, SMT DEF EntryInv
<1>4. log'[a] = log'[b]
  BY <1>1, <1>3, EntryFacts
<1>. QED
  BY <1>4 DEF EntryInv

(* The origin of a log entry is the node of the message's client.          *)
LEMMA LogOrigin ==
  ASSUME TypeInv, EntryInv, NEW a \in 1..Len(log)
  PROVE  log[a].origin = Home[From[log[a].msg]]
<1>1. log[a] \in Entry
  BY ElementOfSeq, Types
<1>2. Known(log[a])
  BY DEF Known, Committed
<1>. QED
  BY <1>1, <1>2 DEF EntryInv

LEMMA ExecVia ==
  ASSUME TypeInv, NEW n \in Node, NEW i \in 1..Len(exec[n])
  PROVE  exec[n][i].via = "client" \/ exec[n][i].via = "forwarder"
<1>1. exec[n][i] \in Execution
  BY ElementOfSeq, Types
<1>. QED
  BY <1>1 DEF Execution

(* Whatever fails, a SpacetimeDB instance executes a write only after the  *)
(* Raft group has committed it: the handler forwards upstream only after   *)
(* propose_write returned Ok, the forwarder receives applied entries only. *)
THEOREM WritesGoThroughConsensus == Spec => []ConsensusFirst
<1>1. SafetyInv => ConsensusFirst
  <2> SUFFICES ASSUME SafetyInv, NEW n \in Node, NEW i \in 1..Len(exec[n]),
                      exec[n][i].msg \in Writes
               PROVE  \E j \in 1..Len(log) : CarriedBy(exec[n][i], log[j])
    BY DEF ConsensusFirst
  <2>1. CASE exec[n][i].via = "client"
    BY <2>1 DEF SafetyInv, HandledInv, ClientSent, FromClient
  <2>2. CASE exec[n][i].via = "forwarder"
    BY <2>2 DEF SafetyInv, ForwardedInv, ForwardedFrom
  <2>. QED
    BY <2>1, <2>2, ExecVia DEF SafetyInv
<1>. QED
  BY SafetyInvariance, <1>1, PTL

(* While a node's process runs, handler and forwarder together execute no  *)
(* log entry twice: spawn_forwarder skips exactly the entries whose        *)
(* origin_node_id is its own node, and those are the handler's.            *)
THEOREM HandlerAndForwarderDisjoint == Spec => []NoDoubleSend
<1>1. SafetyInv => NoDoubleSend
  <2> SUFFICES ASSUME SafetyInv, NEW n \in Node,
                      NEW i \in (boot[n] + 1)..Len(exec[n]),
                      NEW j \in (boot[n] + 1)..Len(exec[n]),
                      i < j, exec[n][i].msg = exec[n][j].msg
               PROVE  /\ exec[n][i].via = "forwarder"
                      /\ exec[n][j].via = "forwarder"
                      /\ exec[n][i].by # exec[n][j].by
    BY DEF NoDoubleSend
  <2>0. TypeInv /\ EntryInv /\ ForwardedInv /\ HandledInv
    BY DEF SafetyInv
  <2>1. i \in 1..Len(exec[n]) /\ j \in 1..Len(exec[n]) /\ i # j
    <3>1. boot[n] \in Nat /\ Len(exec[n]) \in Nat
      BY <2>0, LenProperties, Types
    <3>. QED
      BY <3>1
  <2>2. ASSUME NEW k \in 1..Len(exec[n]), exec[n][k].via = "forwarder"
        PROVE  Home[From[exec[n][k].msg]] # n
    <3>1. PICK a \in 1..Len(log) : ForwardedFrom(n, exec[n][k], a)
      BY <2>0, <2>2 DEF ForwardedInv
    <3>2. exec[n][k].msg = log[a].msg /\ log[a].origin # n
      BY <3>1 DEF ForwardedFrom, CarriedBy
    <3>. QED
      BY <2>0, <3>2, LogOrigin
  <2>3. ASSUME NEW k \in 1..Len(exec[n]), exec[n][k].via = "client"
        PROVE  Home[From[exec[n][k].msg]] = n
    BY <2>0, <2>3 DEF HandledInv, ClientSent, FromClient
  <2>4. ~(exec[n][i].via = "client" /\ exec[n][j].via = "client")
    BY <2>0, <2>1 DEF HandledInv, ClientOnce, FromClient
  <2>5. exec[n][i].via = "forwarder" /\ exec[n][j].via = "forwarder"
    BY <2>0, <2>1, <2>2, <2>3, <2>4, ExecVia
  <2>6. PICK a \in 1..Len(log), b \in 1..Len(log) :
          a < b /\ ForwardedFrom(n, exec[n][i], a) /\ ForwardedFrom(n, exec[n][j], b)
    BY <2>0, <2>5 DEF ForwardedInv
  <2>7. /\ exec[n][i].msg = log[a].msg /\ exec[n][i].by = log[a].by
        /\ exec[n][j].msg = log[b].msg /\ exec[n][j].by = log[b].by
    BY <2>6 DEF ForwardedFrom, CarriedBy
  <2>8. a # b
    BY <2>6
  <2>. QED
    BY <2>0, <2>5, <2>7, <2>8, LogKey
<1>. QED
  BY SafetyInvariance, <1>1, PTL

(* While a node's process runs, its forwarder executes other nodes' writes *)
(* in log order, whatever sends fail and however often it reconnects.      *)
THEOREM ForwarderInLogOrder == Spec => []ForwarderFollowsLog
<1>1. SafetyInv => ForwarderFollowsLog
  <2> SUFFICES ASSUME SafetyInv, NEW n \in Node,
                      NEW i \in (boot[n] + 1)..Len(exec[n]),
                      NEW j \in (boot[n] + 1)..Len(exec[n]),
                      i < j, exec[n][i].via = "forwarder", exec[n][j].via = "forwarder",
                      NEW a \in 1..Len(log), NEW b \in 1..Len(log),
                      CarriedBy(exec[n][i], log[a]), CarriedBy(exec[n][j], log[b])
               PROVE  a < b
    BY DEF ForwarderFollowsLog
  <2>1. PICK x \in 1..Len(log), y \in 1..Len(log) :
          x < y /\ ForwardedFrom(n, exec[n][i], x) /\ ForwardedFrom(n, exec[n][j], y)
    BY DEF SafetyInv, ForwardedInv
  <2>2. /\ log[x].msg = log[a].msg /\ log[x].by = log[a].by
        /\ log[y].msg = log[b].msg /\ log[y].by = log[b].by
    BY <2>1 DEF ForwardedFrom, CarriedBy
  <2>3. x = a /\ y = b
    BY <2>2, LogKey DEF SafetyInv
  <2>. QED
    BY <2>1, <2>3
<1>. QED
  BY SafetyInvariance, <1>1, PTL

-----------------------------------------------------------------------------
(* The handler of e's connection is waiting for e, or about to forward it. *)
Owed(e) == HandlerOwes(From[e.msg], e.msg) /\ at[From[e.msg]] = e.by

(* The handlers' half of LossInv.                                          *)
OwedOrDone == \A e \in Entry : Known(e) => ExecutedVia(e.origin, e, "client") \/ Owed(e)

(* The forwarders' half.                                                   *)
TakenDone ==
  \A n \in Node : \A i \in 1..(applied[n] - Len(chan[n])) :
    log[i].origin # n => ExecutedVia(n, log[i], "forwarder")

(* Without faults, every entry that exists is owed by the handler waiting  *)
(* for it or executed by it, and the forwarder has executed everything it  *)
(* took from its channel.                                                  *)
LossInv ==
  faults = 0 =>
    /\ \A n \in Node : ~down[n] /\ fwd[n] \notin {"unset", "stopped"}
    /\ OwedOrDone
    /\ TakenDone

Waiting == {"local", "http", "send"}

LEMMA WaitingFacts == Waiting \subseteq Busy /\ "read" \notin Waiting /\ "propose" \notin Waiting
BY DEF Waiting, Busy

(* Histories of SpacetimeDB instances only grow.                           *)
LEMMA ExecGrows ==
  ASSUME TypeInv, TypeInv', [Next]_vars, NEW n \in Node
  PROVE  \A i \in 1..Len(exec[n]) : i \in 1..Len(exec'[n]) /\ exec'[n][i] = exec[n][i]
<1> USE DEF raftVars, nodeVars, connVars, histVars
<1>0. Len(exec[n]) \in Nat /\ Len(exec'[n]) \in Nat
  BY LenProperties, Types, SMT
<1>1. CASE exec' = exec
  BY <1>1
<1>2. ASSUME NEW o \in Node, NEW x \in Execution, exec' = [exec EXCEPT ![o] = Append(@, x)]
      PROVE  \A i \in 1..Len(exec[n]) : i \in 1..Len(exec'[n]) /\ exec'[n][i] = exec[n][i]
  <2>1. exec[n] \in Seq(Execution)
    BY Types
  <2>2. exec'[n] = exec[n] \/ exec'[n] = Append(exec[n], x)
    BY <1>2, Types
  <2>3. CASE exec'[n] = exec[n]
    BY <2>3
  <2>4. CASE exec'[n] = Append(exec[n], x)
    <3>1. /\ Len(exec'[n]) = Len(exec[n]) + 1
          /\ \A i \in 1..Len(exec[n]) : exec'[n][i] = exec[n][i]
      BY <2>1, <2>4, AppendProperties, SMT
    <3>. QED
      BY <1>0, <3>1
  <2>. QED
    BY <2>2, <2>3, <2>4
<1>3. ASSUME NEW o \in Node, NEW m \in Msg, NEW by \in Node,
             NEW d \in Database \cup {NoPath}, NEW via \in {"client", "forwarder"},
             Execute(o, m, by, d, via)
      PROVE  \A i \in 1..Len(exec[n]) : i \in 1..Len(exec'[n]) /\ exec'[n][i] = exec[n][i]
  <2>1. [msg |-> m, by |-> by, db |-> d, via |-> via] \in Execution
    BY DEF Execution
  <2>. QED
    BY <1>2, <1>3, <2>1 DEF Execute
<1>4. ASSUME NEW c \in Conn, NEW m \in Msg, ReadOther(c, m)
      PROVE  \A i \in 1..Len(exec[n]) : i \in 1..Len(exec'[n]) /\ exec'[n][i] = exec[n][i]
  BY <1>3, <1>4, ConnFacts DEF ReadOther
<1>5. ASSUME NEW c \in Conn, ForwardUpstream(c)
      PROVE  \A i \in 1..Len(exec[n]) : i \in 1..Len(exec'[n]) /\ exec'[n][i] = exec[n][i]
  <2>1. Cur(c) \in Msg /\ at[c] \in Node
    BY <1>5, BusyFacts, Types DEF ForwardUpstream, Busy
  <2>. QED
    BY <1>3, <1>5, <2>1, ConnFacts DEF ForwardUpstream
<1>6. ASSUME NEW o \in Node, FwdSend(o)
      PROVE  \A i \in 1..Len(exec[n]) : i \in 1..Len(exec'[n]) /\ exec'[n][i] = exec[n][i]
  <2>1. /\ Head(chan[o]).msg \in Msg /\ Head(chan[o]).by \in Node
        /\ fwdDb[o] \in Database \cup {NoPath}
    BY <1>6, FwdRecvFacts, EntryFacts, Types, TypeOKHolds DEF FwdSend
  <2>. QED
    BY <1>3, <1>6, <2>1 DEF FwdSend
<1>7. \/ exec' = exec
      \/ \E c \in Conn : (\E m \in Msg : ReadOther(c, m)) \/ ForwardUpstream(c)
      \/ \E o \in Node : FwdSend(o)
  BY DEF Next, vars, HandlerStep, Accept, Handshake, ConnectUpstream,
     ConnectUpstreamFails, ClientGone, ReadWrite, ReadOtherFails, ProposeLocal,
     ProposeForward, Redirect, ProposeRefused, CallOk, CallErr,
     ForwardUpstreamFails, HttpAccept, HttpReject, Commit, NodeStep, Apply, FwdLearnPath,
     FwdConnect, FwdSkip, FwdSendFails, FwdStop, Shutdown, Restart, SetForwarder
<1>. QED
  BY <1>1, <1>4, <1>5, <1>6, <1>7

(* What was executed stays executed.                                       *)
LEMMA ExecutedStays ==
  ASSUME TypeInv, TypeInv', [Next]_vars, NEW n \in Node, NEW e \in Entry, NEW v,
         ExecutedVia(n, e, v)
  PROVE  ExecutedVia(n, e, v)'
<1>1. PICK i \in 1..Len(exec[n]) : exec[n][i].via = v /\ CarriedBy(exec[n][i], e)
  BY DEF ExecutedVia
<1>2. i \in 1..Len(exec'[n]) /\ exec'[n][i] = exec[n][i]
  BY ExecGrows
<1>. QED
  BY <1>1, <1>2 DEF ExecutedVia, CarriedBy

LEMMA OwedFrame ==
  ASSUME TypeInv, TypeInv', [Next]_vars, OwedOrDone,
         \A e \in Entry : Known(e)' => Known(e),
         \A c \in Conn : pc[c] \in Waiting =>
           pc'[c] \in Waiting /\ Cur(c)' = Cur(c) /\ at'[c] = at[c]
  PROVE  OwedOrDone'
<1> SUFFICES ASSUME NEW e \in Entry, Known(e)'
             PROVE  ExecutedVia(e.origin, e, "client")' \/ Owed(e)'
  BY DEF OwedOrDone, ExecutedVia, Owed
<1>1. From[e.msg] \in Conn /\ e.origin \in Node
  BY EntryFacts
<1>2. CASE ExecutedVia(e.origin, e, "client")
  BY <1>1, <1>2, ExecutedStays
<1>3. CASE Owed(e)
  BY <1>1, <1>3 DEF Owed, HandlerOwes, Waiting
<1>. QED
  BY <1>2, <1>3 DEF OwedOrDone

LEMMA TakenFrame ==
  ASSUME TypeInv, TypeInv', [Next]_vars, ChanInv, TakenDone,
         \A n \in Node : Taken(n)' = Taken(n)
  PROVE  TakenDone'
<1> SUFFICES ASSUME NEW n \in Node, NEW i \in 1..Taken(n), log'[i].origin # n
             PROVE  ExecutedVia(n, log[i], "forwarder")'
  BY DEF TakenDone, ExecutedVia, Taken
<1>1. i \in 1..Len(log)
  <2>1. /\ Len(chan[n]) \in Nat /\ applied[n] \in Nat /\ Len(log) \in Nat
        /\ Len(chan[n]) <= applied[n] /\ applied[n] <= Len(log)
    BY LenProperties, Types DEF ChanInv
  <2>. QED
    BY <2>1 DEF Taken
<1>2. log'[i] = log[i]
  BY <1>1, CommittedStays
<1>3. log[i] \in Entry
  BY <1>1, ElementOfSeq, Types
<1>4. ExecutedVia(n, log[i], "forwarder")
  BY <1>2 DEF TakenDone, Taken
<1>5. PICK k \in 1..Len(exec[n]) :
        exec[n][k].via = "forwarder" /\ CarriedBy(exec[n][k], log[i])
  BY <1>4 DEF ExecutedVia
<1>6. k \in 1..Len(exec'[n]) /\ exec'[n][k] = exec[n][k]
  BY ExecGrows
<1>. QED
  BY <1>2, <1>5, <1>6 DEF ExecutedVia, CarriedBy

LEMMA OwedStep ==
  ASSUME SafetyInv, SafetyInv', OwedOrDone, [Next]_vars, faults' = faults
  PROVE  OwedOrDone'
<1> USE DEF raftVars, nodeVars, connVars, histVars, Goto
<1>0. /\ TypeInv /\ TypeInv' /\ EntryInv /\ EntryInv' /\ HandledInv
      /\ pc \in [Conn -> HandlerState] /\ at \in [Conn -> Node] /\ faults \in Nat
  BY Types DEF SafetyInv
<1>1. ~Fault
  BY <1>0 DEF Fault
<1>a. ASSUME UNCHANGED <<log, pending, sent, at>>, http' \subseteq http,
             \A d \in Conn : pc[d] \in Waiting => pc'[d] \in Waiting
      PROVE  OwedOrDone'
  <2>1. \A e \in Entry : Known(e)' => Known(e)
    BY <1>a DEF Known, Committed
  <2>2. \A d \in Conn : Cur(d)' = Cur(d)
    BY <1>a DEF Cur
  <2>. QED
    BY <1>0, <1>a, <2>1, <2>2, OwedFrame
<1>2. ASSUME NEW c \in Conn, HandlerStep(c) PROVE OwedOrDone'
  <2>1. CASE Accept(c) \/ Handshake(c) \/ ConnectUpstream(c) \/ ClientGone(c)
    BY <2>1, <1>0, <1>a DEF Accept, Handshake, ConnectUpstream, ClientGone, Waiting
  <2>2. CASE ProposeRefused(c) \/ CallOk(c)
    BY <2>2, <1>0, <1>a DEF ProposeRefused, CallOk, Waiting
  <2>3. ASSUME NEW m \in Msg, ReadWrite(c, m) \/ ReadOther(c, m) PROVE OwedOrDone'
    <3>1. /\ ReadMessage(c, m) /\ UNCHANGED <<log, pending, http, at>> /\ pc[c] = "read"
          /\ \A d \in Conn : d # c => pc'[d] = pc[d]
      BY <2>3, <1>0 DEF ReadWrite, ReadOther, ReadMessage
    <3>2. \A d \in Conn : d # c => sent'[d] = sent[d]
      BY <1>0, <3>1, ReadMessageFacts, TypeOKHolds
    <3>3. \A e \in Entry : Known(e)' => Known(e)
      BY <3>1 DEF Known, Committed
    <3>4. \A d \in Conn : pc[d] \in Waiting =>
            pc'[d] \in Waiting /\ Cur(d)' = Cur(d) /\ at'[d] = at[d]
      BY <3>1, <3>2 DEF Waiting, Cur
    <3>. QED
      BY <1>0, <3>3, <3>4, OwedFrame
  <2>4. ASSUME NEW l \in Node, pc[c] = "propose", pc'[c] \in Waiting,
               at' = [at EXCEPT ![c] = l], \A d \in Conn : d # c => pc'[d] = pc[d],
               UNCHANGED <<log, sent>>,
               \/ pending' = pending \cup {Request(c, l)} /\ UNCHANGED http
               \/ http' = http \cup {Request(c, l)} /\ UNCHANGED pending
        PROVE  OwedOrDone'
    <3>1. /\ Request(c, l) \in Entry /\ Request(c, l).msg = Cur(c)
          /\ Request(c, l).by = l /\ From[Cur(c)] = c
      BY <1>0, <2>4, RequestType, BusyFacts DEF Request, Busy
    <3>2. \A e \in Entry : Known(e)' => Known(e) \/ e = Request(c, l)
      BY <2>4 DEF Known, Committed
    <3>3. \A d \in Conn : Cur(d)' = Cur(d) /\ (d # c => at'[d] = at[d])
      BY <2>4, <1>0 DEF Cur
    <3> SUFFICES ASSUME NEW e \in Entry, Known(e)'
                 PROVE  ExecutedVia(e.origin, e, "client")' \/ Owed(e)'
      BY DEF OwedOrDone, ExecutedVia, Owed
    <3>4. CASE e = Request(c, l)
      <4>1. at'[c] = l /\ Cur(c)' = e.msg /\ From[e.msg] = c /\ e.by = l
        BY <1>0, <2>4, <3>1, <3>3, <3>4
      <4>. QED
        BY <2>4, <4>1 DEF Owed, HandlerOwes, Waiting
    <3>5. CASE Known(e)
      <4>0. From[e.msg] \in Conn /\ e.origin \in Node
        BY EntryFacts
      <4>1. CASE ExecutedVia(e.origin, e, "client")
        BY <1>0, <4>0, <4>1, ExecutedStays
      <4>2. CASE Owed(e)
        <5>1. From[e.msg] # c
          BY <2>4, <4>2 DEF Owed, HandlerOwes
        <5>. QED
          BY <2>4, <3>3, <4>0, <4>2, <5>1 DEF Owed, HandlerOwes
      <4>. QED
        BY <3>5, <4>1, <4>2 DEF OwedOrDone
    <3>. QED
      BY <3>2, <3>4, <3>5
  <2>5. CASE ProposeLocal(c)
    <3>1. Home[c] \in Node
      BY ConnFacts
    <3>. QED
      BY <1>0, <2>4, <2>5, <3>1 DEF ProposeLocal, Waiting
  <2>6. ASSUME NEW l \in Node, ProposeForward(c, l) PROVE OwedOrDone'
    BY <1>0, <2>4, <2>6 DEF ProposeForward, PostToLeader, Waiting
  <2>7. CASE ForwardUpstream(c)
    <3>1. /\ pc[c] = "send" /\ pc[c] \in Busy /\ UNCHANGED <<log, pending, http, at, sent>>
          /\ Execute(Home[c], Cur(c), at[c], Path[c], "client")
          /\ \A d \in Conn : d # c => pc'[d] = pc[d]
      BY <2>7, <1>0 DEF ForwardUpstream, Busy
    <3>2. \A e \in Entry : Known(e)' => Known(e)
      BY <3>1 DEF Known, Committed
    <3>3. \A d \in Conn : Cur(d)' = Cur(d)
      BY <3>1 DEF Cur
    <3>4. Home[c] \in Node /\ at[c] \in Node /\ Cur(c) \in Msg /\ Path[c] \in Database \cup {NoPath}
      BY <1>0, <3>1, ConnFacts, BusyFacts
    <3> DEFINE x == [msg |-> Cur(c), by |-> at[c], db |-> Path[c], via |-> "client"]
    <3>5. /\ Len(exec'[Home[c]]) \in Nat /\ Len(exec'[Home[c]]) > 0
          /\ exec'[Home[c]][Len(exec'[Home[c]])] = x
      <4>1. x \in Execution
        BY <3>4 DEF Execution
      <4>2. exec[Home[c]] \in Seq(Execution) /\ exec'[Home[c]] = Append(exec[Home[c]], x)
        BY <1>0, <3>1, <3>4, Types DEF Execute
      <4>3. /\ Len(exec[Home[c]]) \in Nat /\ Len(exec'[Home[c]]) = Len(exec[Home[c]]) + 1
            /\ exec'[Home[c]][Len(exec[Home[c]]) + 1] = x
        BY <4>1, <4>2, AppendProperties, LenProperties, SMT
      <4>. QED
        BY <4>3
    <3>6. x.msg = Cur(c) /\ x.by = at[c] /\ x.via = "client"
      OBVIOUS
    <3> HIDE DEF x
    <3> SUFFICES ASSUME NEW e \in Entry, Known(e)'
                 PROVE  ExecutedVia(e.origin, e, "client")' \/ Owed(e)'
      BY DEF OwedOrDone, ExecutedVia, Owed
    <3>7. From[e.msg] \in Conn /\ e.origin \in Node /\ Known(e)
      BY <3>2, EntryFacts
    <3>8. CASE ExecutedVia(e.origin, e, "client")
      BY <1>0, <3>7, <3>8, ExecutedStays
    <3>9. CASE Owed(e) /\ From[e.msg] # c
      BY <3>1, <3>3, <3>7, <3>9 DEF Owed, HandlerOwes
    <3>10. CASE Owed(e) /\ From[e.msg] = c
      <4>1. e.msg = Cur(c) /\ e.by = at[c] /\ e.origin = Home[c]
        BY <1>0, <3>7, <3>10 DEF Owed, HandlerOwes, EntryInv
      <4>2. \E i \in 1..Len(exec'[e.origin]) :
              exec'[e.origin][i].via = "client" /\ CarriedBy(exec'[e.origin][i], e)
        <5>1. Len(exec'[Home[c]]) \in 1..Len(exec'[Home[c]])
          BY <3>5
        <5>2. CarriedBy(x, e)
          BY <3>6, <4>1 DEF CarriedBy
        <5>. QED
          BY <3>5, <3>6, <4>1, <5>1, <5>2
      <4>. QED
        BY <4>2 DEF ExecutedVia, CarriedBy
    <3>. QED
      BY <3>7, <3>8, <3>9, <3>10 DEF OwedOrDone
  <2>8. ~ConnectUpstreamFails(c) /\ ~CallErr(c) /\ ~ForwardUpstreamFails(c)
    BY <1>1 DEF ConnectUpstreamFails, CallErr, ForwardUpstreamFails
  <2>9. /\ \A m \in Msg : ~ReadOtherFails(c, m)
        /\ \A l \in Node : ~Redirect(c, l)
    BY <1>1 DEF ReadOtherFails, Redirect
  <2>. QED
    BY <1>2, <2>1, <2>2, <2>3, <2>5, <2>6, <2>7, <2>8, <2>9 DEF HandlerStep
<1>3. ASSUME NEW e \in http, HttpAccept(e) PROVE OwedOrDone'
  <2>1. \A x \in Entry : Known(x)' => Known(x)
    BY <1>3 DEF HttpAccept, Known, Committed
  <2>2. \A d \in Conn : Cur(d)' = Cur(d) /\ pc' = pc /\ at' = at
    BY <1>3 DEF HttpAccept, Cur
  <2>. QED
    BY <1>0, <2>1, <2>2, OwedFrame
<1>4. ASSUME NEW e \in http, HttpReject(e) PROVE OwedOrDone'
  <2>1. /\ e \in Entry /\ Known(e) /\ e \in http /\ From[e.msg] \in Conn
    BY <1>0, EntryFacts, Types DEF Known
  <2>2. /\ UNCHANGED <<log, pending, at, sent, exec>> /\ http' = http \ {e}
        /\ \A d \in Conn : pc'[d] = pc[d] \/ (d = From[e.msg] /\ pc[d] = "http" /\ Cur(d) = e.msg)
    BY <1>0, <1>4, <2>1 DEF HttpReject
  <2>3. ~Known(e)' /\ \A x \in Entry : Known(x)' => Known(x)
    <3>1. ~(e \in pending) /\ ~Committed(e)
      BY <1>0, <2>1 DEF EntryInv
    <3>. QED
      BY <2>2, <3>1 DEF Known, Committed
  <2>4. \A d \in Conn : Cur(d)' = Cur(d)
    BY <2>2 DEF Cur
  <2> SUFFICES ASSUME NEW x \in Entry, Known(x)'
               PROVE  ExecutedVia(x.origin, x, "client")' \/ Owed(x)'
    BY DEF OwedOrDone, ExecutedVia, Owed
  <2>5. From[x.msg] \in Conn /\ x.origin \in Node /\ Known(x) /\ x # e
    BY <2>3, EntryFacts
  <2>6. CASE ExecutedVia(x.origin, x, "client")
    BY <1>0, <2>5, <2>6, ExecutedStays
  <2>7. CASE Owed(x) /\ pc'[From[x.msg]] = pc[From[x.msg]]
    BY <2>2, <2>4, <2>5, <2>7 DEF Owed, HandlerOwes
  <2>8. CASE /\ Owed(x) /\ From[x.msg] = From[e.msg] /\ pc[From[x.msg]] = "http"
             /\ Cur(From[x.msg]) = e.msg
    <3>1. x.msg = e.msg /\ at[From[e.msg]] = x.by
      BY <2>8 DEF Owed, HandlerOwes
    <3>2. e.origin = Home[From[e.msg]] /\ x.origin = Home[From[x.msg]]
      BY <1>0, <2>1, <2>5 DEF EntryInv
    <3>3. ~ExecutedVia(e.origin, e, "client")
      <4>1. pc[From[e.msg]] \in Busy
        BY <2>8 DEF Busy
      <4>2. \A i \in 1..Len(exec[e.origin]) :
              exec[e.origin][i].via = "client" => exec[e.origin][i].msg # e.msg
        BY <1>0, <2>1, <2>8, <3>2, <4>1 DEF HandledInv, BusyFresh, FromClient
      <4>. QED
        BY <4>2 DEF ExecutedVia, CarriedBy
    <3>4. e.by = x.by
      BY <2>1, <3>1, <3>3 DEF OwedOrDone, Owed
    <3>5. x = e
      BY <2>1, <2>5, <3>1, <3>2, <3>4, EntryFacts
    <3>. QED
      BY <2>5, <3>5
  <2>. QED
    BY <2>2, <2>5, <2>6, <2>7, <2>8 DEF OwedOrDone
<1>5. ASSUME NEW e \in pending, Commit(e) PROVE OwedOrDone'
  <2>1. \A x \in Entry : Known(x)' => Known(x)
    <3>1. /\ Len(log') = Len(log) + 1 /\ log'[Len(log) + 1] = e /\ Len(log) \in Nat
          /\ \A i \in 1..Len(log) : log'[i] = log[i]
      BY <1>0, <1>5, CommitFacts
    <3>2. \A x \in Entry : Committed(x)' => Committed(x) \/ x = e
      BY <3>1 DEF Committed
    <3>. QED
      BY <1>5, <3>2 DEF Commit, Known
  <2>2. \A d \in Conn : Cur(d)' = Cur(d) /\ pc' = pc /\ at' = at
    BY <1>5 DEF Commit, Cur
  <2>. QED
    BY <1>0, <2>1, <2>2, OwedFrame
<1>6. ASSUME NEW n \in Node, NodeStep(n) PROVE OwedOrDone'
  <2>1. CASE Apply(n) \/ FwdLearnPath(n) \/ FwdConnect(n) \/ FwdSkip(n) \/ FwdSend(n)
             \/ FwdStop(n) \/ SetForwarder(n)
    BY <1>a, <2>1 DEF Apply, FwdLearnPath, FwdConnect, FwdSkip, FwdSend, FwdStop, SetForwarder
  <2>2. ~FwdSendFails(n) /\ ~Shutdown(n) /\ ~Restart(n)
    BY <1>1, ZenonT(30) DEF FwdSendFails, Shutdown, Restart
  <2>. QED
    BY <1>6, <2>1, <2>2 DEF NodeStep
<1>7. CASE UNCHANGED vars
  BY <1>7, <1>a DEF vars
<1>. QED
  BY <1>2, <1>3, <1>4, <1>5, <1>6, <1>7 DEF Next

LEMMA TakenStep ==
  ASSUME SafetyInv, SafetyInv', TakenDone, [Next]_vars, faults' = faults,
         \A n \in Node : ~down[n] /\ fwd[n] \notin {"unset", "stopped"}
  PROVE  /\ TakenDone'
         /\ \A n \in Node : ~down'[n] /\ fwd'[n] \notin {"unset", "stopped"}
<1> USE DEF raftVars, nodeVars, connVars, histVars
<1>0. /\ TypeInv /\ TypeInv' /\ ChanInv /\ faults \in Nat
      /\ down \in [Node -> BOOLEAN] /\ fwd \in [Node -> ForwarderState]
      /\ \A n \in Node : /\ Len(chan[n]) \in Nat /\ applied[n] \in Nat
                         /\ Len(chan[n]) <= applied[n] /\ applied[n] <= Len(log)
      /\ Len(log) \in Nat
  BY Types, Lengths DEF SafetyInv, ChanInv
<1>1. ~Fault
  BY <1>0 DEF Fault
<1>a. ASSUME UNCHANGED <<applied, chan, fwd, down>>
      PROVE  /\ TakenDone'
             /\ \A n \in Node : ~down'[n] /\ fwd'[n] \notin {"unset", "stopped"}
  BY <1>0, <1>a, TakenFrame DEF Taken
<1>2. ASSUME NEW c \in Conn, HandlerStep(c) PROVE UNCHANGED <<applied, chan, fwd, down>>
  BY <1>2, ZenonT(30) DEF HandlerStep, Accept, Handshake, ConnectUpstream, ConnectUpstreamFails,
     ClientGone, ReadWrite, ReadOther, ReadOtherFails, ProposeLocal, ProposeForward,
     Redirect, ProposeRefused, CallOk, CallErr, ForwardUpstream, ForwardUpstreamFails
<1>3. ASSUME NEW e, HttpAccept(e) \/ HttpReject(e) \/ Commit(e)
      PROVE  UNCHANGED <<applied, chan, fwd, down>>
  BY <1>3 DEF HttpAccept, HttpReject, Commit
<1>4. ASSUME NEW n \in Node, NodeStep(n)
      PROVE  /\ TakenDone'
             /\ \A o \in Node : ~down'[o] /\ fwd'[o] \notin {"unset", "stopped"}
  <2>1. CASE Apply(n)
    <3>1. \A o \in Node : Taken(o)' = Taken(o)
      <4>1. /\ applied'[n] = applied[n] + 1 /\ Len(chan'[n]) = Len(chan[n]) + 1
            /\ \A o \in Node : o # n => applied'[o] = applied[o] /\ chan'[o] = chan[o]
        BY <1>0, <2>1, ApplyFacts
      <4>2. applied[n] \in Nat /\ Len(chan[n]) \in Nat
        BY <1>0
      <4>3. Taken(n)' = Taken(n)
        BY <4>1, <4>2 DEF Taken
      <4>. QED
        BY <4>1, <4>3 DEF Taken
    <3>2. UNCHANGED <<fwd, down>>
      BY <2>1 DEF Apply
    <3>. QED
      BY <1>0, <3>1, <3>2, TakenFrame
  <2>2. CASE FwdLearnPath(n) \/ FwdConnect(n)
    <3>1. /\ UNCHANGED <<applied, chan, down>>
          /\ \A o \in Node : fwd'[o] = fwd[o] \/ fwd'[o] \in {"connecting", "connected"}
      BY <1>0, <2>2 DEF FwdLearnPath, FwdConnect
    <3>2. \A o \in Node : Taken(o)' = Taken(o)
      BY <3>1 DEF Taken
    <3>. QED
      BY <1>0, <3>1, <3>2, TakenFrame
  <2>3. CASE FwdSkip(n) \/ FwdSend(n)
    <3>1. /\ FwdRecv(n) /\ UNCHANGED <<applied, fwd, down, log>>
      BY <2>3 DEF FwdSkip, FwdSend
    <3>2. /\ Head(chan[n]) \in Entry /\ Head(chan[n]) = chan[n][1] /\ Len(chan[n]) > 0
          /\ Len(chan'[n]) = Len(chan[n]) - 1
          /\ \A o \in Node : o # n => chan'[o] = chan[o]
      BY <1>0, <3>1, FwdRecvFacts, TypeOKHolds
    <3>3. /\ Taken(n)' = Taken(n) + 1 /\ Taken(n) \in Nat
          /\ Taken(n) + 1 \in 1..Len(log)
          /\ \A o \in Node : o # n => Taken(o)' = Taken(o)
      <4>1. /\ Len(chan[n]) \in Nat /\ applied[n] \in Nat /\ applied'[n] = applied[n]
            /\ Len(chan[n]) <= applied[n] /\ applied[n] <= Len(log)
        BY <1>0, <3>1
      <4>2. /\ Taken(n)' = Taken(n) + 1 /\ Taken(n) \in Nat /\ Taken(n) + 1 \in 1..Len(log)
        BY <1>0, <3>2, <4>1, SMT DEF Taken
      <4>. QED
        BY <3>1, <3>2, <4>2 DEF Taken
    <3>4. log[Taken(n) + 1] = Head(chan[n])
      <4>1. 1 \in 1..Len(chan[n])
        BY <1>0, <3>2, SMT
      <4>. QED
        BY <1>0, <3>2, <4>1 DEF ChanInv, Taken
    <3>5. log[Taken(n) + 1].origin # n =>
            \E k \in 1..Len(exec'[n]) :
              exec'[n][k].via = "forwarder" /\ CarriedBy(exec'[n][k], log[Taken(n) + 1])
      <4> SUFFICES ASSUME Head(chan[n]).origin # n
                   PROVE  \E k \in 1..Len(exec'[n]) :
                            exec'[n][k].via = "forwarder" /\ CarriedBy(exec'[n][k], Head(chan[n]))
        BY <3>4
      <4> DEFINE x == [msg |-> Head(chan[n]).msg, by |-> Head(chan[n]).by,
                       db |-> fwdDb[n], via |-> "forwarder"]
      <4>1. Execute(n, Head(chan[n]).msg, Head(chan[n]).by, fwdDb[n], "forwarder")
        BY <2>3 DEF FwdSkip, FwdSend
      <4>2. x \in Execution
        BY <1>0, <3>2, EntryFacts, Types DEF Execution
      <4>3. exec[n] \in Seq(Execution) /\ exec'[n] = Append(exec[n], x)
        BY <1>0, <4>1, Types DEF Execute
      <4>4. CarriedBy(x, Head(chan[n])) /\ x.via = "forwarder"
        BY DEF CarriedBy
      <4> HIDE DEF x
      <4>5. /\ Len(exec[n]) \in Nat /\ Len(exec'[n]) = Len(exec[n]) + 1
            /\ exec'[n][Len(exec[n]) + 1] = x
        BY <4>2, <4>3, AppendProperties, LenProperties, SMT
      <4>6. Len(exec[n]) + 1 \in 1..Len(exec'[n])
        BY <4>5
      <4>. QED
        BY <4>4, <4>5, <4>6
    <3>6. ASSUME NEW o \in Node, NEW i \in 1..Taken(o), log[i].origin # o
          PROVE  \E k \in 1..Len(exec'[o]) :
                   exec'[o][k].via = "forwarder" /\ CarriedBy(exec'[o][k], log[i])
      <4>1. PICK k \in 1..Len(exec[o]) :
              exec[o][k].via = "forwarder" /\ CarriedBy(exec[o][k], log[i])
        BY <3>6 DEF TakenDone, ExecutedVia, Taken
      <4>2. k \in 1..Len(exec'[o]) /\ exec'[o][k] = exec[o][k]
        BY <1>0, ExecGrows
      <4>. QED
        BY <4>1, <4>2
    <3>7. ASSUME NEW o \in Node, NEW i \in 1..Taken(o)', log[i].origin # o
          PROVE  \E k \in 1..Len(exec'[o]) :
                   exec'[o][k].via = "forwarder" /\ CarriedBy(exec'[o][k], log[i])
      <4>1. CASE i \in 1..Taken(o)
        BY <3>6, <3>7, <4>1
      <4>2. CASE o = n /\ i = Taken(n) + 1
        BY <3>5, <3>7, <4>2
      <4>3. i \in 1..Taken(o) \/ (o = n /\ i = Taken(n) + 1)
        <5>1. CASE o = n
          BY <3>3, <5>1
        <5>2. CASE o # n
          BY <3>3, <5>2
        <5>. QED
          BY <5>1, <5>2
      <4>. QED
        BY <4>1, <4>2, <4>3
    <3>8. log' = log
      BY <3>1
    <3>9. TakenDone'
      BY <3>7, <3>8 DEF TakenDone, ExecutedVia, CarriedBy, Taken
    <3>. QED
      BY <3>1, <3>9
  <2>4. ~FwdSendFails(n) /\ ~Shutdown(n) /\ ~Restart(n)
    BY <1>1 DEF FwdSendFails, Shutdown, Restart
  <2>5. ~FwdStop(n) /\ ~SetForwarder(n)
    BY DEF FwdStop, SetForwarder
  <2>. QED
    BY <1>4, <2>1, <2>2, <2>3, <2>4, <2>5, ZenonT(30) DEF NodeStep
<1>5. CASE UNCHANGED vars
  BY <1>5, <1>a DEF vars
<1>. QED
  BY <1>a, <1>2, <1>3, <1>4, <1>5, ZenonT(30) DEF Next

LEMMA LossInvStep == SafetyInv /\ SafetyInv' /\ LossInv /\ [Next]_vars => LossInv'
<1> SUFFICES ASSUME SafetyInv, SafetyInv', LossInv, [Next]_vars, faults' = 0
             PROVE  /\ \A n \in Node : ~down'[n] /\ fwd'[n] \notin {"unset", "stopped"}
                    /\ OwedOrDone'
                    /\ TakenDone'
  BY DEF LossInv
<1>1. faults' = faults \/ faults' = faults + 1
  BY ZenonT(30) DEF Next, vars, histVars, NoFault, Fault, HandlerStep, Accept, Handshake, ConnectUpstream,
     ConnectUpstreamFails, ClientGone, ReadWrite, ReadOther, ReadOtherFails, ProposeLocal,
     ProposeForward, Redirect, ProposeRefused, CallOk, CallErr, ForwardUpstream,
     ForwardUpstreamFails, HttpAccept, HttpReject, Commit, NodeStep, Apply, FwdLearnPath,
     FwdConnect, FwdSkip, FwdSend, FwdSendFails, FwdStop, Shutdown, Restart, SetForwarder
<1>2. faults \in Nat
  BY Types DEF SafetyInv
<1>3. faults = 0 /\ faults' = faults
  BY <1>1, <1>2
<1>. QED
  BY <1>3, OwedStep, TakenStep DEF LossInv

(* As long as nothing fails, every write a node has applied is executed by *)
(* its SpacetimeDB or on its way there: owed by the handler that proposed  *)
(* it, or queued in the channel that apply feeds and the forwarder drains. *)
THEOREM NoWriteLost == Spec => []NothingLost
<1>1. Init => LossInv
  <2> SUFFICES ASSUME Init PROVE LossInv
    OBVIOUS
  <2>1. /\ Len(log) = 0 /\ pending = {} /\ http = {}
        /\ \A n \in Node : /\ Len(chan[n]) = 0 /\ applied[n] = 0
                           /\ fwd[n] = "waiting" /\ ~down[n]
    BY EmptySeq DEF Init
  <2>2. \A e \in Entry : ~Known(e)
    BY <2>1, NothingKnown
  <2>3. \A n \in Node : applied[n] - Len(chan[n]) = 0
    BY <2>1
  <2>4. TakenDone
    BY <2>3 DEF TakenDone
  <2>5. OwedOrDone
    BY <2>2 DEF OwedOrDone
  <2>. QED
    BY <2>1, <2>4, <2>5 DEF LossInv
<1>2. SafetyInv /\ LossInv => NothingLost
  <2> SUFFICES ASSUME SafetyInv, LossInv, faults = 0,
                      NEW n \in Node, NEW i \in 1..applied[n]
               PROVE  /\ log[i].origin = n =>
                           \/ ExecutedVia(n, log[i], "client")
                           \/ HandlerOwes(From[log[i].msg], log[i].msg)
                      /\ log[i].origin # n =>
                           \/ ExecutedVia(n, log[i], "forwarder")
                           \/ \E k \in 1..Len(chan[n]) : chan[n][k] = log[i]
    BY DEF NothingLost, OriginForwards
  <2>0. /\ Len(chan[n]) \in Nat /\ applied[n] \in Nat /\ Len(log) \in Nat
        /\ Len(chan[n]) <= applied[n] /\ applied[n] <= Len(log)
    BY LenProperties, Types DEF SafetyInv, ChanInv
  <2>1. i \in 1..Len(log) /\ log[i] \in Entry /\ Known(log[i])
    <3>1. i \in 1..Len(log)
      BY <2>0
    <3>. QED
      BY <3>1, ElementOfSeq, Types DEF SafetyInv, Known, Committed
  <2>2. log[i].origin = n => \/ ExecutedVia(n, log[i], "client")
                             \/ HandlerOwes(From[log[i].msg], log[i].msg)
    BY <2>1 DEF LossInv, OwedOrDone, Owed
  <2>3. CASE i \in 1..(applied[n] - Len(chan[n]))
    BY <2>2, <2>3 DEF LossInv, TakenDone
  <2>4. CASE i \notin 1..(applied[n] - Len(chan[n]))
    <3> DEFINE k == i - (applied[n] - Len(chan[n]))
    <3>1. k \in 1..Len(chan[n]) /\ applied[n] - Len(chan[n]) + k = i
      BY <2>0, <2>4
    <3>2. chan[n][k] = log[applied[n] - Len(chan[n]) + k]
      BY <3>1 DEF SafetyInv, ChanInv
    <3>. QED
      BY <2>2, <3>1, <3>2
  <2>. QED
    BY <2>3, <2>4
<1>. QED
  BY SafetyInvariance, LossInvStep, <1>1, <1>2, PTL DEF Spec

-----------------------------------------------------------------------------
(***************************************************************************)
(* The order of one client's messages.  It rests on the log: when a        *)
(* handler has forwarded a write, the entry that it waited for is          *)
(* committed, and no entry carries a message that was not read yet.        *)
(***************************************************************************)
NoRepeat ==
  \A c \in Conn : \A p, q \in 1..Len(sent[c]) : sent[c][p] = sent[c][q] => p = q

HomeOrder ==
  \A c \in Conn : \A p, q \in 1..Len(sent[c]) : \A i, j \in 1..Len(exec[Home[c]]) :
    (/\ p < q /\ ByClient(exec[Home[c]][i], sent[c][p])
     /\ ByClient(exec[Home[c]][j], sent[c][q])) => i < j

LogOrder ==
  \A c \in Conn : \A p, q \in 1..Len(sent[c]) : \A i \in 1..Len(exec[Home[c]]) :
    \A a, b \in 1..Len(log) :
      (/\ p < q /\ ByClient(exec[Home[c]][i], sent[c][p])
       /\ CarriedBy(exec[Home[c]][i], log[a]) /\ log[b].msg = sent[c][q]) => a < b

OrderInv == NoRepeat /\ HomeOrder /\ LogOrder

(* What a connection reads is new, and comes last.                         *)
LEMMA SentGrows ==
  ASSUME TypeInv, [Next]_vars, NEW c \in Conn
  PROVE  /\ \A p \in 1..Len(sent[c]) : p \in 1..Len(sent'[c]) /\ sent'[c][p] = sent[c][p]
         /\ \A q \in 1..Len(sent'[c]) :
              \/ q \in 1..Len(sent[c])
              \/ q = Len(sent[c]) + 1 /\ \A p \in 1..Len(sent[c]) : sent[c][p] # sent'[c][q]
<1>1. CASE sent'[c] = sent[c]
  BY <1>1
<1>2. ASSUME NEW m \in Msg, ReadMessage(c, m)
      PROVE  /\ \A p \in 1..Len(sent[c]) : p \in 1..Len(sent'[c]) /\ sent'[c][p] = sent[c][p]
             /\ \A q \in 1..Len(sent'[c]) :
                  \/ q \in 1..Len(sent[c])
                  \/ q = Len(sent[c]) + 1 /\ \A p \in 1..Len(sent[c]) : sent[c][p] # sent'[c][q]
  <2>1. /\ Len(sent'[c]) = Len(sent[c]) + 1 /\ sent'[c][Len(sent[c]) + 1] = m
        /\ \A i \in 1..Len(sent[c]) : sent'[c][i] = sent[c][i]
    BY <1>2, ReadMessageFacts, TypeOKHolds
  <2>2. Len(sent[c]) \in Nat
    BY Lengths
  <2>3. \A p \in 1..Len(sent[c]) : sent[c][p] # m
    BY <1>2 DEF ReadMessage
  <2>4. /\ \A p \in 1..Len(sent[c]) : p \in 1..Len(sent'[c])
        /\ \A q \in 1..Len(sent'[c]) : q \in 1..Len(sent[c]) \/ q = Len(sent[c]) + 1
    BY <2>1, <2>2
  <2>. QED
    BY <2>1, <2>3, <2>4
<1>3. ASSUME NEW d \in Conn, NEW m \in Msg, ReadMessage(d, m), d # c
      PROVE  sent'[c] = sent[c]
  BY <1>3, ReadMessageFacts, TypeOKHolds
<1>4. sent' = sent \/ \E d \in Conn, m \in Msg : ReadMessage(d, m)
  BY ZenonT(30) DEF Next, vars, connVars, HandlerStep, Accept, Handshake, ConnectUpstream,
     ConnectUpstreamFails, ClientGone, ReadWrite, ReadOther, ReadOtherFails, ProposeLocal,
     ProposeForward, Redirect, ProposeRefused, CallOk, CallErr, ForwardUpstream,
     ForwardUpstreamFails, HttpAccept, HttpReject, Commit, NodeStep, Apply, FwdLearnPath,
     FwdConnect, FwdSkip, FwdSend, FwdSendFails, FwdStop, Shutdown, Restart, SetForwarder
<1>. QED
  BY <1>1, <1>2, <1>3, <1>4

(* What a handler executes is the last message it has read.                *)
LEMMA ExecNew ==
  ASSUME TypeInv, TypeInv', [Next]_vars, NEW n \in Node, NEW i \in 1..Len(exec'[n])
  PROVE  \/ i \in 1..Len(exec[n]) /\ exec'[n][i] = exec[n][i]
         \/ /\ i = Len(exec[n]) + 1
            /\ exec'[n][i].via = "client" =>
                 \E c \in Conn : From[exec'[n][i].msg] = c /\ Cur(c)' = exec'[n][i].msg
<1> DEFINE New == \/ i \in 1..Len(exec[n]) /\ exec'[n][i] = exec[n][i]
                  \/ /\ i = Len(exec[n]) + 1
                     /\ exec'[n][i].via = "client" =>
                          \E c \in Conn : From[exec'[n][i].msg] = c /\ Cur(c)' = exec'[n][i].msg
<1>0. Len(exec[n]) \in Nat
  BY Lengths
<1>1. CASE exec' = exec
  BY <1>1
<1>2. ASSUME NEW o \in Node, NEW m \in Msg, NEW by \in Node,
             NEW d \in Database \cup {NoPath}, NEW via \in {"client", "forwarder"},
             Execute(o, m, by, d, via),
             via = "client" => \E c \in Conn : From[m] = c /\ Cur(c)' = m
      PROVE  New
  <2> DEFINE x == [msg |-> m, by |-> by, db |-> d, via |-> via]
  <2>1. x \in Execution /\ exec' = [exec EXCEPT ![o] = Append(@, x)]
    BY <1>2 DEF Execution, Execute
  <2>2. x.msg = m /\ x.via = via
    OBVIOUS
  <2> HIDE DEF x
  <2>3. /\ Len(exec'[o]) = Len(exec[o]) + 1 /\ exec'[o][Len(exec[o]) + 1] = x
        /\ \A k \in 1..Len(exec[o]) : exec'[o][k] = exec[o][k]
        /\ \A k \in Node : k # o => exec'[k] = exec[k]
    <3>1. /\ exec[o] \in Seq(Execution) /\ exec'[o] = Append(exec[o], x)
          /\ \A k \in Node : k # o => exec'[k] = exec[k]
      BY <2>1, Types
    <3>. QED
      BY <2>1, <3>1, AppendProperties, SMT
  <2>4. CASE n # o
    BY <2>3, <2>4
  <2>5. CASE n = o
    <3>1. i \in 1..Len(exec[n]) \/ i = Len(exec[n]) + 1
      BY <1>0, <2>3, <2>5
    <3>. QED
      BY <1>2, <2>3, <2>2, <2>5, <3>1
  <2>. QED
    BY <2>4, <2>5
<1> HIDE DEF New
<1>3. ASSUME NEW c \in Conn, NEW m \in Msg, ReadOther(c, m) PROVE New
  <2>1. ReadMessage(c, m)
    BY <1>3 DEF ReadOther
  <2>2. Cur(c)' = m /\ From[m] = c
    BY <2>1, ReadMessageFacts, TypeOKHolds, WasSentAfterRead
  <2>3. Execute(Home[c], m, Home[c], Path[c], "client")
    BY <1>3 DEF ReadOther
  <2>. QED
    BY <1>2, <2>2, <2>3, ConnFacts
<1>4. ASSUME NEW c \in Conn, ForwardUpstream(c) PROVE New
  <2>1. Cur(c) \in Msg /\ at[c] \in Node /\ From[Cur(c)] = c
    BY <1>4, BusyFacts, Types DEF ForwardUpstream, Busy
  <2>2. Cur(c)' = Cur(c) /\ Execute(Home[c], Cur(c), at[c], Path[c], "client")
    BY <1>4 DEF ForwardUpstream, Cur
  <2>. QED
    BY <1>2, <2>1, <2>2, ConnFacts
<1>5. ASSUME NEW o \in Node, FwdSend(o) PROVE New
  <2>1. /\ Head(chan[o]).msg \in Msg /\ Head(chan[o]).by \in Node
        /\ fwdDb[o] \in Database \cup {NoPath}
    BY <1>5, FwdRecvFacts, EntryFacts, Types, TypeOKHolds DEF FwdSend
  <2>2. Execute(o, Head(chan[o]).msg, Head(chan[o]).by, fwdDb[o], "forwarder")
    BY <1>5 DEF FwdSend
  <2>. QED
    BY <1>2, <2>1, <2>2
<1>6. \/ exec' = exec
      \/ \E c \in Conn : (\E m \in Msg : ReadOther(c, m)) \/ ForwardUpstream(c)
      \/ \E o \in Node : FwdSend(o)
  BY ZenonT(30) DEF Next, vars, histVars, HandlerStep, Accept, Handshake, ConnectUpstream,
     ConnectUpstreamFails, ClientGone, ReadWrite, ReadOtherFails, ProposeLocal,
     ProposeForward, Redirect, ProposeRefused, CallOk, CallErr,
     ForwardUpstreamFails, HttpAccept, HttpReject, Commit, NodeStep, Apply, FwdLearnPath,
     FwdConnect, FwdSkip, FwdSendFails, FwdStop, Shutdown, Restart, SetForwarder
<1>. QED
  BY <1>1, <1>3, <1>4, <1>5, <1>6 DEF New

(* Only what was proposed is committed.                                    *)
LEMMA LogGrows ==
  ASSUME TypeInv, [Next]_vars, NEW b \in 1..Len(log')
  PROVE  /\ \E e \in Entry : e = log'[b] /\ Known(e)
         /\ b \in 1..Len(log) \/ b > Len(log)
<1>1. ASSUME NEW e \in pending, Commit(e)
      PROVE  /\ \E k \in Entry : k = log'[b] /\ Known(k)
             /\ b \in 1..Len(log) \/ b > Len(log)
  <2>1. /\ e \in Entry /\ Len(log) \in Nat /\ Len(log') = Len(log) + 1
        /\ log'[Len(log) + 1] = e /\ \A i \in 1..Len(log) : log'[i] = log[i]
    BY <1>1, CommitFacts
  <2>2. b \in 1..Len(log) \/ (b = Len(log) + 1 /\ b > Len(log))
    BY <2>1
  <2>3. CASE b \in 1..Len(log)
    <3>1. log[b] \in Entry /\ log'[b] = log[b]
      BY <2>1, <2>3, ElementOfSeq, Types
    <3>2. Known(log[b])
      BY <2>3 DEF Known, Committed
    <3>. QED
      BY <2>3, <3>1, <3>2
  <2>4. CASE b = Len(log) + 1 /\ b > Len(log)
    BY <2>1, <2>4 DEF Known
  <2>. QED
    BY <2>2, <2>3, <2>4
<1>2. CASE log' = log
  <2>1. log[b] \in Entry /\ b \in 1..Len(log)
    BY <1>2, ElementOfSeq, Types
  <2>2. Known(log[b])
    BY <2>1 DEF Known, Committed
  <2>. QED
    BY <1>2, <2>1, <2>2
<1>3. log' = log \/ \E e \in pending : Commit(e)
  BY ZenonT(30) DEF Next, vars, raftVars, HandlerStep, Accept, Handshake, ConnectUpstream,
     ConnectUpstreamFails, ClientGone, ReadWrite, ReadOther, ReadOtherFails, ProposeLocal,
     ProposeForward, Redirect, ProposeRefused, CallOk, CallErr, ForwardUpstream,
     ForwardUpstreamFails, HttpAccept, HttpReject, NodeStep, Apply, FwdLearnPath,
     FwdConnect, FwdSkip, FwdSend, FwdSendFails, FwdStop, Shutdown, Restart, SetForwarder
<1>. QED
  BY <1>1, <1>2, <1>3

LEMMA OrderInvStep == SafetyInv /\ SafetyInv' /\ OrderInv /\ [Next]_vars => OrderInv'
<1> SUFFICES ASSUME SafetyInv, SafetyInv', OrderInv, [Next]_vars PROVE OrderInv'
  OBVIOUS
<1>1. TypeInv /\ TypeInv' /\ EntryInv /\ EntryInv' /\ HandledInv
  BY DEF SafetyInv
<1>2. NoRepeat'
  <2> SUFFICES ASSUME NEW c \in Conn, NEW p \in 1..Len(sent'[c]), NEW q \in 1..Len(sent'[c]),
                      sent'[c][p] = sent'[c][q]
               PROVE  p = q
    BY DEF NoRepeat
  <2>1. /\ \/ p \in 1..Len(sent[c])
           \/ p = Len(sent[c]) + 1 /\ \A k \in 1..Len(sent[c]) : sent[c][k] # sent'[c][p]
        /\ \/ q \in 1..Len(sent[c])
           \/ q = Len(sent[c]) + 1 /\ \A k \in 1..Len(sent[c]) : sent[c][k] # sent'[c][q]
        /\ p \in 1..Len(sent[c]) => sent'[c][p] = sent[c][p]
        /\ q \in 1..Len(sent[c]) => sent'[c][q] = sent[c][q]
    BY <1>1, SentGrows
  <2>2. CASE p \in 1..Len(sent[c]) /\ q \in 1..Len(sent[c])
    BY <2>1, <2>2 DEF OrderInv, NoRepeat
  <2>3. CASE ~ (p \in 1..Len(sent[c]) /\ q \in 1..Len(sent[c]))
    <3>1. p \notin 1..Len(sent[c]) /\ q \notin 1..Len(sent[c])
      BY <2>1, <2>3
    <3>. QED
      BY <2>1, <3>1
  <2>. QED
    BY <2>2, <2>3
(* A message that was sent before the step is not the one just read.       *)
<1>3. ASSUME NEW c \in Conn, NEW q \in 1..Len(sent'[c]), NEW m \in Msg, m = sent'[c][q], WasSent(m)
      PROVE  q \in 1..Len(sent[c]) /\ sent'[c][q] = sent[c][q]
  <2>1. From[sent'[c][q]] = c
    BY <1>1 DEF TypeInv, SentInv
  <2>2. PICK k \in 1..Len(sent[From[m]]) : sent[From[m]][k] = m
    BY <1>3 DEF WasSent
  <2>3. k \in 1..Len(sent[c]) /\ sent[c][k] = sent'[c][q]
    BY <1>3, <2>1, <2>2
  <2>. QED
    BY <1>1, <2>3, SentGrows
(* A message that is not the last of its connection was executed before.   *)
<1>4. ASSUME NEW c \in Conn, NEW p \in 1..Len(sent'[c]), NEW q \in 1..Len(sent'[c]), p < q,
             NEW i \in 1..Len(exec'[Home[c]]), ByClient(exec'[Home[c]][i], sent'[c][p])
      PROVE  /\ p \in 1..Len(sent[c]) /\ sent'[c][p] = sent[c][p]
             /\ i \in 1..Len(exec[Home[c]]) /\ exec'[Home[c]][i] = exec[Home[c]][i]
  <2>1. Len(sent[c]) \in Nat /\ Len(sent'[c]) \in Nat
    <3>1. sent' \in [Conn -> Seq(Msg)]
      BY <1>1 DEF TypeInv, TypeOK
    <3>. QED
      BY <1>1, <3>1, Lengths, LenProperties
  <2>2. /\ p \in 1..Len(sent[c]) \/ p = Len(sent[c]) + 1
        /\ q \in 1..Len(sent[c]) \/ q = Len(sent[c]) + 1
        /\ p \in 1..Len(sent[c]) => sent'[c][p] = sent[c][p]
    BY <1>1, SentGrows
  <2>3. p \in 1..Len(sent[c]) /\ p # Len(sent'[c]) /\ Len(sent'[c]) \in 1..Len(sent'[c])
    BY <1>4, <2>1, <2>2
  <2>4. ASSUME NEW d \in Conn, From[exec'[Home[c]][i].msg] = d, Cur(d)' = exec'[Home[c]][i].msg
        PROVE  FALSE
    <3>1. exec'[Home[c]][i].msg = sent'[c][p]
      BY <1>4 DEF ByClient
    <3>2. From[sent'[c][p]] = c
      BY <1>1 DEF TypeInv, SentInv
    <3>3. sent'[c][Len(sent'[c])] = sent'[c][p]
      BY <2>4, <3>1, <3>2 DEF Cur
    <3>. QED
      BY <1>2, <2>3, <3>3 DEF NoRepeat
  <2>5. Home[c] \in Node /\ exec'[Home[c]][i].via = "client"
    BY <1>4, ConnFacts DEF ByClient
  <2>6. i \in 1..Len(exec[Home[c]]) /\ exec'[Home[c]][i] = exec[Home[c]][i]
    BY <1>1, <2>4, <2>5, ExecNew
  <2>. QED
    BY <2>2, <2>3, <2>6
<1>5. HomeOrder'
  <2> SUFFICES ASSUME NEW c \in Conn, NEW p \in 1..Len(sent'[c]), NEW q \in 1..Len(sent'[c]),
                      NEW i \in 1..Len(exec'[Home[c]]), NEW j \in 1..Len(exec'[Home[c]]),
                      p < q, ByClient(exec'[Home[c]][i], sent'[c][p]),
                      ByClient(exec'[Home[c]][j], sent'[c][q])
               PROVE  i < j
    BY DEF HomeOrder, ByClient
  <2>1. /\ p \in 1..Len(sent[c]) /\ sent'[c][p] = sent[c][p]
        /\ i \in 1..Len(exec[Home[c]]) /\ exec'[Home[c]][i] = exec[Home[c]][i]
    BY <1>4
  <2>2. Home[c] \in Node /\ Len(exec[Home[c]]) \in Nat
    BY <1>1, ConnFacts, Lengths
  <2>3. CASE j \notin 1..Len(exec[Home[c]])
    <3>1. j = Len(exec[Home[c]]) + 1
      BY <1>1, <2>2, <2>3, ExecNew
    <3>. QED
      BY <2>1, <2>2, <3>1
  <2>4. CASE j \in 1..Len(exec[Home[c]])
    <3>1. exec'[Home[c]][j] = exec[Home[c]][j]
      BY <1>1, <2>2, <2>4, ExecGrows
    <3>2. exec[Home[c]][j].via = "client" /\ exec[Home[c]][j].msg = sent'[c][q]
      BY <3>1 DEF ByClient
    <3>3. WasSent(exec[Home[c]][j].msg)
      BY <1>1, <2>2, <2>4, <3>2 DEF HandledInv, ClientSent, FromClient
    <3>4. q \in 1..Len(sent[c]) /\ sent'[c][q] = sent[c][q]
      BY <1>3, <1>1, <2>2, <2>4, <3>2, <3>3, ExecMsg
    <3>. QED
      BY <2>1, <2>4, <3>1, <3>4 DEF OrderInv, HomeOrder
  <2>. QED
    BY <2>3, <2>4
<1>6. LogOrder'
  <2> SUFFICES ASSUME NEW c \in Conn, NEW p \in 1..Len(sent'[c]), NEW q \in 1..Len(sent'[c]),
                      NEW i \in 1..Len(exec'[Home[c]])
               PROVE  \A a, b \in 1..Len(log') :
                        (/\ p < q /\ ByClient(exec'[Home[c]][i], sent'[c][p])
                         /\ CarriedBy(exec'[Home[c]][i], log'[a])
                         /\ log'[b].msg = sent'[c][q]) => a < b
    BY DEF LogOrder, ByClient, CarriedBy
  <2> SUFFICES ASSUME NEW a \in 1..Len(log'), NEW b \in 1..Len(log'),
                      p < q, ByClient(exec'[Home[c]][i], sent'[c][p]),
                      CarriedBy(exec'[Home[c]][i], log'[a]), log'[b].msg = sent'[c][q]
               PROVE  a < b
    OBVIOUS
  <2> DEFINE x == exec[Home[c]][i]
  <2>1. /\ p \in 1..Len(sent[c]) /\ sent'[c][p] = sent[c][p]
        /\ i \in 1..Len(exec[Home[c]]) /\ exec'[Home[c]][i] = x
    BY <1>4
  <2>2. Home[c] \in Node
    BY ConnFacts
  <2>3. log'[a] \in Entry /\ (b \in 1..Len(log) \/ b > Len(log))
    BY <1>1, LogGrows
  <2>4. q \in 1..Len(sent[c]) /\ sent'[c][q] = sent[c][q]
    <3>1. PICK e \in Entry : e = log'[b] /\ Known(e)
      BY <1>1, LogGrows
    <3>2. WasSent(e.msg) /\ e.msg \in Msg
      BY <1>1, <3>1, EntryFacts DEF EntryInv
    <3>. QED
      BY <1>3, <3>1, <3>2
  <2>5. x.msg = log'[a].msg /\ x.by = log'[a].by /\ x.msg \in Writes /\ FromClient(Home[c], i)
    <3>1. x.msg = log'[a].msg /\ x.by = log'[a].by /\ x.via = "client"
      BY <2>1 DEF CarriedBy, ByClient
    <3>2. log'[a].msg \in Writes
      BY <2>3, EntryFacts
    <3>. QED
      BY <3>1, <3>2 DEF FromClient
  <2>6. PICK d \in 1..Len(log) : CarriedBy(x, log[d])
    BY <1>1, <2>1, <2>2, <2>5 DEF HandledInv, ClientSent
  <2>7. /\ Len(log) \in Nat /\ Len(log') \in Nat /\ Len(log) <= Len(log')
        /\ \A k \in 1..Len(log) : log'[k] = log[k]
    BY <1>1, CommittedStays
  <2>8. a = d
    <3>1. d \in 1..Len(log') /\ log'[d] = log[d]
      BY <2>7
    <3>2. log'[a].msg = log'[d].msg /\ log'[a].by = log'[d].by
      BY <2>5, <2>6, <3>1 DEF CarriedBy
    <3>. QED
      BY <1>1, <3>1, <3>2, LogKeyNext
  <2>9. CASE b \in 1..Len(log)
    <3>1. log'[b] = log[b] /\ log'[a] = log[a] /\ a \in 1..Len(log)
      BY <2>7, <2>8, <2>9
    <3>2. ByClient(x, sent[c][p]) /\ CarriedBy(x, log[a]) /\ log[b].msg = sent[c][q]
      BY <2>1, <2>4, <3>1
    <3>. QED
      BY <2>1, <2>4, <2>9, <3>1, <3>2 DEF OrderInv, LogOrder
  <2>10. CASE b > Len(log)
    BY <2>7, <2>8, <2>10
  <2>. QED
    BY <2>3, <2>9, <2>10
<1>. QED
  BY <1>2, <1>5, <1>6 DEF OrderInv

(* The messages of one connection are executed in the order in which its   *)
(* client sent them, by the handler on its node and by the forwarders of   *)
(* all other nodes: websocket/handler.rs awaits propose_write before it    *)
(* reads on, and spawn_forwarder keeps to the order of the log.  A second  *)
(* entry for the same message, which propose_write leaves behind when it   *)
(* is redirected, is the one thing that may come late.                     *)
THEOREM ClientOrderIsKept == Spec => []OneClientOneOrder
<1>1. Init => OrderInv
  <2> SUFFICES ASSUME Init PROVE OrderInv
    OBVIOUS
  <2>1. \A c \in Conn : Len(sent[c]) = 0
    BY EmptySeq DEF Init
  <2>. QED
    BY <2>1, SMT DEF OrderInv, NoRepeat, HomeOrder, LogOrder
<1>2. SafetyInv /\ OrderInv => OneClientOneOrder
  <2> SUFFICES ASSUME SafetyInv, OrderInv, NEW c \in Conn,
                      NEW p \in 1..Len(sent[c]), NEW q \in 1..Len(sent[c]),
                      NEW i \in 1..Len(exec[Home[c]]), p < q,
                      ByClient(exec[Home[c]][i], sent[c][p])
               PROVE  /\ \A j \in 1..Len(exec[Home[c]]) :
                           ByClient(exec[Home[c]][j], sent[c][q]) => i < j
                      /\ \A o \in Node : \A k, l \in (boot[o] + 1)..Len(exec[o]) :
                           (/\ ByForwarder(exec[o][k], sent[c][p])
                            /\ exec[o][k].by = exec[Home[c]][i].by
                            /\ ByForwarder(exec[o][l], sent[c][q])) => k < l
    BY DEF OneClientOneOrder
  <2>1. TypeInv /\ EntryInv /\ ForwardedInv
    BY DEF SafetyInv
  <2>2. \A j \in 1..Len(exec[Home[c]]) : ByClient(exec[Home[c]][j], sent[c][q]) => i < j
    BY DEF OrderInv, HomeOrder
  <2>3. ASSUME NEW o \in Node, NEW k \in (boot[o] + 1)..Len(exec[o]),
               NEW l \in (boot[o] + 1)..Len(exec[o]),
               ByForwarder(exec[o][k], sent[c][p]), exec[o][k].by = exec[Home[c]][i].by,
               ByForwarder(exec[o][l], sent[c][q])
        PROVE  k < l
    <3>1. boot[o] \in Nat /\ Len(exec[o]) \in Nat
      BY <2>1, Lengths
    <3>2. k # l
      <4>1. k = l => sent[c][p] = sent[c][q]
        BY <2>3 DEF ByForwarder
      <4>2. p # q
        OBVIOUS
      <4>. QED
        BY <4>1, <4>2 DEF OrderInv, NoRepeat
    <3>3. ASSUME l < k PROVE FALSE
      <4>1. PICK b \in 1..Len(log), a \in 1..Len(log) :
              b < a /\ ForwardedFrom(o, exec[o][l], b) /\ ForwardedFrom(o, exec[o][k], a)
        BY <2>1, <2>3, <3>3 DEF ForwardedInv, ByForwarder
      <4>2. CarriedBy(exec[Home[c]][i], log[a]) /\ log[b].msg = sent[c][q]
        BY <2>3, <4>1 DEF ForwardedFrom, CarriedBy, ByForwarder, ByClient
      <4>3. a < b
        BY <4>2 DEF OrderInv, LogOrder
      <4>. QED
        BY <2>1, <4>1, <4>3, Lengths, SMT
    <3>. QED
      BY <3>1, <3>2, <3>3
  <2>. QED
    BY <2>2, <2>3
<1>. QED
  BY SafetyInvariance, OrderInvStep, <1>1, <1>2, PTL DEF Spec
=============================================================================
