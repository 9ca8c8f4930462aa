--------------------------- MODULE WritePathProofs --------------------------
(***************************************************************************)
(* Proofs about WritePath, for every set of nodes, connections and         *)
(* messages and any number of faults: types, where the entries proposed to *)
(* the Raft group may be, what the channels to the forwarders hold, and    *)
(* what the forwarders have executed, relative to the log.                 *)
(***************************************************************************)
EXTENDS WritePath, TLAPS

(* The tableau prover first: most steps need no arithmetic.                *)
USE ZenonT(5), SMT

-----------------------------------------------------------------------------
(* Sequences.                                                              *)

LEMMA LenProperties ==
  ASSUME NEW S, NEW s \in Seq(S)
  PROVE  Len(s) \in Nat /\ s \in [1..Len(s) -> S]
OBVIOUS

LEMMA ElementOfSeq ==
  ASSUME NEW S, NEW s \in Seq(S), NEW i \in 1..Len(s)
  PROVE  s[i] \in S
OBVIOUS

LEMMA EmptySeq == \A S : <<>> \in Seq(S) /\ Len(<<>>) = 0
OBVIOUS

LEMMA HeadTailProperties ==
  ASSUME NEW S, NEW s \in Seq(S), s # <<>>
  PROVE  /\ Head(s) \in S /\ Head(s) = s[1]
         /\ Tail(s) \in Seq(S) /\ Len(Tail(s)) = Len(s) - 1
         /\ \A i \in 1..Len(Tail(s)) : Tail(s)[i] = s[i + 1]
OBVIOUS

LEMMA AppendProperties ==
  ASSUME NEW S, NEW s \in Seq(S), NEW e \in S
  PROVE  /\ Append(s, e) \in Seq(S) /\ Append(s, e) # <<>>
         /\ Len(Append(s, e)) = Len(s) + 1
         /\ \A i \in 1..Len(s) : Append(s, e)[i] = s[i]
         /\ Append(s, e)[Len(s) + 1] = e
OBVIOUS

-----------------------------------------------------------------------------
(* Types.                                                                  *)

Busy == {"propose", "local", "http", "send"}

(* A handler in the middle of a write has read a write of its own client.  *)
SentInv ==
  \A c \in Conn :
    /\ \A i \in 1..Len(sent[c]) : From[sent[c][i]] = c
    /\ pc[c] \in Busy => Len(sent[c]) > 0 /\ Cur(c) \in Writes

TypeInv == TypeOK /\ SentInv

(* What TypeInv says of the variables.                                     *)
LEMMA Types ==
  ASSUME TypeInv
  PROVE  /\ log \in Seq(Entry) /\ pending \subseteq Entry /\ http \subseteq Entry
         /\ applied \in [Node -> Nat] /\ chan \in [Node -> Seq(Entry)]
         /\ fwd \in [Node -> ForwarderState]
         /\ fwdDb \in [Node -> Database \cup {NoPath}]
         /\ pc \in [Conn -> HandlerState] /\ at \in [Conn -> Node]
         /\ sent \in [Conn -> Seq(Msg)] /\ down \in [Node -> BOOLEAN]
         /\ exec \in [Node -> Seq(Execution)] /\ boot \in [Node -> Nat]
         /\ faults \in Nat
BY DEF TypeInv, TypeOK

LEMMA TypeOKHolds == TypeInv => TypeOK
BY DEF TypeInv

LEMMA SentFacts ==
  ASSUME TypeInv, NEW c \in Conn
  PROVE  /\ \A i \in 1..Len(sent[c]) : From[sent[c][i]] = c
         /\ pc[c] \in Busy => Len(sent[c]) > 0 /\ Cur(c) \in Writes
BY DEF TypeInv, SentInv

(* The numbers that the proofs calculate with, before and after a step.    *)
LEMMA Lengths ==
  ASSUME TypeInv
  PROVE  /\ Len(log) \in Nat
         /\ \A n \in Node : /\ applied[n] \in Nat /\ Len(chan[n]) \in Nat
                            /\ boot[n] \in Nat /\ Len(exec[n]) \in Nat
         /\ \A c \in Conn : Len(sent[c]) \in Nat
BY Types, LenProperties

LEMMA LengthsNext ==
  ASSUME TypeInv'
  PROVE  /\ Len(log') \in Nat
         /\ \A n \in Node : applied'[n] \in Nat /\ Len(chan'[n]) \in Nat
<1>1. /\ log' \in Seq(Entry)
      /\ applied' \in [Node -> Nat] /\ chan' \in [Node -> Seq(Entry)]
  BY DEF TypeInv, TypeOK
<1>. QED
  BY <1>1, LenProperties

LEMMA ConnFacts ==
  ASSUME NEW c \in Conn
  PROVE  Home[c] \in Node /\ Path[c] \in Database \cup {NoPath}
BY WritePathAssumption

(* Reading a message extends the connection's history by that message.     *)
LEMMA ReadMessageFacts ==
  ASSUME TypeOK, NEW c \in Conn, NEW m \in Msg, ReadMessage(c, m)
  PROVE  /\ sent' \in [Conn -> Seq(Msg)]
         /\ Len(sent'[c]) = Len(sent[c]) + 1
         /\ sent'[c][Len(sent[c]) + 1] = m
         /\ \A i \in 1..Len(sent[c]) : sent'[c][i] = sent[c][i]
         /\ \A d \in Conn : d # c => sent'[d] = sent[d]
         /\ Cur(c)' = m
BY DEF TypeOK, ReadMessage, Cur

(* An execution appends one record to the instance's history.              *)
LEMMA ExecuteFacts ==
  ASSUME TypeOK, NEW n \in Node, NEW m \in Msg, NEW by \in Node,
         NEW d \in Database \cup {NoPath}, NEW via \in {"client", "forwarder"},
         Execute(n, m, by, d, via)
  PROVE  /\ exec' \in [Node -> Seq(Execution)]
         /\ Len(exec'[n]) = Len(exec[n]) + 1
         /\ exec'[n][Len(exec[n]) + 1] = [msg |-> m, by |-> by, db |-> d, via |-> via]
         /\ \A i \in 1..Len(exec[n]) : exec'[n][i] = exec[n][i]
         /\ \A o \in Node : o # n => exec'[o] = exec[o]
<1>1. [msg |-> m, by |-> by, db |-> d, via |-> via] \in Execution
  BY DEF Execution
<1>. QED
  BY <1>1, AppendProperties, SMT DEF TypeOK, Execute

(* The request of a handler in the middle of a write is a log entry.       *)
LEMMA RequestType ==
  ASSUME TypeInv, NEW c \in Conn, pc[c] \in Busy, NEW l \in Node
  PROVE  Request(c, l) \in Entry
BY WritePathAssumption DEF TypeInv, TypeOK, SentInv, Request, Entry

(* Entries carry messages of Msg, sent on some connection.                 *)
LEMMA EntryFacts ==
  ASSUME NEW e \in Entry
  PROVE  /\ e.msg \in Msg /\ e.msg \in Writes
         /\ e.by \in Node /\ e.origin \in Node
         /\ From[e.msg] \in Conn
         /\ e = [msg |-> e.msg, origin |-> e.origin, by |-> e.by]
BY WritePathAssumption DEF Entry, Writes

(* What the forwarder takes from the channel.                              *)
LEMMA FwdRecvFacts ==
  ASSUME TypeOK, NEW n \in Node, FwdRecv(n)
  PROVE  /\ chan' \in [Node -> Seq(Entry)]
         /\ Head(chan[n]) \in Entry
         /\ Head(chan[n]) = chan[n][1]
         /\ Len(chan[n]) > 0
         /\ Len(chan'[n]) = Len(chan[n]) - 1
         /\ \A i \in 1..Len(chan'[n]) : chan'[n][i] = chan[n][i + 1]
         /\ \A o \in Node : o # n => chan'[o] = chan[o]
<1>1. chan[n] \in Seq(Entry) /\ chan[n] # <<>>
  BY DEF TypeOK, FwdRecv
<1>2. /\ Head(chan[n]) \in Entry
      /\ Tail(chan[n]) \in Seq(Entry)
      /\ Len(Tail(chan[n])) = Len(chan[n]) - 1
      /\ \A i \in 1..Len(Tail(chan[n])) : Tail(chan[n])[i] = chan[n][i + 1]
      /\ Head(chan[n]) = chan[n][1]
      /\ Len(chan[n]) > 0
  BY <1>1, HeadTailProperties, EmptySeq, SMT
<1>3. chan'[n] = Tail(chan[n]) /\ chan' \in [Node -> Seq(Entry)]
  BY <1>2 DEF TypeOK, FwdRecv
<1>. QED
  BY <1>2, <1>3 DEF TypeOK, FwdRecv

-----------------------------------------------------------------------------
(* The forwarders.                                                         *)

(* x was executed by n's forwarder, for the log entry at j.                *)
ForwardedFrom(n, x, j) ==
  /\ CarriedBy(x, log[j])
  /\ log[j].origin # n

(* What a forwarder executed is behind its channel's segment of the log,   *)
(* in the order of the log.                                                *)
ForwardedInv ==
  \A n \in Node :
    /\ boot[n] <= Len(exec[n])
    /\ \A i \in 1..Len(exec[n]) :
         exec[n][i].via = "forwarder" =>
           \E j \in 1..Len(log) :
             /\ ForwardedFrom(n, exec[n][i], j)
             /\ i > boot[n] => j <= applied[n] - Len(chan[n])
    /\ \A i, j \in (boot[n] + 1)..Len(exec[n]) :
         (i < j /\ exec[n][i].via = "forwarder" /\ exec[n][j].via = "forwarder") =>
           \E a, b \in 1..Len(log) :
             a < b /\ ForwardedFrom(n, exec[n][i], a) /\ ForwardedFrom(n, exec[n][j], b)

LEMMA ForwardedInvInit == Init => ForwardedInv
<1> SUFFICES ASSUME Init PROVE ForwardedInv
  OBVIOUS
<1>1. \A n \in Node : Len(exec[n]) = 0 /\ boot[n] = 0
  BY EmptySeq DEF Init
<1>. QED
  BY <1>1 DEF ForwardedInv

(* The position in the log up to which n's forwarder has taken entries.    *)
Taken(n) == applied[n] - Len(chan[n])

(* ForwardedInv survives a step that executes nothing and loses no ground. *)
LEMMA ForwardedFrame ==
  ASSUME TypeInv, ForwardedInv, UNCHANGED <<exec, boot>>,
         Len(log') \in Nat, Len(log) <= Len(log'),
         \A i \in 1..Len(log) : log'[i] = log[i],
         \A n \in Node : Taken(n)' \in Int /\ Taken(n) <= Taken(n)'
  PROVE  ForwardedInv'
<1>0. /\ Len(log) \in Nat
      /\ \A n \in Node : /\ Len(chan[n]) \in Nat /\ applied[n] \in Nat /\ Taken(n) \in Int
                         /\ boot[n] \in Nat /\ Len(exec[n]) \in Nat
  BY Lengths DEF Taken
<1> SUFFICES ASSUME NEW n \in Node
             PROVE  /\ \A i \in 1..Len(exec[n]) :
                         exec[n][i].via = "forwarder" =>
                           \E j \in 1..Len(log') :
                             /\ ForwardedFrom(n, exec[n][i], j)'
                             /\ i > boot[n] => j <= Taken(n)'
                    /\ \A i, j \in (boot[n] + 1)..Len(exec[n]) :
                         (i < j /\ exec[n][i].via = "forwarder"
                            /\ exec[n][j].via = "forwarder") =>
                           \E a, b \in 1..Len(log') :
                             /\ a < b
                             /\ ForwardedFrom(n, exec[n][i], a)'
                             /\ ForwardedFrom(n, exec[n][j], b)'
  BY SMT DEF ForwardedInv, Taken, ForwardedFrom, CarriedBy
<1>1. \A j \in 1..Len(log) : j \in 1..Len(log') /\ log'[j] = log[j]
  BY <1>0
<1>2. \A i \in 1..Len(exec[n]) : \A j \in 1..Len(log) :
        ForwardedFrom(n, exec[n][i], j) => ForwardedFrom(n, exec[n][i], j)'
  BY <1>1 DEF ForwardedFrom, CarriedBy
<1>3. ASSUME NEW i \in 1..Len(exec[n]), exec[n][i].via = "forwarder"
      PROVE  \E j \in 1..Len(log') : /\ ForwardedFrom(n, exec[n][i], j)'
                                     /\ i > boot[n] => j <= Taken(n)'
  <2>1. PICK j \in 1..Len(log) : /\ ForwardedFrom(n, exec[n][i], j)
                                 /\ i > boot[n] => j <= Taken(n)
    BY <1>3 DEF ForwardedInv, Taken
  <2>2. i > boot[n] => j <= Taken(n)'
    BY <1>0, <2>1
  <2>. QED
    BY <1>1, <1>2, <2>1, <2>2
<1>4. ASSUME NEW i \in (boot[n] + 1)..Len(exec[n]), NEW k \in (boot[n] + 1)..Len(exec[n]),
             i < k, exec[n][i].via = "forwarder", exec[n][k].via = "forwarder"
      PROVE  \E a, b \in 1..Len(log') : /\ a < b
                                        /\ ForwardedFrom(n, exec[n][i], a)'
                                        /\ ForwardedFrom(n, exec[n][k], b)'
  <2>1. i \in 1..Len(exec[n]) /\ k \in 1..Len(exec[n])
    BY <1>0
  <2>2. PICK a \in 1..Len(log), b \in 1..Len(log) :
          a < b /\ ForwardedFrom(n, exec[n][i], a) /\ ForwardedFrom(n, exec[n][k], b)
    BY <1>4 DEF ForwardedInv
  <2>. QED
    BY <1>1, <1>2, <2>1, <2>2
<1>. QED
  BY <1>3, <1>4

(* One execution on node n: ForwardedInv need only be shown for the new    *)
(* record.                                                                 *)
LEMMA ForwardedAfterExecute ==
  ASSUME TypeInv, ForwardedInv, NEW n \in Node, NEW m \in Msg, NEW by \in Node,
         NEW d \in Database \cup {NoPath}, NEW via \in {"client", "forwarder"},
         Execute(n, m, by, d, via), UNCHANGED <<log, boot>>,
         \A o \in Node : Taken(o)' \in Int /\ Taken(o) <= Taken(o)',
         via = "forwarder" =>
           \E j \in 1..Len(log) :
             /\ Taken(n) < j /\ j <= Taken(n)'
             /\ m = log[j].msg /\ by = log[j].by /\ log[j].origin # n
  PROVE  ForwardedInv'
<1> DEFINE x == [msg |-> m, by |-> by, db |-> d, via |-> via]
<1>0. /\ Len(log) \in Nat
      /\ \A o \in Node : /\ Taken(o) \in Int /\ boot[o] \in Nat /\ Len(exec[o]) \in Nat
  BY Lengths DEF Taken
<1>1. /\ Len(exec'[n]) = Len(exec[n]) + 1
      /\ exec'[n][Len(exec[n]) + 1] = x
      /\ \A i \in 1..Len(exec[n]) : exec'[n][i] = exec[n][i]
      /\ \A o \in Node : o # n => exec'[o] = exec[o]
  <2>1. TypeOK
    BY TypeOKHolds
  <2>2. /\ Len(exec'[n]) = Len(exec[n]) + 1
        /\ exec'[n][Len(exec[n]) + 1] = [msg |-> m, by |-> by, db |-> d, via |-> via]
        /\ \A i \in 1..Len(exec[n]) : exec'[n][i] = exec[n][i]
        /\ \A o \in Node : o # n => exec'[o] = exec[o]
    <3>1. [msg |-> m, by |-> by, db |-> d, via |-> via] \in Execution
      BY DEF Execution
    <3>. QED
      BY <2>1, <3>1, AppendProperties, SMT DEF TypeOK, Execute
  <2>. QED
    BY <2>2
<1> HIDE DEF x
<1>1a. \A o \in Node : /\ Len(exec'[o]) \in Nat
                       /\ \A i \in 1..Len(exec[o]) : exec'[o][i] = exec[o][i]
                       /\ \A i \in 1..Len(exec'[o]) :
                            i \in 1..Len(exec[o]) \/ (o = n /\ i = Len(exec[n]) + 1)
  <2> SUFFICES ASSUME NEW o \in Node
               PROVE  /\ Len(exec'[o]) \in Nat
                      /\ \A i \in 1..Len(exec[o]) : exec'[o][i] = exec[o][i]
                      /\ \A i \in 1..Len(exec'[o]) :
                           i \in 1..Len(exec[o]) \/ (o = n /\ i = Len(exec[n]) + 1)
    OBVIOUS
  <2>1. CASE o # n
    <3>1. exec'[o] = exec[o]
      BY <1>1, <2>1
    <3>. QED
      BY <1>0, <3>1
  <2>2. CASE o = n
    <3>1. Len(exec[n]) \in Nat
      BY <1>0
    <3>. QED
      BY <1>1, <2>2, <3>1, SMT
  <2>. QED
    BY <2>1, <2>2
<1>2. \A o \in Node : \A i \in 1..Len(exec'[o]) : \A j \in 1..Len(log) :
        ForwardedFrom(o, exec[o][i], j)' <=> ForwardedFrom(o, exec'[o][i], j)
  BY DEF ForwardedFrom, CarriedBy
<1>3. \A o \in Node : boot'[o] <= Len(exec'[o])
  <2> SUFFICES ASSUME NEW o \in Node PROVE boot[o] <= Len(exec'[o])
    OBVIOUS
  <2>1. boot[o] \in Nat /\ Len(exec[o]) \in Nat /\ boot[o] <= Len(exec[o])
    BY <1>0 DEF ForwardedInv
  <2>2. Len(exec'[o]) = Len(exec[o]) \/ Len(exec'[o]) = Len(exec[o]) + 1
    BY <1>1
  <2>. QED
    BY <2>1, <2>2
<1>4. ASSUME NEW o \in Node, NEW i \in 1..Len(exec'[o]), exec'[o][i].via = "forwarder"
      PROVE  \E j \in 1..Len(log) : /\ ForwardedFrom(o, exec'[o][i], j)
                                    /\ i > boot[o] => j <= Taken(o)'
  <2>1. CASE i \in 1..Len(exec[o])
    <3>1. exec'[o][i] = exec[o][i]
      BY <1>1a, <2>1
    <3>2. PICK j \in 1..Len(log) : /\ ForwardedFrom(o, exec[o][i], j)
                                   /\ i > boot[o] => j <= Taken(o)
      BY <1>4, <2>1, <3>1 DEF ForwardedInv, Taken
    <3>3. i > boot[o] => j <= Taken(o)'
      BY <1>0, <3>2
    <3>. QED
      BY <3>1, <3>2, <3>3
  <2>2. CASE o = n /\ i = Len(exec[n]) + 1
    <3>1. exec'[o][i] = x /\ via = "forwarder"
      BY <1>1, <1>4, <2>2, SMT DEF x
    <3>2. PICK j \in 1..Len(log) :
            j <= Taken(n)' /\ m = log[j].msg /\ by = log[j].by /\ log[j].origin # n
      BY <3>1
    <3>. QED
      BY <2>2, <3>1, <3>2, SMT DEF ForwardedFrom, CarriedBy, x
  <2>. QED
    BY <1>1a, <2>1, <2>2
<1>5. ASSUME NEW o \in Node, NEW i \in (boot[o] + 1)..Len(exec'[o]),
             NEW k \in (boot[o] + 1)..Len(exec'[o]),
             i < k, exec'[o][i].via = "forwarder", exec'[o][k].via = "forwarder"
      PROVE  \E a, b \in 1..Len(log) : /\ a < b
                                       /\ ForwardedFrom(o, exec'[o][i], a)
                                       /\ ForwardedFrom(o, exec'[o][k], b)
  <2>0. boot[o] \in Nat /\ Len(exec[o]) \in Nat /\ boot[o] <= Len(exec[o])
    BY <1>0 DEF ForwardedInv
  <2>1. CASE k \in 1..Len(exec[o])
    <3>1. i \in (boot[o] + 1)..Len(exec[o]) /\ k \in (boot[o] + 1)..Len(exec[o])
      BY <1>5, <2>0, <2>1
    <3>2. exec'[o][i] = exec[o][i] /\ exec'[o][k] = exec[o][k]
      <4>1. i \in 1..Len(exec[o]) /\ k \in 1..Len(exec[o])
        BY <2>0, <3>1
      <4>. QED
        BY <1>1a, <4>1
    <3>. QED
      BY <1>5, <3>1, <3>2 DEF ForwardedInv
  <2>2. CASE o = n /\ k = Len(exec[n]) + 1
    <3>1. exec'[o][k] = x /\ via = "forwarder"
      BY <1>1, <1>5, <2>2, SMT DEF x
    <3>2. PICK b \in 1..Len(log) :
            Taken(n) < b /\ m = log[b].msg /\ by = log[b].by /\ log[b].origin # n
      BY <3>1
    <3>3. i \in 1..Len(exec[n]) /\ i > boot[n]
      BY <1>5, <2>0, <2>2
    <3>4. exec'[n][i] = exec[n][i]
      BY <1>1, <3>3
    <3>5. PICK a \in 1..Len(log) : ForwardedFrom(n, exec[n][i], a) /\ a <= Taken(n)
      BY <1>5, <2>2, <3>3, <3>4 DEF ForwardedInv, Taken
    <3>6. a < b
      BY <1>0, <3>2, <3>5
    <3>7. ForwardedFrom(n, x, b)
      BY <3>2 DEF ForwardedFrom, CarriedBy, x
    <3>. QED
      BY <2>2, <3>1, <3>4, <3>5, <3>6, <3>7
  <2>3. k \in 1..Len(exec[o]) \/ (o = n /\ k = Len(exec[n]) + 1)
    <3>1. k \in 1..Len(exec'[o])
      BY <1>1a, <2>0, SMT
    <3>. QED
      BY <1>1a, <3>1
  <2>. QED
    BY <2>1, <2>2, <2>3
<1>6. log' = log /\ boot' = boot
  OBVIOUS
<1>7. \A o \in Node : \A i \in 1..Len(exec'[o]) :
        exec'[o][i].via = "forwarder" =>
          \E j \in 1..Len(log') : /\ ForwardedFrom(o, exec[o][i], j)'
                                  /\ i > boot'[o] => j <= Taken(o)'
  BY <1>2, <1>4, <1>6
<1>8. \A o \in Node : \A i, j \in (boot'[o] + 1)..Len(exec'[o]) :
        (i < j /\ exec'[o][i].via = "forwarder" /\ exec'[o][j].via = "forwarder") =>
          \E a, b \in 1..Len(log') : /\ a < b
                                     /\ ForwardedFrom(o, exec[o][i], a)'
                                     /\ ForwardedFrom(o, exec[o][j], b)'
  <2>1. \A o \in Node : \A i \in (boot[o] + 1)..Len(exec'[o]) : i \in 1..Len(exec'[o])
    BY <1>0, <1>1a, SMT
  <2>. QED
    BY <1>2, <1>5, <1>6, <2>1
<1>. QED
  BY <1>3, <1>7, <1>8, SMT DEF ForwardedInv, Taken

-----------------------------------------------------------------------------
(* Types are preserved.                                                   *)

(* SentInv depends on the connections' histories and on which handlers are *)
(* busy.                                                                   *)
LEMMA SentFrame ==
  ASSUME TypeInv, UNCHANGED sent,
         \A c \in Conn : pc'[c] \in Busy => pc[c] \in Busy
  PROVE  SentInv'
BY DEF TypeInv, SentInv, Cur

LEMMA SentAfterRead ==
  ASSUME TypeInv, NEW c \in Conn, NEW m \in Msg, ReadMessage(c, m),
         \A d \in Conn : d # c => pc'[d] = pc[d],
         pc'[c] \in Busy => m \in Writes
  PROVE  SentInv'
<1> USE DEF TypeInv
<1> SUFFICES ASSUME NEW d \in Conn
             PROVE  /\ \A i \in 1..Len(sent'[d]) : From[sent'[d][i]] = d
                    /\ pc'[d] \in Busy => Len(sent'[d]) > 0 /\ Cur(d)' \in Writes
  BY DEF SentInv, Writes, classify_message
<1>1. CASE d = c
  <2>1. From[m] = c
    BY DEF ReadMessage
  <2>2. Len(sent[c]) \in Nat
    BY LenProperties DEF TypeOK
  <2>3. /\ Len(sent'[c]) = Len(sent[c]) + 1
        /\ sent'[c][Len(sent[c]) + 1] = m
        /\ \A i \in 1..Len(sent[c]) : sent'[c][i] = sent[c][i] /\ From[sent[c][i]] = c
    BY ReadMessageFacts DEF SentInv
  <2>4. \A i \in 1..Len(sent'[c]) : From[sent'[c][i]] = c
    BY <2>1, <2>2, <2>3, SMT
  <2>5. Len(sent'[c]) > 0
    BY <2>2, <2>3
  <2>6. Cur(c)' = m
    BY ReadMessageFacts
  <2>. QED
    BY <1>1, <2>4, <2>5, <2>6
<1>2. CASE d # c
  <2>1. sent'[d] = sent[d] /\ pc'[d] = pc[d]
    BY <1>2, ReadMessageFacts
  <2>2. Cur(d)' = Cur(d)
    BY <2>1 DEF Cur
  <2>. QED
    BY <2>1, <2>2 DEF SentInv
<1>. QED
  BY <1>1, <1>2

(* Where a step of a handler leaves the types to its own variables.        *)
LEMMA HandlerFrame ==
  ASSUME TypeOK, UNCHANGED <<log, nodeVars, boot>>,
         pending' \subseteq Entry,
         pc' \in [Conn -> HandlerState],
         at' \in [Conn -> Node],
         sent' \in [Conn -> Seq(Msg)],
         http' \subseteq Entry,
         exec' \in [Node -> Seq(Execution)],
         UNCHANGED faults \/ Fault
  PROVE  TypeOK'
<1>1. faults' \in Nat
  BY SMT DEF TypeOK, Fault
<1>. QED
  BY <1>1 DEF TypeOK, nodeVars

LEMMA GotoFacts ==
  ASSUME TypeOK, NEW c \in Conn, NEW label \in HandlerState, Goto(c, label)
  PROVE  /\ pc' \in [Conn -> HandlerState]
         /\ pc'[c] = label
         /\ \A d \in Conn : d # c => pc'[d] = pc[d]
BY DEF TypeOK, Goto

(* A step that only moves the handler, and may count as a fault.           *)
LEMMA GotoStep ==
  ASSUME TypeInv, NEW c \in Conn, NEW label \in HandlerState, Goto(c, label),
         label \in Busy => pc[c] \in Busy,
         UNCHANGED <<log, pending, nodeVars, at, sent, http, exec, boot>>,
         UNCHANGED faults \/ Fault
  PROVE  TypeInv'
<1> USE DEF TypeInv
<1>1. /\ pc' \in [Conn -> HandlerState]
      /\ pc'[c] = label
      /\ \A d \in Conn : d # c => pc'[d] = pc[d]
  BY GotoFacts
<1>2. /\ pending' \subseteq Entry
      /\ at' \in [Conn -> Node]
      /\ sent' \in [Conn -> Seq(Msg)]
      /\ http' \subseteq Entry
      /\ exec' \in [Node -> Seq(Execution)]
  BY DEF TypeOK
<1>3. TypeOK'
  BY <1>1, <1>2, HandlerFrame
<1>4. \A d \in Conn : pc'[d] \in Busy => pc[d] \in Busy
  BY <1>1
<1>. QED
  BY <1>3, <1>4, SentFrame

(* A step that posts the current write, to this node's Raft or to l's.     *)
LEMMA PostStep ==
  ASSUME TypeInv, NEW c \in Conn, NEW l \in Node, NEW label \in {"local", "http"},
         pc[c] \in Busy, Goto(c, label),
         at' = [at EXCEPT ![c] = l],
         pending' \in {pending, pending \cup {Request(c, l)}},
         http' \in {http, http \cup {Request(c, l)}},
         UNCHANGED <<log, nodeVars, sent, exec, boot>>,
         UNCHANGED faults \/ Fault
  PROVE  TypeInv'
<1> USE DEF TypeInv
<1>1. Request(c, l) \in Entry
  BY RequestType
<1>2. /\ pending' \subseteq Entry
      /\ http' \subseteq Entry
  BY <1>1 DEF TypeOK
<1>3. /\ at' \in [Conn -> Node]
      /\ sent' \in [Conn -> Seq(Msg)]
      /\ exec' \in [Node -> Seq(Execution)]
  BY DEF TypeOK
<1>4. label \in HandlerState
  BY DEF HandlerState
<1>5. /\ pc' \in [Conn -> HandlerState]
      /\ \A d \in Conn : d # c => pc'[d] = pc[d]
  BY <1>4, GotoFacts
<1>6. TypeOK'
  BY <1>2, <1>3, <1>5, HandlerFrame
<1>7. \A d \in Conn : pc'[d] \in Busy => pc[d] \in Busy
  BY <1>5
<1>. QED
  BY <1>6, <1>7, SentFrame

(* A step of a node leaves the handlers, or at least what they have read,  *)
(* alone.                                                                  *)
LEMMA NodeFrame ==
  ASSUME TypeInv, UNCHANGED <<raftVars, connVars>>,
         applied' \in [Node -> Nat],
         chan' \in [Node -> Seq(Entry)],
         fwd' \in [Node -> ForwarderState],
         fwdDb' \in [Node -> Database \cup {NoPath}],
         dbPath' \in [Node -> Database \cup {NoPath}],
         down' \in [Node -> BOOLEAN],
         exec' \in [Node -> Seq(Execution)],
         UNCHANGED boot,
         UNCHANGED faults \/ Fault
  PROVE  TypeInv'
<1> USE DEF TypeInv
<1>1. faults' \in Nat
  BY SMT DEF TypeOK, Fault
<1>2. TypeOK'
  BY <1>1 DEF TypeOK, raftVars, connVars
<1>. QED
  BY <1>2, SentFrame DEF connVars

(* TypeInv is inductive; TypeOK alone is not, since a request carries the  *)
(* message its handler read last.                                          *)
LEMMA TypeInvStep == TypeInv /\ [Next]_vars => TypeInv'
<1> SUFFICES ASSUME TypeInv, [Next]_vars PROVE TypeInv'
  OBVIOUS
<1> USE DEF TypeInv, raftVars, histVars, NoFault
<1>1. ASSUME NEW c \in Conn, HandlerStep(c) PROVE TypeInv'
  <2>0. /\ "handshake" \in HandlerState \ Busy
        /\ "upstream" \in HandlerState \ Busy
        /\ "read" \in HandlerState \ Busy
        /\ "closed" \in HandlerState \ Busy
        /\ "propose" \in HandlerState
        /\ "send" \in HandlerState
    BY DEF HandlerState, Busy
  <2>1. CASE Accept(c)
    BY <2>0, <2>1, GotoStep DEF Accept
  <2>2. CASE Handshake(c)
    <3>1. /\ Goto(c, "upstream")
          /\ UNCHANGED <<log, pending, at, sent, http, exec, boot, faults>>
          /\ UNCHANGED <<applied, chan, fwd, fwdDb, down>>
      BY <2>2 DEF Handshake
    <3>2. dbPath' \in [Node -> Database \cup {NoPath}]
      BY <2>2, ConnFacts DEF TypeOK, Handshake
    <3>3. pc' \in [Conn -> HandlerState]
      BY <2>0, <3>1, GotoFacts
    <3>4. TypeOK'
      BY <3>1, <3>2, <3>3 DEF TypeOK
    <3>5. \A d \in Conn : pc'[d] \in Busy => pc[d] \in Busy
      BY <2>0, <3>1, GotoFacts
    <3>. QED
      BY <3>1, <3>4, <3>5, SentFrame
  <2>3. CASE ConnectUpstream(c)
    BY <2>0, <2>3, GotoStep DEF ConnectUpstream
  <2>4. CASE ConnectUpstreamFails(c)
    BY <2>0, <2>4, GotoStep DEF ConnectUpstreamFails
  <2>5. CASE ClientGone(c)
    BY <2>0, <2>5, GotoStep DEF ClientGone
  <2>6. ASSUME NEW m \in Msg, ReadWrite(c, m) PROVE TypeInv'
    <3>1. /\ ReadMessage(c, m) /\ m \in Writes
          /\ Goto(c, "propose")
          /\ UNCHANGED <<log, pending, nodeVars, exec, boot, faults, at, http>>
      BY <2>6 DEF ReadWrite, Writes
    <3>2. sent' \in [Conn -> Seq(Msg)]
      BY <3>1, ReadMessageFacts
    <3>3. /\ pc' \in [Conn -> HandlerState]
          /\ \A d \in Conn : d # c => pc'[d] = pc[d]
      BY <2>0, <3>1, GotoFacts
    <3>4. pending' \subseteq Entry /\ at' \in [Conn -> Node] /\ http' \subseteq Entry
          /\ exec' \in [Node -> Seq(Execution)]
      BY <3>1 DEF TypeOK
    <3>5. TypeOK'
      BY <3>1, <3>2, <3>3, <3>4, HandlerFrame
    <3>. QED
      BY <3>1, <3>3, <3>5, SentAfterRead
  <2>7. ASSUME NEW m \in Msg, ReadOther(c, m) PROVE TypeInv'
    <3>1. /\ ReadMessage(c, m) /\ Execute(Home[c], m, Home[c], Path[c], "client")
          /\ UNCHANGED <<log, pending, nodeVars, pc, at, http, boot, faults>>
      BY <2>7 DEF ReadOther
    <3>2. exec' \in [Node -> Seq(Execution)]
      BY <3>1, ConnFacts, ExecuteFacts
    <3>3. sent' \in [Conn -> Seq(Msg)]
      BY <3>1, ReadMessageFacts
    <3>4. pending' \subseteq Entry /\ at' \in [Conn -> Node] /\ http' \subseteq Entry
          /\ pc' \in [Conn -> HandlerState]
      BY <3>1 DEF TypeOK
    <3>5. TypeOK'
      BY <3>1, <3>2, <3>3, <3>4, HandlerFrame
    <3>6. pc' = pc /\ pc[c] \notin Busy
      BY <3>1, <2>0 DEF ReadMessage
    <3>. QED
      BY <3>1, <3>5, <3>6, SentAfterRead
  <2>8. ASSUME NEW m \in Msg, ReadOtherFails(c, m) PROVE TypeInv'
    <3>1. /\ ReadMessage(c, m) /\ Goto(c, "closed") /\ Fault
          /\ UNCHANGED <<log, pending, nodeVars, at, http, exec, boot>>
      BY <2>8 DEF ReadOtherFails
    <3>2. sent' \in [Conn -> Seq(Msg)]
      BY <3>1, ReadMessageFacts
    <3>3. /\ pc' \in [Conn -> HandlerState]
          /\ pc'[c] \notin Busy
          /\ \A d \in Conn : d # c => pc'[d] = pc[d]
      BY <2>0, <3>1, GotoFacts
    <3>4. pending' \subseteq Entry /\ at' \in [Conn -> Node] /\ http' \subseteq Entry
          /\ exec' \in [Node -> Seq(Execution)]
      BY <3>1 DEF TypeOK
    <3>5. TypeOK'
      BY <3>1, <3>2, <3>3, <3>4, HandlerFrame
    <3>. QED
      BY <3>1, <3>3, <3>5, SentAfterRead
  <2>9. CASE ProposeLocal(c)
    <3>1. pc[c] \in Busy /\ Home[c] \in Node
      BY <2>9, ConnFacts DEF ProposeLocal, Busy
    <3>. QED
      BY <2>9, <3>1, PostStep DEF ProposeLocal
  <2>10. CASE ProposeRefused(c)
    BY <2>0, <2>10, GotoStep DEF ProposeRefused
  <2>11. ASSUME NEW l \in Node, ProposeForward(c, l) PROVE TypeInv'
    <3>1. pc[c] \in Busy
      BY <2>11 DEF ProposeForward, Busy
    <3>. QED
      BY <2>11, <3>1, PostStep DEF ProposeForward, PostToLeader
  <2>12. ASSUME NEW l \in Node, Redirect(c, l) PROVE TypeInv'
    <3>1. pc[c] \in Busy
      BY <2>12 DEF Redirect, Busy
    <3>. QED
      BY <2>12, <3>1, PostStep DEF Redirect, PostToLeader
  <2>13. CASE CallOk(c)
    <3>1. pc[c] \in Busy
      BY <2>13 DEF CallOk, Busy
    <3>. QED
      BY <2>0, <2>13, <3>1, GotoStep DEF CallOk
  <2>14. CASE CallErr(c)
    BY <2>0, <2>14, GotoStep DEF CallErr
  <2>15. CASE ForwardUpstream(c)
    <3>1. /\ pc[c] \in Busy /\ Goto(c, "read")
          /\ Execute(Home[c], Cur(c), at[c], Path[c], "client")
          /\ UNCHANGED <<log, pending, nodeVars, at, sent, http, boot, faults>>
      BY <2>15 DEF ForwardUpstream, Busy
    <3>2. Cur(c) \in Msg /\ at[c] \in Node
      BY <3>1 DEF SentInv, TypeOK, Writes
    <3>3. exec' \in [Node -> Seq(Execution)]
      BY <3>1, <3>2, ConnFacts, ExecuteFacts
    <3>4. pending' \subseteq Entry /\ at' \in [Conn -> Node] /\ http' \subseteq Entry
          /\ sent' \in [Conn -> Seq(Msg)]
      BY <3>1 DEF TypeOK
    <3>5. /\ pc' \in [Conn -> HandlerState]
          /\ \A d \in Conn : pc'[d] \in Busy => pc[d] \in Busy
      BY <2>0, <3>1, GotoFacts
    <3>6. TypeOK'
      BY <3>1, <3>3, <3>4, <3>5, HandlerFrame
    <3>. QED
      BY <3>1, <3>5, <3>6, SentFrame
  <2>16. CASE ForwardUpstreamFails(c)
    BY <2>0, <2>16, GotoStep DEF ForwardUpstreamFails
  <2>. QED
    BY <1>1, <2>1, <2>2, <2>3, <2>4, <2>5, <2>6, <2>7, <2>8, <2>9, <2>10, <2>11,
       <2>12, <2>13, <2>14, <2>15, <2>16 DEF HandlerStep
<1>2. ASSUME NEW e \in http, HttpAccept(e) PROVE TypeInv'
  <2>1. TypeOK'
    BY <1>2 DEF TypeOK, HttpAccept, nodeVars
  <2>. QED
    BY <1>2, <2>1, SentFrame DEF HttpAccept
<1>3. ASSUME NEW e \in http, HttpReject(e) PROVE TypeInv'
  <2>1. e \in Entry
    BY DEF TypeOK
  <2>2. From[e.msg] \in Conn
    BY <2>1, EntryFacts
  <2>3. pc' \in [Conn -> HandlerState]
    BY <1>3, <2>2 DEF TypeOK, HandlerState, HttpReject
  <2>4. TypeOK'
    BY <1>3, <2>3 DEF TypeOK, HttpReject, nodeVars
  <2>5. \A c \in Conn : pc'[c] \in Busy => pc[c] \in Busy
    BY <1>3, <2>2 DEF TypeOK, HttpReject, Busy
  <2>. QED
    BY <1>3, <2>4, <2>5, SentFrame DEF HttpReject
<1>4. ASSUME NEW e \in pending, Commit(e) PROVE TypeInv'
  <2>1. log' \in Seq(Entry)
    BY <1>4, AppendProperties DEF TypeOK, Commit
  <2>2. TypeOK'
    BY <1>4, <2>1 DEF TypeOK, Commit, nodeVars, connVars
  <2>. QED
    BY <1>4, <2>2, SentFrame DEF Commit, connVars
<1>5. ASSUME NEW n \in Node, NodeStep(n) PROVE TypeInv'
  <2>0. /\ applied \in [Node -> Nat]
        /\ chan \in [Node -> Seq(Entry)]
        /\ fwd \in [Node -> ForwarderState]
        /\ fwdDb \in [Node -> Database \cup {NoPath}]
        /\ dbPath \in [Node -> Database \cup {NoPath}]
        /\ down \in [Node -> BOOLEAN]
        /\ exec \in [Node -> Seq(Execution)]
    BY DEF TypeOK
  <2>1. CASE Apply(n)
    <3>1. applied[n] < Len(log)
      BY <2>1 DEF Apply
    <3>2. log[applied[n] + 1] \in Entry
      BY <3>1, ElementOfSeq, SMT DEF TypeOK
    <3>3. Append(chan[n], log[applied[n] + 1]) \in Seq(Entry)
      BY <2>0, <3>2, AppendProperties
    <3>4. chan' \in [Node -> Seq(Entry)]
      BY <2>0, <2>1, <3>3 DEF Apply
    <3>5. applied' \in [Node -> Nat]
      BY <2>0, <2>1, SMT DEF Apply
    <3>. QED
      BY <2>0, <2>1, <3>4, <3>5, NodeFrame DEF Apply
  <2>2. CASE FwdLearnPath(n)
    <3>1. fwd' \in [Node -> ForwarderState] /\ fwdDb' \in [Node -> Database \cup {NoPath}]
      BY <2>0, <2>2 DEF ForwarderState, FwdLearnPath
    <3>. QED
      BY <2>0, <2>2, <3>1, NodeFrame DEF FwdLearnPath
  <2>3. CASE FwdConnect(n)
    <3>1. fwd' \in [Node -> ForwarderState]
      BY <2>0, <2>3 DEF ForwarderState, FwdConnect
    <3>. QED
      BY <2>0, <2>3, <3>1, NodeFrame DEF FwdConnect
  <2>4. CASE FwdSkip(n)
    <3>1. chan' \in [Node -> Seq(Entry)]
      BY <2>4, FwdRecvFacts DEF FwdSkip
    <3>. QED
      BY <2>0, <2>4, <3>1, NodeFrame DEF FwdSkip
  <2>5. CASE FwdSend(n)
    <3>1. /\ FwdRecv(n)
          /\ Execute(n, Head(chan[n]).msg, Head(chan[n]).by, fwdDb[n], "forwarder")
      BY <2>5 DEF FwdSend
    <3>2. Head(chan[n]).msg \in Msg /\ Head(chan[n]).by \in Node
      BY <3>1, FwdRecvFacts, EntryFacts
    <3>3. fwdDb[n] \in Database \cup {NoPath}
      BY <2>0
    <3>4. exec' \in [Node -> Seq(Execution)]
      BY <3>1, <3>2, <3>3, ExecuteFacts
    <3>5. chan' \in [Node -> Seq(Entry)]
      BY <3>1, FwdRecvFacts
    <3>. QED
      BY <2>0, <2>5, <3>4, <3>5, NodeFrame DEF FwdSend
  <2>6. CASE FwdSendFails(n)
    <3>1. chan' \in [Node -> Seq(Entry)]
      BY <2>6, FwdRecvFacts DEF FwdSendFails
    <3>2. fwd' \in [Node -> ForwarderState]
      BY <2>0, <2>6 DEF ForwarderState, FwdSendFails
    <3>. QED
      BY <2>0, <2>6, <3>1, <3>2, NodeFrame DEF FwdSendFails
  <2>7. CASE FwdStop(n)
    <3>1. fwd' \in [Node -> ForwarderState] /\ chan' \in [Node -> Seq(Entry)]
      BY <2>0, <2>7, SMT DEF ForwarderState, FwdStop
    <3>. QED
      BY <2>0, <2>7, <3>1, NodeFrame DEF FwdStop
  <2>8. CASE Shutdown(n)
    <3>1. down' \in [Node -> BOOLEAN]
      BY <2>0, <2>8 DEF Shutdown
    <3>. QED
      BY <2>0, <2>8, <3>1, NodeFrame DEF Shutdown
  <2>9. CASE SetForwarder(n)
    <3>1. fwd' \in [Node -> ForwarderState]
      BY <2>0, <2>9 DEF ForwarderState, SetForwarder
    <3>. QED
      BY <2>0, <2>9, <3>1, NodeFrame DEF SetForwarder
  <2>10. CASE Restart(n)
    <3>1. Len(exec[n]) \in Nat
      BY <2>0, LenProperties
    <3>2. boot' \in [Node -> Nat]
      BY <2>10, <3>1 DEF TypeOK, Restart
    <3>3. pc' \in [Conn -> HandlerState]
      BY <2>10 DEF TypeOK, Restart, HandlerState
    <3>4. fwd' \in [Node -> ForwarderState]
      BY <2>0, <2>10 DEF Restart, ForwarderState
    <3>5. down' \in [Node -> BOOLEAN] /\ faults' \in Nat
      BY <2>10, SMT DEF TypeOK, Restart, Fault
    <3>6. /\ applied' \in [Node -> Nat]
          /\ chan' \in [Node -> Seq(Entry)]
          /\ fwdDb' \in [Node -> Database \cup {NoPath}]
          /\ dbPath' \in [Node -> Database \cup {NoPath}]
      BY <2>0, <2>10, SMT DEF Restart
    <3>7. http' \subseteq Entry /\ UNCHANGED <<log, pending, at, sent, exec>>
      BY <2>10 DEF TypeOK, Restart
    <3>8. TypeOK'
      BY <3>2, <3>3, <3>4, <3>5, <3>6, <3>7 DEF TypeOK
    <3>9. \A c \in Conn : pc'[c] \in Busy => pc[c] \in Busy
      BY <2>10 DEF Restart, Busy
    <3>. QED
      BY <3>7, <3>8, <3>9, SentFrame
  <2>. QED
    BY <1>5, <2>1, <2>2, <2>3, <2>4, <2>5, <2>6, <2>7, <2>8, <2>9, <2>10 DEF NodeStep
<1>6. CASE UNCHANGED vars
  <2>1. TypeOK'
    BY <1>6 DEF TypeOK, vars
  <2>. QED
    BY <1>6, <2>1, SentFrame DEF vars
<1>. QED
  BY <1>1, <1>2, <1>3, <1>4, <1>5, <1>6 DEF Next

LEMMA TypeInvInit == Init => TypeInv
BY WritePathAssumption, SMT DEF Init, TypeInv, TypeOK, SentInv, Busy, HandlerState, ForwarderState

LEMMA TypeInvariance == Spec => []TypeInv
BY TypeInvInit, TypeInvStep, PTL DEF Spec

(* Every reachable state is well typed: handlers, forwarders, HTTP calls,  *)
(* restarts and the external log only ever hold values of their types; in  *)
(* particular only messages classified as writes are ever proposed.        *)
THEOREM TypeCorrect == Spec => []TypeOK
BY TypeInvariance, PTL DEF TypeInv

-----------------------------------------------------------------------------
(* The entries that the group may hold.                                    *)

WasSent(m) == \E i \in 1..Len(sent[From[m]]) : sent[From[m]][i] = m

Known(e) == e \in pending \/ e \in http \/ Committed(e)

(* Nothing is known before anything is proposed.                           *)
LEMMA NothingKnown ==
  ASSUME Len(log) = 0, pending = {}, http = {}
  PROVE  \A e \in Entry : ~Known(e)
<1>1. 1..Len(log) = {}
  OBVIOUS
<1>. QED
  BY <1>1, Zenon DEF Known, Committed

(* Every entry was read by the handler of its message's connection, is     *)
(* in one place only, and is in the log at most once; a handler about to   *)
(* propose has no entry yet, and one waiting for its own node's            *)
(* client_write has no entry elsewhere.                                    *)
EntryInv ==
  /\ \A e \in Entry : Known(e) => e.origin = Home[From[e.msg]] /\ WasSent(e.msg)
  /\ \A i, j \in 1..Len(log) : log[i] = log[j] => i = j
  /\ \A e \in Entry : /\ ~(e \in pending /\ e \in http)
                      /\ ~(e \in pending /\ Committed(e))
                      /\ ~(e \in http /\ Committed(e))
  /\ \A c \in Conn : pc[c] = "propose" =>
       \A e \in Entry : Known(e) => e.msg # Cur(c)
  /\ \A c \in Conn : pc[c] = "local" =>
       \A e \in Entry : (Known(e) /\ e.msg = Cur(c)) => e.by = Home[c]

LEMMA EntryInvInit == Init => EntryInv
<1> SUFFICES ASSUME Init PROVE EntryInv
  OBVIOUS
<1>1. /\ Len(log) = 0 /\ pending = {} /\ http = {}
      /\ \A c \in Conn : pc[c] = "new"
  BY EmptySeq DEF Init
<1>2. \A e \in Entry : ~Known(e)
  BY <1>1, NothingKnown
<1>. QED
  BY <1>1, <1>2 DEF EntryInv, Known

(* EntryInv survives a step that proposes and commits nothing.             *)
LEMMA EntryFrame ==
  ASSUME EntryInv, UNCHANGED <<log, pending, sent>>, http' \subseteq http,
         \A c \in Conn : pc'[c] = pc[c] \/ pc'[c] \notin {"propose", "local"}
  PROVE  EntryInv'
<1>1. \A e \in Entry : Known(e)' => Known(e)
  BY DEF Known, Committed
<1>2. \A e \in Entry : WasSent(e.msg)' <=> WasSent(e.msg)
  BY DEF WasSent
<1>3. \A c \in Conn : Cur(c)' = Cur(c)
  BY DEF Cur
<1>4. \A e \in Entry : Committed(e)' <=> Committed(e)
  BY DEF Committed
<1>. QED
  BY <1>1, <1>2, <1>3, <1>4, SMT DEF EntryInv

(* A message is read only once, so nothing that exists carries it.         *)
LEMMA EntryAfterRead ==
  ASSUME TypeInv, EntryInv, NEW c \in Conn, NEW m \in Msg, ReadMessage(c, m),
         UNCHANGED <<log, pending, http>>,
         \A d \in Conn : d # c => pc'[d] = pc[d],
         pc'[c] # "local"
  PROVE  EntryInv'
<1>1. \A e \in Entry : Known(e)' <=> Known(e)
  BY DEF Known, Committed
<1>2. \A e \in Entry : WasSent(e.msg) => WasSent(e.msg)'
  <2> SUFFICES ASSUME NEW e \in Entry, WasSent(e.msg) PROVE WasSent(e.msg)'
    OBVIOUS
  <2>1. From[e.msg] \in Conn
    BY EntryFacts
  <2>2. PICK i \in 1..Len(sent[From[e.msg]]) : sent[From[e.msg]][i] = e.msg
    BY DEF WasSent
  <2>3. Len(sent[c]) \in Nat
    BY LenProperties, Types
  <2>4. i \in 1..Len(sent'[From[e.msg]]) /\ sent'[From[e.msg]][i] = e.msg
    BY <2>1, <2>2, <2>3, ReadMessageFacts, TypeOKHolds, SMT
  <2>. QED
    BY <2>4 DEF WasSent
<1>3. \A e \in Entry : Known(e) => e.msg # m
  BY SMT DEF EntryInv, WasSent, ReadMessage
<1>4. Cur(c)' = m /\ \A d \in Conn : d # c => Cur(d)' = Cur(d)
  BY ReadMessageFacts, TypeOKHolds DEF Cur
<1>5. \A e \in Entry : Committed(e)' <=> Committed(e)
  BY DEF Committed
<1>. QED
  BY <1>1, <1>2, <1>3, <1>4, <1>5, SMT DEF EntryInv

(* A new request of a busy handler is a new entry.                         *)
LEMMA EntryAfterPropose ==
  ASSUME TypeInv, EntryInv, NEW c \in Conn, NEW l \in Node, pc[c] \in Busy,
         ~Known(Request(c, l)),
         \/ pending' = pending \cup {Request(c, l)} /\ UNCHANGED http
         \/ http' = http \cup {Request(c, l)} /\ UNCHANGED pending,
         UNCHANGED <<log, sent>>,
         \A d \in Conn : d # c => pc'[d] = pc[d],
         pc'[c] # "propose",
         pc'[c] = "local" => l = Home[c] /\ \A e \in Entry : Known(e) => e.msg # Cur(c)
  PROVE  EntryInv'
<1> DEFINE r == Request(c, l)
<1>1. r \in Entry /\ r.msg = Cur(c) /\ r.origin = Home[c] /\ r.by = l
  BY RequestType DEF Request
<1>2. From[Cur(c)] = c /\ WasSent(Cur(c))
  <2>1. Len(sent[c]) > 0 /\ Len(sent[c]) \in Nat
    BY LenProperties, Types, SentFacts
  <2>. QED
    BY <2>1, SentFacts, SMT DEF WasSent, Cur
<1>3. \A e \in Entry : Known(e)' <=> (Known(e) \/ e = r)
  BY <1>1 DEF Known, Committed
<1>4. \A e \in Entry : WasSent(e.msg)' <=> WasSent(e.msg)
  BY DEF WasSent
<1>5. \A d \in Conn : Cur(d)' = Cur(d)
  BY DEF Cur
<1>6. \A e \in Entry : Committed(e)' <=> Committed(e)
  BY DEF Committed
<1>7. \A d \in Conn : d # c /\ pc[d] \in {"propose", "local"} => Cur(d) # Cur(c)
  <2> SUFFICES ASSUME NEW d \in Conn, d # c, pc[d] \in {"propose", "local"}
               PROVE  From[Cur(d)] = d
    BY <1>2
  <2>1. Len(sent[d]) > 0 /\ Len(sent[d]) \in Nat
    BY LenProperties, Types, SentFacts DEF Busy
  <2>. QED
    BY <2>1, SentFacts, SMT DEF Cur
<1>8. \A e \in Entry : Known(e)' => e.origin = Home[From[e.msg]] /\ WasSent(e.msg)'
  BY <1>1, <1>2, <1>3, <1>4 DEF EntryInv
<1>9. \A e \in Entry : /\ ~(e \in pending' /\ e \in http')
                       /\ ~(e \in pending' /\ Committed(e)')
                       /\ ~(e \in http' /\ Committed(e)')
  BY <1>1, <1>6, SMT DEF EntryInv, Known
<1>10. \A d \in Conn : pc'[d] = "propose" =>
         \A e \in Entry : Known(e)' => e.msg # Cur(d)'
  BY <1>1, <1>3, <1>5, <1>7, SMT DEF EntryInv
<1>11. \A d \in Conn : pc'[d] = "local" =>
         \A e \in Entry : (Known(e)' /\ e.msg = Cur(d)') => e.by = Home[d]
  BY <1>1, <1>3, <1>5, <1>7, SMT DEF EntryInv
<1>. QED
  BY <1>8, <1>9, <1>10, <1>11 DEF EntryInv

(* Moving an entry on changes neither its message nor who knows it.        *)
LEMMA EntryAfterMove ==
  ASSUME TypeInv, EntryInv, NEW e \in Entry, UNCHANGED <<pc, sent>>,
         \/ /\ e \in http /\ http' = http \ {e}
            /\ pending' = pending \cup {e} /\ UNCHANGED log
         \/ /\ e \in pending /\ pending' = pending \ {e}
            /\ log' = Append(log, e) /\ UNCHANGED http
  PROVE  EntryInv'
<1>1. /\ \A x \in Entry : Known(x)' <=> Known(x)
      /\ \A i, j \in 1..Len(log') : log'[i] = log'[j] => i = j
      /\ \A x \in Entry : /\ ~(x \in pending' /\ x \in http')
                          /\ ~(x \in pending' /\ Committed(x)')
                          /\ ~(x \in http' /\ Committed(x)')
  <2>1. CASE /\ e \in http /\ http' = http \ {e}
             /\ pending' = pending \cup {e} /\ UNCHANGED log
    <3>1. \A x \in Entry : Committed(x)' <=> Committed(x)
      BY <2>1 DEF Committed
    <3>. QED
      BY <2>1, <3>1 DEF EntryInv, Known
  <2>2. CASE /\ e \in pending /\ pending' = pending \ {e}
             /\ log' = Append(log, e) /\ UNCHANGED http
    <3>1. /\ Len(log) \in Nat /\ Len(log') = Len(log) + 1
          /\ log'[Len(log) + 1] = e
          /\ \A i \in 1..Len(log) : log'[i] = log[i]
      BY <2>2, AppendProperties, LenProperties, Types, SMT
    <3>2. \A x \in Entry : Committed(x)' <=> (Committed(x) \/ x = e)
      BY <3>1, SMT DEF Committed
    <3>3. \A i, j \in 1..Len(log') : log'[i] = log'[j] => i = j
      <4>1. \A i \in 1..Len(log) : log[i] # e
        BY <2>2 DEF EntryInv, Committed
      <4>. QED
        BY <3>1, <4>1, SMT DEF EntryInv
    <3>. QED
      BY <2>2, <3>2, <3>3 DEF EntryInv, Known
  <2>. QED
    BY <2>1, <2>2
<1>2. \A x \in Entry : WasSent(x.msg)' <=> WasSent(x.msg)
  BY DEF WasSent
<1>3. \A d \in Conn : Cur(d)' = Cur(d)
  BY DEF Cur
<1>. QED
  BY <1>1, <1>2, <1>3, SMT DEF EntryInv

LEMMA EntryInvStep == TypeInv /\ EntryInv /\ [Next]_vars => EntryInv'
<1> SUFFICES ASSUME TypeInv, EntryInv, [Next]_vars PROVE EntryInv'
  OBVIOUS
<1> USE DEF raftVars, nodeVars, connVars, histVars, Goto
<1>0. pc \in [Conn -> HandlerState]
  BY Types
<1>1. ASSUME NEW c \in Conn, HandlerStep(c) PROVE EntryInv'
  <2>1. CASE Accept(c) \/ Handshake(c) \/ ConnectUpstream(c) \/ ConnectUpstreamFails(c)
             \/ ClientGone(c)
    BY <2>1, <1>0, EntryFrame DEF Accept, Handshake, ConnectUpstream,
       ConnectUpstreamFails, ClientGone
  <2>2. CASE ProposeRefused(c) \/ CallOk(c) \/ CallErr(c) \/ ForwardUpstream(c)
             \/ ForwardUpstreamFails(c)
    BY <2>2, <1>0, EntryFrame DEF ProposeRefused, CallOk, CallErr, ForwardUpstream,
       ForwardUpstreamFails
  <2>3. ASSUME NEW m \in Msg, ReadWrite(c, m) \/ ReadOther(c, m) \/ ReadOtherFails(c, m)
        PROVE  EntryInv'
    <3>1. /\ ReadMessage(c, m)
          /\ UNCHANGED <<log, pending, http>>
          /\ \A d \in Conn : d # c => pc'[d] = pc[d]
          /\ pc'[c] # "local"
      BY <2>3, <1>0, ZenonT(30) DEF ReadWrite, ReadOther, ReadOtherFails, ReadMessage
    <3>. QED
      BY <3>1, EntryAfterRead
  <2>4. CASE ProposeLocal(c)
    <3>1. pc[c] = "propose" /\ pc[c] \in Busy
      BY <2>4 DEF ProposeLocal, Busy
    <3>2. Home[c] \in Node
      BY ConnFacts
    <3>3. Request(c, Home[c]) \in Entry /\ Request(c, Home[c]).msg = Cur(c)
      BY <3>1, <3>2, RequestType DEF Request
    <3>4. ~Known(Request(c, Home[c])) /\ \A e \in Entry : Known(e) => e.msg # Cur(c)
      BY <3>1, <3>3 DEF EntryInv
    <3>5. /\ pending' = pending \cup {Request(c, Home[c])} /\ UNCHANGED http
          /\ UNCHANGED <<log, sent>>
          /\ \A d \in Conn : d # c => pc'[d] = pc[d]
          /\ pc'[c] # "propose"
      BY <2>4, <1>0 DEF ProposeLocal
    <3>. QED
      BY <3>1, <3>2, <3>4, <3>5, EntryAfterPropose
  <2>5. ASSUME NEW l \in Node, ProposeForward(c, l) \/ Redirect(c, l) PROVE EntryInv'
    <3>1. pc[c] \in {"propose", "local"} /\ pc[c] \in Busy /\ l # Home[c]
      BY <2>5 DEF ProposeForward, Redirect, PostToLeader, Busy
    <3>2. /\ Request(c, l) \in Entry /\ Request(c, l).msg = Cur(c)
          /\ Request(c, l).by = l
      BY <3>1, RequestType DEF Request
    <3>3. ~Known(Request(c, l))
      BY <3>1, <3>2 DEF EntryInv
    <3>4. /\ http' = http \cup {Request(c, l)} /\ UNCHANGED pending
          /\ UNCHANGED <<log, sent>>
          /\ \A d \in Conn : d # c => pc'[d] = pc[d]
          /\ pc'[c] # "propose" /\ pc'[c] # "local"
      BY <2>5, <1>0 DEF ProposeForward, Redirect, PostToLeader
    <3>. QED
      BY <3>1, <3>3, <3>4, EntryAfterPropose
  <2>. QED
    BY <1>1, <2>1, <2>2, <2>3, <2>4, <2>5 DEF HandlerStep
<1>2. ASSUME NEW e \in http, HttpAccept(e) PROVE EntryInv'
  <2>1. e \in Entry
    BY Types
  <2>. QED
    BY <1>2, <2>1, EntryAfterMove DEF HttpAccept
<1>3. ASSUME NEW e \in http, HttpReject(e) PROVE EntryInv'
  <2>1. e \in Entry
    BY Types
  <2>2. /\ UNCHANGED <<log, pending, sent>> /\ http' \subseteq http
        /\ \A c \in Conn : pc'[c] = pc[c] \/ pc'[c] \notin {"propose", "local"}
    BY <1>3, <1>0, <2>1, EntryFacts DEF HttpReject
  <2>. QED
    BY <2>2, EntryFrame
<1>4. ASSUME NEW e \in pending, Commit(e) PROVE EntryInv'
  <2>1. e \in Entry
    BY Types
  <2>. QED
    BY <1>4, <2>1, EntryAfterMove DEF Commit
<1>5. ASSUME NEW n \in Node, NodeStep(n) PROVE EntryInv'
  <2>1. /\ UNCHANGED <<log, pending, sent>> /\ http' \subseteq http
        /\ \A c \in Conn : pc'[c] = pc[c] \/ pc'[c] \notin {"propose", "local"}
    BY <1>5 DEF NodeStep, Apply, FwdLearnPath, FwdConnect, FwdSkip, FwdSend,
       FwdSendFails, FwdStop, Shutdown, Restart, SetForwarder
  <2>. QED
    BY <2>1, EntryFrame
<1>6. CASE UNCHANGED vars
  BY <1>6, EntryFrame DEF vars
<1>. QED
  BY <1>1, <1>2, <1>3, <1>4, <1>5, <1>6 DEF Next

-----------------------------------------------------------------------------
(* The channels.                                                           *)

(* A channel holds a segment of the log that ends at the last applied      *)
(* entry, and holds nothing while no forwarder task would read it.         *)
ChanInv ==
  \A n \in Node :
    /\ Len(chan[n]) <= applied[n]
    /\ applied[n] <= Len(log)
    /\ fwd[n] \in {"unset", "stopped"} => Len(chan[n]) = 0
    /\ \A i \in 1..Len(chan[n]) : chan[n][i] = log[applied[n] - Len(chan[n]) + i]

LEMMA ChanInvInit == Init => ChanInv
<1> SUFFICES ASSUME Init PROVE ChanInv
  OBVIOUS
<1>1. \A n \in Node : Len(chan[n]) = 0 /\ applied[n] = 0 /\ Len(log) = 0
  BY EmptySeq DEF Init
<1>. QED
  BY <1>1 DEF ChanInv

(* Arithmetic of a segment's position.                                     *)
LEMMA Shift ==
  ASSUME NEW a \in Nat, NEW k \in Nat, NEW i \in Nat
  PROVE  /\ (a + 1) - (k + 1) + i = a - k + i
         /\ a - k + (i + 1) = a - (k - 1) + i
         /\ a - k + (k + 1) = a + 1
OBVIOUS

(* Committing appends to the log.                                          *)
LEMMA CommitFacts ==
  ASSUME TypeInv, NEW e \in pending, Commit(e)
  PROVE  /\ e \in Entry
         /\ Len(log) \in Nat /\ Len(log') = Len(log) + 1
         /\ log'[Len(log) + 1] = e
         /\ \A i \in 1..Len(log) : log'[i] = log[i]
BY AppendProperties, LenProperties, Types, SMT DEF Commit

(* Applying an entry queues it for the forwarder, if there is one.         *)
LEMMA ApplyFacts ==
  ASSUME TypeInv, NEW n \in Node, Apply(n)
  PROVE  /\ applied[n] < Len(log)
         /\ applied'[n] = applied[n] + 1
         /\ \A o \in Node : o # n => applied'[o] = applied[o] /\ chan'[o] = chan[o]
         /\ fwd[n] \in {"unset", "stopped"} => chan'[n] = chan[n]
         /\ fwd[n] \notin {"unset", "stopped"} =>
              /\ Len(chan'[n]) = Len(chan[n]) + 1
              /\ chan'[n][Len(chan[n]) + 1] = log[applied[n] + 1]
              /\ \A i \in 1..Len(chan[n]) : chan'[n][i] = chan[n][i]
<1>1. applied[n] < Len(log) /\ applied[n] \in Nat /\ chan[n] \in Seq(Entry)
  BY Types DEF Apply
<1>2. log[applied[n] + 1] \in Entry
  BY <1>1, ElementOfSeq, Types, SMT
<1>3. \/ fwd[n] \in {"unset", "stopped"} /\ chan' = chan
      \/ fwd[n] \notin {"unset", "stopped"} /\ chan' = [chan EXCEPT ![n] = Append(chan[n], log[applied[n] + 1])]
  BY DEF Apply
<1>4. /\ applied'[n] = applied[n] + 1
      /\ \A o \in Node : o # n => applied'[o] = applied[o] /\ chan'[o] = chan[o]
  BY <1>3, Types DEF Apply
<1>5. CASE fwd[n] \in {"unset", "stopped"} /\ chan' = chan
  BY <1>1, <1>4, <1>5
<1>6. CASE /\ fwd[n] \notin {"unset", "stopped"}
           /\ chan' = [chan EXCEPT ![n] = Append(chan[n], log[applied[n] + 1])]
  <2>1. chan'[n] = Append(chan[n], log[applied[n] + 1])
    BY <1>6, Types
  <2>. QED
    BY <1>1, <1>2, <1>4, <1>6, <2>1, AppendProperties, SMT
<1>. QED
  BY <1>3, <1>5, <1>6

LEMMA ChanFrame ==
  ASSUME ChanInv, UNCHANGED <<log, applied, chan>>,
         \A n \in Node : fwd'[n] \in {"unset", "stopped"} => fwd[n] \in {"unset", "stopped"}
  PROVE  ChanInv'
BY DEF ChanInv

(* What no step of a handler changes; only two of them execute anything.   *)
LEMMA HandlerQuiet ==
  ASSUME NEW c \in Conn, HandlerStep(c)
  PROVE  /\ UNCHANGED <<log, applied, chan, fwd, boot>>
         /\ \/ UNCHANGED exec
            \/ ForwardUpstream(c)
            \/ \E m \in Msg : ReadOther(c, m)
<1> USE DEF raftVars, nodeVars, histVars
<1>1. CASE Accept(c) \/ Handshake(c) \/ ConnectUpstream(c) \/ ConnectUpstreamFails(c)
           \/ ClientGone(c)
  BY <1>1 DEF Accept, Handshake, ConnectUpstream, ConnectUpstreamFails, ClientGone
<1>2. CASE ProposeLocal(c) \/ ProposeRefused(c) \/ CallOk(c) \/ CallErr(c)
           \/ ForwardUpstreamFails(c)
  BY <1>2 DEF ProposeLocal, ProposeRefused, CallOk, CallErr, ForwardUpstreamFails
<1>3. CASE ForwardUpstream(c)
  BY <1>3 DEF ForwardUpstream
<1>4. ASSUME NEW m \in Msg, ReadWrite(c, m) \/ ReadOtherFails(c, m)
      PROVE  UNCHANGED <<log, applied, chan, fwd, boot, exec>>
  BY <1>4 DEF ReadWrite, ReadOtherFails
<1>5. ASSUME NEW m \in Msg, ReadOther(c, m)
      PROVE  UNCHANGED <<log, applied, chan, fwd, boot>>
  BY <1>5 DEF ReadOther
<1>6. ASSUME NEW l \in Node, ProposeForward(c, l) \/ Redirect(c, l)
      PROVE  UNCHANGED <<log, applied, chan, fwd, boot, exec>>
  BY <1>6 DEF ProposeForward, Redirect
<1>. QED
  BY <1>1, <1>2, <1>3, <1>4, <1>5, <1>6 DEF HandlerStep

LEMMA ChanInvStep == TypeInv /\ ChanInv /\ [Next]_vars => ChanInv'
<1> SUFFICES ASSUME TypeInv, ChanInv, [Next]_vars PROVE ChanInv'
  OBVIOUS
<1> USE DEF raftVars, nodeVars, connVars, histVars
<1>0. /\ fwd \in [Node -> ForwarderState] /\ chan \in [Node -> Seq(Entry)]
      /\ applied \in [Node -> Nat] /\ Len(log) \in Nat
      /\ \A n \in Node : Len(chan[n]) \in Nat /\ applied[n] \in Nat
  BY LenProperties, Types
<1>1. ASSUME NEW c \in Conn, HandlerStep(c) PROVE ChanInv'
  <2>1. UNCHANGED <<log, applied, chan, fwd>>
    BY <1>1, HandlerQuiet
  <2>. QED
    BY <2>1, ChanFrame
<1>2. ASSUME NEW e \in http, HttpAccept(e) \/ HttpReject(e) PROVE ChanInv'
  BY <1>2, ChanFrame DEF HttpAccept, HttpReject
<1>3. ASSUME NEW e \in pending, Commit(e) PROVE ChanInv'
  <2>1. UNCHANGED <<applied, chan, fwd>>
    BY <1>3 DEF Commit
  <2>. QED
    <3> SUFFICES ASSUME NEW n \in Node
                 PROVE  /\ applied[n] <= Len(log')
                        /\ \A i \in 1..Len(chan[n]) :
                             chan[n][i] = log'[applied[n] - Len(chan[n]) + i]
      BY <2>1 DEF ChanInv
    <3>1. /\ Len(chan[n]) <= applied[n] /\ applied[n] <= Len(log)
          /\ Len(chan[n]) \in Nat /\ applied[n] \in Nat
      BY <1>0 DEF ChanInv
    <3>2. \A i \in 1..Len(chan[n]) : applied[n] - Len(chan[n]) + i \in 1..Len(log)
      BY <1>0, <3>1
    <3>3. Len(log) <= Len(log') /\ \A i \in 1..Len(log) : log'[i] = log[i]
      BY <1>0, <1>3, CommitFacts
    <3>4. applied[n] <= Len(log')
      BY <1>0, <3>1, <3>3
    <3>5. ASSUME NEW i \in 1..Len(chan[n])
          PROVE  chan[n][i] = log'[applied[n] - Len(chan[n]) + i]
      <4>1. chan[n][i] = log[applied[n] - Len(chan[n]) + i]
        BY DEF ChanInv
      <4>2. applied[n] - Len(chan[n]) + i \in 1..Len(log)
        BY <3>2
      <4>. QED
        BY <3>3, <4>1, <4>2
    <3>. QED
      BY <3>4, <3>5
<1>4. ASSUME NEW n \in Node, NodeStep(n) PROVE ChanInv'
  <2>1. CASE Apply(n)
    <3>1. UNCHANGED <<log, fwd>>
      BY <2>1 DEF Apply
    <3> SUFFICES ASSUME NEW o \in Node
                 PROVE  /\ Len(chan'[o]) <= applied'[o]
                        /\ applied'[o] <= Len(log)
                        /\ fwd[o] \in {"unset", "stopped"} => Len(chan'[o]) = 0
                        /\ \A i \in 1..Len(chan'[o]) :
                             chan'[o][i] = log[applied'[o] - Len(chan'[o]) + i]
      BY <3>1 DEF ChanInv
    <3>2. CASE o # n
      BY <2>1, <3>2, ApplyFacts, SMT DEF ChanInv
    <3>3. CASE o = n /\ fwd[n] \in {"unset", "stopped"} /\ chan'[n] = chan[n]
      BY <1>0, <2>1, <3>3, ApplyFacts, SMT DEF ChanInv
    <3>4. CASE /\ o = n
               /\ fwd[n] \notin {"unset", "stopped"}
      <4>1. /\ Len(chan'[n]) = Len(chan[n]) + 1
            /\ chan'[n][Len(chan[n]) + 1] = log[applied[n] + 1]
            /\ \A i \in 1..Len(chan[n]) : chan'[n][i] = chan[n][i]
            /\ applied'[n] = applied[n] + 1 /\ applied[n] < Len(log)
        BY <2>1, <3>4, ApplyFacts
      <4>2. \A i \in 1..Len(chan'[n]) : chan'[n][i] = log[applied'[n] - Len(chan'[n]) + i]
        <5> SUFFICES ASSUME NEW i \in 1..Len(chan'[n])
                     PROVE  chan'[n][i] = log[applied'[n] - Len(chan'[n]) + i]
          OBVIOUS
        <5>a. Len(chan[n]) \in Nat /\ applied[n] \in Nat /\ i \in Nat
          BY <1>0, <4>1, SMT
        <5>b. applied'[n] - Len(chan'[n]) + i = applied[n] - Len(chan[n]) + i
          <6>1. (applied[n] + 1) - (Len(chan[n]) + 1) + i = applied[n] - Len(chan[n]) + i
            BY <5>a, Shift
          <6>. QED
            BY <4>1, <6>1
        <5>1. CASE i = Len(chan[n]) + 1
          <6>1. applied[n] - Len(chan[n]) + i = applied[n] + 1
            BY <5>a, <5>1, Shift
          <6>. QED
            BY <4>1, <5>1, <5>b, <6>1
        <5>2. CASE i \in 1..Len(chan[n])
          BY <4>1, <5>2, <5>b DEF ChanInv
        <5>. QED
          BY <4>1, <5>a, <5>1, <5>2, SMT
      <4>. QED
        BY <1>0, <3>4, <4>1, <4>2, SMT DEF ChanInv
    <3>. QED
      BY <2>1, <3>2, <3>3, <3>4, ApplyFacts
  <2>2. CASE FwdLearnPath(n) \/ FwdConnect(n) \/ SetForwarder(n) \/ Shutdown(n)
    BY <1>0, <2>2, ChanFrame DEF FwdLearnPath, FwdConnect, SetForwarder, Shutdown
  <2>3. CASE FwdSkip(n) \/ FwdSend(n) \/ FwdSendFails(n)
    <3>1. /\ FwdRecv(n) /\ UNCHANGED <<log, applied>>
          /\ fwd[n] = "connected"
          /\ fwd'[n] \in {"connected", "connecting"}
          /\ \A o \in Node : o # n => fwd'[o] = fwd[o]
      BY <1>0, <2>3 DEF FwdSkip, FwdSend, FwdSendFails, FwdRecv
    <3>2. /\ Len(chan[n]) > 0 /\ Len(chan'[n]) = Len(chan[n]) - 1
          /\ \A i \in 1..Len(chan'[n]) : chan'[n][i] = chan[n][i + 1]
          /\ \A o \in Node : o # n => chan'[o] = chan[o]
      BY <3>1, FwdRecvFacts, TypeOKHolds
    <3> SUFFICES ASSUME NEW o \in Node
                 PROVE  /\ Len(chan'[o]) <= applied[o]
                        /\ applied[o] <= Len(log)
                        /\ fwd'[o] \in {"unset", "stopped"} => Len(chan'[o]) = 0
                        /\ \A i \in 1..Len(chan'[o]) :
                             chan'[o][i] = log[applied[o] - Len(chan'[o]) + i]
      BY <3>1 DEF ChanInv
    <3>3. CASE o # n
      BY <3>1, <3>2, <3>3, SMT DEF ChanInv
    <3>4. CASE o = n
      <4>1. \A i \in 1..Len(chan'[n]) : chan'[n][i] = log[applied[n] - Len(chan'[n]) + i]
        <5> SUFFICES ASSUME NEW i \in 1..Len(chan'[n])
                     PROVE  chan'[n][i] = log[applied[n] - Len(chan'[n]) + i]
          OBVIOUS
        <5>1. i + 1 \in 1..Len(chan[n])
          BY <1>0, <3>2, SMT
        <5>a. Len(chan[n]) \in Nat /\ applied[n] \in Nat /\ i \in Nat
          BY <1>0, <3>2, SMT
        <5>b. Len(chan'[n]) = Len(chan[n]) - 1
          BY <3>2
        <5>c. applied[n] - Len(chan[n]) + (i + 1) = applied[n] - (Len(chan[n]) - 1) + i
          BY <5>a, Shift
        <5>2. applied[n] - Len(chan[n]) + (i + 1) = applied[n] - Len(chan'[n]) + i
          BY <5>b, <5>c, Zenon
        <5>. QED
          BY <3>2, <5>1, <5>2 DEF ChanInv
      <4>2. Len(chan'[n]) <= applied[n] /\ applied[n] <= Len(log)
        <5>1. /\ Len(chan[n]) \in Nat /\ applied[n] \in Nat
              /\ Len(chan[n]) <= applied[n] /\ applied[n] <= Len(log)
          BY <1>0 DEF ChanInv
        <5>. QED
          BY <3>2, <5>1
      <4>. QED
        BY <3>1, <3>4, <4>1, <4>2
    <3>. QED
      BY <3>3, <3>4
  <2>4. CASE FwdStop(n)
    <3>1. /\ UNCHANGED <<log, applied>> /\ chan'[n] = <<>> /\ Len(chan'[n]) = 0
          /\ \A o \in Node : o # n => chan'[o] = chan[o] /\ fwd'[o] = fwd[o]
      BY <1>0, <2>4 DEF FwdStop
    <3>2. applied[n] \in Nat /\ applied[n] <= Len(log)
      BY <1>0 DEF ChanInv
    <3>. QED
      BY <3>1, <3>2, SMT DEF ChanInv
  <2>5. CASE Restart(n)
    <3>1. /\ UNCHANGED log /\ chan'[n] = <<>> /\ Len(chan'[n]) = 0 /\ applied'[n] = 0
          /\ \A o \in Node : o # n =>
               chan'[o] = chan[o] /\ fwd'[o] = fwd[o] /\ applied'[o] = applied[o]
      BY <1>0, <2>5 DEF Restart
    <3> SUFFICES ASSUME NEW o \in Node
                 PROVE  /\ Len(chan'[o]) <= applied'[o]
                        /\ applied'[o] <= Len(log)
                        /\ fwd'[o] \in {"unset", "stopped"} => Len(chan'[o]) = 0
                        /\ \A i \in 1..Len(chan'[o]) :
                             chan'[o][i] = log[applied'[o] - Len(chan'[o]) + i]
      BY <3>1 DEF ChanInv
    <3>2. CASE o = n
      BY <1>0, <3>1, <3>2, SMT
    <3>3. CASE o # n
      BY <3>1, <3>3 DEF ChanInv
    <3>. QED
      BY <3>2, <3>3
  <2>. QED
    BY <1>4, <2>1, <2>2, <2>3, <2>4, <2>5 DEF NodeStep
<1>5. CASE UNCHANGED vars
  BY <1>5, ChanFrame DEF vars
<1>. QED
  BY <1>1, <1>2, <1>3, <1>4, <1>5 DEF Next

-----------------------------------------------------------------------------
(* The forwarders execute what they take from their channels.             *)

LEMMA ForwardedInvStep ==
  TypeInv /\ TypeInv' /\ ChanInv /\ ForwardedInv /\ [Next]_vars => ForwardedInv'
<1> SUFFICES ASSUME TypeInv, TypeInv', ChanInv, ForwardedInv, [Next]_vars
             PROVE  ForwardedInv'
  OBVIOUS
<1> USE DEF raftVars, nodeVars, connVars, histVars
<1>0. /\ fwd \in [Node -> ForwarderState] /\ chan \in [Node -> Seq(Entry)]
      /\ applied \in [Node -> Nat] /\ Len(log) \in Nat /\ Len(log') \in Nat
      /\ \A n \in Node : /\ Len(chan[n]) \in Nat /\ applied[n] \in Nat
                         /\ Len(chan'[n]) \in Nat /\ applied'[n] \in Nat
  BY Types, Lengths, LengthsNext
<1>a. \A n \in Node : Taken(n) \in Int /\ Taken(n)' \in Int
  BY <1>0 DEF Taken
<1>b. ASSUME UNCHANGED <<log, applied, chan, exec, boot>> PROVE ForwardedInv'
  <2>1. \A n \in Node : Taken(n)' = Taken(n)
    BY <1>b DEF Taken
  <2>2. /\ Len(log') = Len(log)
        /\ \A i \in 1..Len(log) : log'[i] = log[i]
        /\ \A n \in Node : Taken(n) <= Taken(n)'
    BY <1>a, <1>b, <2>1
  <2>. QED
    BY <1>0, <1>a, <1>b, <2>2, ForwardedFrame
<1>c. ASSUME UNCHANGED <<log, applied, chan, boot>>, NEW n \in Node, NEW m \in Msg,
             NEW by \in Node, NEW d \in Database \cup {NoPath},
             Execute(n, m, by, d, "client")
      PROVE  ForwardedInv'
  <2>1. \A o \in Node : Taken(o)' = Taken(o)
    BY <1>c DEF Taken
  <2>2. \A o \in Node : Taken(o)' \in Int /\ Taken(o) <= Taken(o)'
    BY <1>a, <2>1
  <2>3. UNCHANGED <<log, boot>>
    BY <1>c
  <2>. QED
    BY <1>c, <2>2, <2>3, ForwardedAfterExecute
<1>1. ASSUME NEW c \in Conn, HandlerStep(c) PROVE ForwardedInv'
  <2>1. ASSUME NEW m \in Msg, ReadOther(c, m) PROVE ForwardedInv'
    BY <2>1, <1>c, ConnFacts DEF ReadOther
  <2>2. CASE ForwardUpstream(c)
    <3>1. Cur(c) \in Msg /\ at[c] \in Node
      BY <2>2, Types, SentFacts DEF ForwardUpstream, Busy, Writes
    <3>. QED
      BY <2>2, <3>1, <1>c, ConnFacts DEF ForwardUpstream
  <2>3. CASE UNCHANGED <<log, applied, chan, exec, boot>>
    BY <1>b, <2>3
  <2>. QED
    BY <1>1, <2>1, <2>2, <2>3, HandlerQuiet
<1>2. ASSUME NEW e \in http, HttpAccept(e) \/ HttpReject(e) PROVE ForwardedInv'
  BY <1>b, <1>2 DEF HttpAccept, HttpReject
<1>3. ASSUME NEW e \in pending, Commit(e) PROVE ForwardedInv'
  <2>1. UNCHANGED <<applied, chan, exec, boot>>
    BY <1>3 DEF Commit
  <2>2. \A n \in Node : Taken(n)' = Taken(n)
    BY <2>1 DEF Taken
  <2>3. /\ Len(log) <= Len(log')
        /\ \A i \in 1..Len(log) : log'[i] = log[i]
        /\ \A n \in Node : Taken(n) <= Taken(n)'
    BY <1>0, <1>3, <1>a, <2>2, CommitFacts
  <2>. QED
    BY <1>0, <1>a, <2>1, <2>3, ForwardedFrame
<1>4. ASSUME NEW n \in Node, NodeStep(n) PROVE ForwardedInv'
  <2>a. ASSUME UNCHANGED <<log, exec, boot>>, \A o \in Node : Taken(o) <= Taken(o)'
        PROVE  ForwardedInv'
    <3>1. Len(log) <= Len(log') /\ \A i \in 1..Len(log) : log'[i] = log[i]
      BY <1>0, <2>a
    <3>. QED
      BY <1>0, <1>a, <2>a, <3>1, ForwardedFrame
  <2>b. ASSUME NEW o \in Node, applied'[o] = applied[o], chan'[o] = chan[o]
        PROVE  Taken(o) <= Taken(o)'
    BY <1>a, <2>b DEF Taken
  <2>1. CASE Apply(n)
    <3>1. Taken(n) <= Taken(n)'
      <4>1. /\ applied'[n] = applied[n] + 1
            /\ Len(chan'[n]) = Len(chan[n]) \/ Len(chan'[n]) = Len(chan[n]) + 1
        BY <2>1, ApplyFacts
      <4>2. applied[n] \in Nat /\ Len(chan[n]) \in Nat
        BY <1>0
      <4>. QED
        BY <4>1, <4>2 DEF Taken
    <3>2. \A o \in Node : Taken(o) <= Taken(o)'
      BY <2>1, <2>b, <3>1, ApplyFacts
    <3>3. UNCHANGED <<log, exec, boot>>
      BY <2>1 DEF Apply
    <3>. QED
      BY <2>a, <3>2, <3>3
  <2>2. CASE FwdLearnPath(n) \/ FwdConnect(n) \/ SetForwarder(n) \/ Shutdown(n)
    BY <1>b, <2>2 DEF FwdLearnPath, FwdConnect, SetForwarder, Shutdown
  <2>c. ASSUME FwdRecv(n), UNCHANGED applied
        PROVE  /\ Taken(n)' = Taken(n) + 1
               /\ \A o \in Node : Taken(o) <= Taken(o)'
    <3>1. /\ Len(chan'[n]) = Len(chan[n]) - 1
          /\ \A o \in Node : o # n => chan'[o] = chan[o]
      BY <2>c, FwdRecvFacts, TypeOKHolds
    <3>2. applied[n] \in Nat /\ Len(chan[n]) \in Nat /\ applied'[n] = applied[n]
      BY <1>0, <2>c
    <3>3. Taken(n)' = Taken(n) + 1
      BY <3>1, <3>2 DEF Taken
    <3>. QED
      BY <1>a, <2>b, <2>c, <3>1, <3>3
  <2>3. CASE FwdSkip(n) \/ FwdSendFails(n)
    <3>1. FwdRecv(n) /\ UNCHANGED <<log, exec, boot, applied>>
      BY <2>3 DEF FwdSkip, FwdSendFails
    <3>. QED
      BY <2>a, <2>c, <3>1
  <2>4. CASE FwdSend(n)
    <3>1. /\ FwdRecv(n) /\ UNCHANGED <<log, boot, applied>>
          /\ Head(chan[n]).origin # n
          /\ Execute(n, Head(chan[n]).msg, Head(chan[n]).by, fwdDb[n], "forwarder")
      BY <2>4 DEF FwdSend
    <3>2. /\ Head(chan[n]).msg \in Msg /\ Head(chan[n]).by \in Node
          /\ Head(chan[n]) = chan[n][1] /\ Len(chan[n]) > 0
          /\ fwdDb[n] \in Database \cup {NoPath}
      BY <3>1, FwdRecvFacts, EntryFacts, Types, TypeOKHolds
    <3>3. /\ Taken(n) + 1 \in 1..Len(log)
          /\ Head(chan[n]) = log[Taken(n) + 1]
      <4>1. /\ Len(chan[n]) \in Nat /\ applied[n] \in Nat /\ 1 \in 1..Len(chan[n])
            /\ Len(chan[n]) <= applied[n] /\ applied[n] <= Len(log)
        BY <1>0, <3>2, SMT DEF ChanInv
      <4>2. chan[n][1] = log[applied[n] - Len(chan[n]) + 1]
        BY <4>1 DEF ChanInv
      <4>. QED
        BY <1>0, <3>2, <4>1, <4>2 DEF Taken
    <3>4. Taken(n)' = Taken(n) + 1 /\ \A o \in Node : Taken(o) <= Taken(o)'
      BY <2>c, <3>1
    <3>5. \E j \in 1..Len(log) :
            /\ Taken(n) < j /\ j <= Taken(n)'
            /\ Head(chan[n]).msg = log[j].msg /\ Head(chan[n]).by = log[j].by
            /\ log[j].origin # n
      <4>1. Taken(n) < Taken(n) + 1 /\ Taken(n) + 1 <= Taken(n)'
        BY <1>a, <3>4
      <4>. QED
        BY <3>1, <3>3, <4>1
    <3>6. UNCHANGED <<log, boot>>
      BY <3>1
    <3>. QED
      BY <1>a, <3>1, <3>2, <3>4, <3>5, <3>6, ForwardedAfterExecute
  <2>5. CASE FwdStop(n)
    <3>1. /\ UNCHANGED <<log, exec, boot, applied>> /\ Len(chan'[n]) = 0
          /\ \A o \in Node : o # n => chan'[o] = chan[o]
      BY <1>0, <2>5 DEF FwdStop
    <3>2. applied[n] \in Nat /\ Len(chan[n]) \in Nat /\ applied'[n] = applied[n]
      BY <1>0, <3>1
    <3>3. Taken(n) <= Taken(n)'
      BY <3>1, <3>2 DEF Taken
    <3>. QED
      BY <2>a, <2>b, <3>1, <3>3
  <2>6. CASE Restart(n)
    <3>1. /\ UNCHANGED <<log, exec>> /\ boot'[n] = Len(exec[n])
          /\ \A o \in Node : o # n => /\ boot'[o] = boot[o] /\ applied'[o] = applied[o]
                                      /\ chan'[o] = chan[o]
      BY <2>6, Types DEF Restart
    <3>2. Len(exec[n]) \in Nat
      BY LenProperties, Types
    <3> SUFFICES ASSUME NEW o \in Node
                 PROVE  /\ boot'[o] <= Len(exec[o])
                        /\ \A i \in 1..Len(exec[o]) :
                             exec[o][i].via = "forwarder" =>
                               \E j \in 1..Len(log) :
                                 /\ ForwardedFrom(o, exec[o][i], j)
                                 /\ i > boot'[o] => j <= applied'[o] - Len(chan'[o])
                        /\ \A i, j \in (boot'[o] + 1)..Len(exec[o]) :
                             (i < j /\ exec[o][i].via = "forwarder"
                                /\ exec[o][j].via = "forwarder") =>
                               \E a, b \in 1..Len(log) :
                                 a < b /\ ForwardedFrom(o, exec[o][i], a)
                                       /\ ForwardedFrom(o, exec[o][j], b)
      BY <3>1, SMT DEF ForwardedInv, ForwardedFrom, CarriedBy
    <3>3. CASE o # n
      BY <3>1, <3>3, ZenonT(30) DEF ForwardedInv
    <3>4. CASE o = n
      <4>1. \A i \in 1..Len(exec[n]) : ~(i > boot'[n])
        BY <3>1, <3>2
      <4>2. \A i, j \in (boot'[n] + 1)..Len(exec[n]) : ~(i < j)
        BY <3>1, <3>2
      <4>3. boot'[n] <= Len(exec[n])
        BY <3>1, <3>2
      <4>. QED
        BY <3>4, <4>1, <4>2, <4>3 DEF ForwardedInv
    <3>. QED
      BY <3>3, <3>4
  <2>. QED
    BY <1>4, <2>1, <2>2, <2>3, <2>4, <2>5, <2>6 DEF NodeStep
<1>5. CASE UNCHANGED vars
  BY <1>b, <1>5 DEF vars
<1>. QED
  BY <1>1, <1>2, <1>3, <1>4, <1>5 DEF Next

-----------------------------------------------------------------------------
(* The handlers.                                                           *)

(* n's SpacetimeDB received its ith message from a client's handler.       *)
FromClient(n, i) == exec[n][i].via = "client"

(* What handlers executed was sent by clients of the node, is committed if *)
(* it is a write, and is never a message that a handler is still busy with.*)
ClientSent ==
  \A n \in Node : \A i \in 1..Len(exec[n]) :
    FromClient(n, i) =>
      /\ Home[From[exec[n][i].msg]] = n
      /\ WasSent(exec[n][i].msg)
      /\ exec[n][i].msg \in Writes =>
           \E j \in 1..Len(log) : CarriedBy(exec[n][i], log[j])

ClientOnce ==
  \A n \in Node : \A i, j \in 1..Len(exec[n]) :
    (FromClient(n, i) /\ FromClient(n, j) /\ exec[n][i].msg = exec[n][j].msg) => i = j

BusyFresh ==
  \A c \in Conn : pc[c] \in Busy =>
    \A i \in 1..Len(exec[Home[c]]) :
      FromClient(Home[c], i) => exec[Home[c]][i].msg # Cur(c)

SendCommitted ==
  \A c \in Conn : pc[c] = "send" => Committed(Request(c, at[c]))

HandledInv == ClientSent /\ ClientOnce /\ BusyFresh /\ SendCommitted

LEMMA HandledInvInit == Init => HandledInv
<1> SUFFICES ASSUME Init PROVE HandledInv
  OBVIOUS
<1>1. /\ \A n \in Node : Len(exec[n]) = 0
      /\ \A c \in Conn : pc[c] = "new"
  BY EmptySeq DEF Init
<1>. QED
  BY <1>1, ConnFacts DEF HandledInv, ClientSent, ClientOnce, BusyFresh, SendCommitted, Busy

(* Histories of connections only grow.                                     *)
LEMMA WasSentAfterRead ==
  ASSUME TypeInv, NEW c \in Conn, NEW m \in Msg, ReadMessage(c, m)
  PROVE  /\ ~WasSent(m) /\ WasSent(m)' /\ From[m] = c
         /\ \A k \in Msg : WasSent(k) => WasSent(k)'
<1>1. From[m] = c /\ ~WasSent(m)
  BY DEF ReadMessage, WasSent
<1>2. Len(sent[c]) \in Nat
  BY LenProperties, Types
<1>3. /\ Len(sent'[c]) = Len(sent[c]) + 1
      /\ sent'[c][Len(sent[c]) + 1] = m
      /\ \A i \in 1..Len(sent[c]) : sent'[c][i] = sent[c][i]
      /\ \A d \in Conn : d # c => sent'[d] = sent[d]
  BY ReadMessageFacts, TypeOKHolds
<1>4. WasSent(m)'
  BY <1>1, <1>2, <1>3, SMT DEF WasSent
<1>5. ASSUME NEW k \in Msg, WasSent(k) PROVE WasSent(k)'
  <2>1. From[k] \in Conn
    BY WritePathAssumption
  <2>2. PICK i \in 1..Len(sent[From[k]]) : sent[From[k]][i] = k
    BY <1>5 DEF WasSent
  <2>3. i \in 1..Len(sent'[From[k]]) /\ sent'[From[k]][i] = k
    BY <1>2, <1>3, <2>1, <2>2, SMT
  <2>. QED
    BY <2>3 DEF WasSent
<1>. QED
  BY <1>1, <1>4, <1>5

(* A busy handler's message is one its client sent, different from any     *)
(* other handler's.                                                        *)
LEMMA BusyFacts ==
  ASSUME TypeInv, NEW c \in Conn, pc[c] \in Busy
  PROVE  /\ Cur(c) \in Msg /\ Cur(c) \in Writes
         /\ From[Cur(c)] = c /\ WasSent(Cur(c))
<1>1. Len(sent[c]) > 0 /\ Len(sent[c]) \in Nat
  BY LenProperties, Types, SentFacts
<1>2. Cur(c) \in Writes /\ Cur(c) \in Msg
  BY SentFacts DEF Writes
<1>. QED
  BY <1>1, <1>2, SentFacts, SMT DEF WasSent, Cur

LEMMA ExecMsg ==
  ASSUME TypeInv, NEW n \in Node, NEW i \in 1..Len(exec[n])
  PROVE  exec[n][i].msg \in Msg /\ exec[n][i].by \in Node
<1>1. exec[n][i] \in Execution
  BY ElementOfSeq, Types
<1>. QED
  BY <1>1 DEF Execution
=============================================================================
