----------------------- MODULE MembershipSafetyProofs -----------------------
(***************************************************************************)
(* What administrative calls do to the shards, for any nodes, shards and   *)
(* operators and any number of calls and elections.                        *)
(***************************************************************************)
EXTENDS MembershipProofs

(* The tableau prover first: most steps need no arithmetic.                *)
USE ZenonT(5), SMT

-----------------------------------------------------------------------------
(* A call that runs alone.                                                 *)

LEMMA HeadAndTail ==
  ASSUME NEW q \in Seq(Shard), q # <<>>
  PROVE  /\ Head(q) \in Range(q) /\ Range(q) \subseteq Range(Tail(q)) \cup {Head(q)}
         /\ Tail(q) \in Seq(Shard)
<1>1. /\ Tail(q) \in Seq(Shard) /\ Len(q) \in Nat /\ Len(q) >= 1 /\ Len(Tail(q)) = Len(q) - 1
      /\ Head(q) = q[1] /\ DOMAIN q = 1..Len(q) /\ DOMAIN Tail(q) = 1..Len(Tail(q))
      /\ \A i \in 1..Len(Tail(q)) : Tail(q)[i] = q[i + 1]
  BY HeadTailProperties, EmptySeq, LenProperties, SMT
<1>2. Head(q) \in Range(q)
  BY <1>1, SMT DEF Range
<1>3. ASSUME NEW i \in DOMAIN q, i # 1 PROVE q[i] \in Range(Tail(q))
  <2>1. i - 1 \in 1..Len(Tail(q)) /\ (i - 1) + 1 = i
    BY <1>1, <1>3, SMT
  <2>2. Tail(q)[i - 1] = q[i]
    BY <1>1, <2>1
  <2>. QED
    BY <1>1, <2>1, <2>2 DEF Range
<1>. QED
  BY <1>1, <1>2, <1>3 DEF Range

LEMMA Alone ==
  ASSUME BaseInv, ~ hist.overlapped, NEW k \in Operator, hist.latest = k
  PROVE  /\ \A o \in Operator : Running(o) => o = k
         /\ \A s \in Shard : proposed[s] # None =>
              proposed[s].by \in {None, k}
<1>1. \A o \in Operator : Running(o) => o = k
  BY DEF BaseInv, CallInv
<1>2. ASSUME NEW s \in Shard, proposed[s] # None, proposed[s].by # None PROVE proposed[s].by = k
  <2>1. proposed[s].by \in Operator
    BY <1>2 DEF BaseInv, TypeInv, Entry
  <2>2. call[proposed[s].by].pc \in {"learning", "changing"}
    BY <1>2 DEF BaseInv, ShardInv
  <2>. QED
    BY <1>1, <2>1, <2>2 DEF Running
<1>. QED
  BY <1>1, <1>2

-----------------------------------------------------------------------------
(* DoneInv.                                                                *)

(* What steps of others leave alone.                                       *)
Undisturbed(k) ==
  /\ hist'.latest = hist.latest /\ hist'.overlapped = hist.overlapped
  /\ call'[k] = call[k]
  /\ \A s \in Shard :
       /\ proposed[s] = None => proposed'[s] = None
       /\ proposed'[s] # None /\ proposed'[s].by = k => proposed'[s] = proposed[s]
       /\ configs[s] # <<>> /\ proposed[s] = None => configs'[s] = configs[s]

LEMMA DoneFrame ==
  ASSUME BaseInv, NEW k \in Operator, DoneInv(k), Undisturbed(k)
  PROVE  DoneInv(k)'
<1> SUFFICES ASSUME hist.latest = k, ~ hist.overlapped PROVE DoneInv(k)'
  BY DEF DoneInv, Undisturbed
<1>1. call[k].listed \in SUBSET Shard /\ (At(k, "uniform") => Current(k) \in Shard)
  <2>1. call[k] \in Calls
    BY DEF BaseInv, TypeInv
  <2>2. At(k, "uniform") => Running(k)
    BY DEF At, Running
  <2>. QED
    BY <2>1, <2>2, RunningFacts DEF Calls
<1>2. ASSUME NEW s \in Shard, Settled(k, s) PROVE Settled(k, s)'
  BY <1>2 DEF Settled, Meant, Undisturbed
<1>3. \A s \in call'[k].listed \ Range(call'[k].todo) : Settled(k, s)'
  BY <1>1, <1>2 DEF DoneInv, Undisturbed
<1>4. At(k, "change")' => Meant(k, call[k].voters)'
  BY DEF DoneInv, Undisturbed, At, Meant
<1>5. At(k, "changing")' => \A s \in Shard :
        proposed'[s] # None /\ proposed'[s].by = k => Meant(k, Goal(proposed[s].configs))'
  BY DEF DoneInv, Undisturbed, At, Meant
<1>6. At(k, "uniform")' => /\ proposed'[Current(k)'] = None /\ configs'[Current(k)'] # <<>>
                           /\ Meant(k, Goal(configs[Current(k)]))'
  BY <1>1 DEF DoneInv, Undisturbed, At, Meant, Current
<1>. QED
  BY <1>3, <1>4, <1>5, <1>6 DEF DoneInv

LEMMA DonePropose ==
  ASSUME BaseInv, NEW k \in Operator, DoneInv(k), hist.latest = k, ~ hist.overlapped,
         add_learner(k) \/ change_membership(k) \/ Uniform(k)
  PROVE  DoneInv(k)'
<1> DEFINE s == Current(k)
<1>1. /\ Running(k) /\ call[k].pc \notin {"learning", "changing"}
      /\ s \in Shard /\ configs[s] \in Config /\ proposed[s] = None
      /\ UNCHANGED <<configs, nodes, leader, created, pool, listener, hist>>
  BY Proposing
<1>2. PICK c \in Config, ns \in SUBSET Node, d \in Calls :
        /\ proposed' = [proposed EXCEPT ![s] = [configs |-> c, nodes |-> ns, by |-> k]]
        /\ call' = [call EXCEPT ![k] = d]
        /\ \/ Learner(k, s, c, ns) /\ Goes(call[k], d, "learning")
           \/ (Change(k, s, c, ns) \/ Unjoin(k, s, c, ns)) /\ Goes(call[k], d, "changing")
  BY Proposing
<1> DEFINE e == [configs |-> c, nodes |-> ns, by |-> k]
<1>3. e.configs = c /\ proposed' = [proposed EXCEPT ![s] = e]
  BY <1>2
<1>4. /\ (\A t \in Shard : ShardInv(t)) /\ proposed \in [Shard -> Entry \cup {None}]
      /\ call \in [Operator -> Calls]
  BY DEF BaseInv, TypeInv
<1>5. /\ call[k].todo \in Seq(Shard) /\ call[k].todo # <<>> /\ call[k].listed \in SUBSET Shard
  BY <1>1, RunningFacts
<1> HIDE DEF e
<1>6. /\ proposed'[s] = e /\ (\A t \in Shard \ {s} : proposed'[t] = proposed[t])
      /\ call'[k] = d /\ configs' = configs
  BY <1>1, <1>2, <1>3, <1>4
<1>7. s \in Range(call[k].todo)
  BY <1>5, HeadAndTail DEF Current
<1>8. ASSUME NEW t \in Shard \ {s} PROVE proposed[t] # None => proposed[t].by # k
  BY <1>1, <1>4, MembershipAssumption DEF ShardInv
<1>9. d.node = call[k].node /\ d.kind = call[k].kind /\ d.todo = call[k].todo /\ d.listed = call[k].listed
      /\ d.pc \in {"learning", "changing"}
  BY <1>2 DEF Goes
<1> HIDE DEF s
<1>10. \A t \in call'[k].listed \ Range(call'[k].todo) : Settled(k, t)'
  <2>1. ASSUME NEW t \in Shard \ {s}, Settled(k, t) PROVE Settled(k, t)'
    BY <1>6, <1>9, <2>1 DEF Settled, Meant
  <2>2. \A t \in call[k].listed \ Range(call[k].todo) : Settled(k, t) /\ t \in Shard \ {s}
    BY <1>5, <1>7 DEF DoneInv
  <2>. QED
    BY <1>6, <1>9, <2>1, <2>2
<1>11. d.pc = "changing" => Meant(k, Goal(c))'
  <2>1. CASE Goes(call[k], d, "learning")
    BY <2>1 DEF Goes
  <2>2. CASE Change(k, s, c, ns)
    <3>1. Goal(c) = call[k].voters /\ At(k, "change")
      BY <1>1, <2>2, CoherentFacts DEF Change, s
    <3>. QED
      BY <1>6, <1>9, <3>1 DEF DoneInv, Meant
  <2>3. CASE Unjoin(k, s, c, ns)
    <3>1. Goal(configs[s]) \in Voters /\ c = <<Goal(configs[s])>> /\ At(k, "uniform")
      BY <1>1, <2>3, ConfigFacts DEF Unjoin, s
    <3>2. Goal(c) = Goal(configs[s])
      BY <3>1, UniformFacts
    <3>3. Meant(k, Goal(configs[s]))
      BY <3>1 DEF DoneInv, s
    <3>. QED
      BY <1>6, <1>9, <3>2, <3>3 DEF Meant
  <2>. QED
    BY <1>2, <2>1, <2>2, <2>3
<1>12. At(k, "changing")' => \A t \in Shard :
         proposed'[t] # None /\ proposed'[t].by = k => Meant(k, Goal(proposed[t].configs))'
  <2>1. ASSUME At(k, "changing")', NEW t \in Shard, proposed'[t] # None, proposed'[t].by = k
        PROVE  Meant(k, Goal(proposed[t].configs))'
    <3>1. t = s
      BY <1>6, <1>8, <2>1
    <3>2. proposed'[t].configs = c /\ d.pc = "changing"
      BY <1>3, <1>6, <2>1, <3>1 DEF At
    <3>. QED
      BY <1>11, <3>2 DEF Meant
  <2>. QED
    BY <2>1
<1>. QED
  BY <1>6, <1>9, <1>10, <1>12 DEF DoneInv, At

LEMMA DoneRead ==
  ASSUME BaseInv, NEW k \in Operator, DoneInv(k), hist.latest = k, ~ hist.overlapped, read_voters(k)
  PROVE  DoneInv(k)'
<1>1. Running(k) /\ UNCHANGED <<raft, created, pool, listener, hist>>
  BY Reading
<1>2. PICK d \in Calls : /\ call' = [call EXCEPT ![k] = d]
                         /\ Goes(call[k], d, "change") /\ d.voters = Wanted(k)
  BY Reading
<1>3. call'[k] = d /\ configs' = configs /\ proposed' = proposed
  BY <1>1, <1>2 DEF BaseInv, TypeInv, raft
<1>4. d.node = call[k].node /\ d.kind = call[k].kind /\ d.todo = call[k].todo
      /\ d.listed = call[k].listed /\ d.pc = "change"
  BY <1>2 DEF Goes
<1>5. \A t \in call'[k].listed \ Range(call'[k].todo) : Settled(k, t)'
  BY <1>3, <1>4 DEF DoneInv, Settled, Meant
<1>6. Meant(k, call[k].voters)'
  <2>1. call[k].node \in Wanted(k) <=> call[k].kind = "add"
    BY <1>1, RunningFacts DEF Wanted
  <2>. QED
    BY <1>2, <1>3, <1>4, <2>1 DEF Meant
<1>. QED
  BY <1>3, <1>4, <1>5, <1>6 DEF DoneInv, At

LEMMA DoneError ==
  ASSUME NEW k \in Operator, call'[k] = Error
  PROVE  DoneInv(k)'
<1>1. Error.pc = "error" /\ Error.listed = {}
  BY DEF Error, NewCall
<1>. QED
  BY <1>1 DEF DoneInv, At

LEMMA DoneBegin ==
  ASSUME BaseInv, NEW k \in Operator, NEW o \in Operator, NEW kind \in {"add", "remove"},
         NEW n \in Node, NEW via \in Node, Begin(o, kind, n, via)
  PROVE  DoneInv(k)'
<1>1. hist'.latest = o
  BY Beginning, SMT
<1>2. PICK d \in Calls :
        call' = [call EXCEPT ![o] = d] /\ d.pc = First(kind) /\ d.listed \subseteq Range(d.todo)
  BY Beginning, SMT
<1>3. call'[o] = d
  BY <1>2 DEF BaseInv, TypeInv
<1>4. First(kind) \notin {"change", "changing", "uniform"}
  BY DEF First
<1>. QED
  BY <1>1, <1>2, <1>3, <1>4 DEF DoneInv, At

LEMMA DoneCommit ==
  ASSUME BaseInv, NEW k \in Operator, DoneInv(k), NEW s \in Shard, Commit(s)
  PROVE  DoneInv(k)'
<1> DEFINE p == proposed[s]
<1>1. /\ p # None /\ p \in Entry
      /\ configs' = [configs EXCEPT ![s] = p.configs]
      /\ proposed' = [proposed EXCEPT ![s] = None]
      /\ UNCHANGED <<created, pool, listener, hist>>
  BY Committing
<1>2. \/ p.by = None /\ UNCHANGED call
      \/ \E o \in Operator, d \in Calls :
           /\ p.by = o /\ Current(o) = s /\ call[o].pc \in {"learning", "changing"}
           /\ Resumes(call[o], d, p.configs)
           /\ call' = [call EXCEPT ![o] = d]
  BY Committing
<1>3. /\ configs \in [Shard -> Config \cup {<<>>}] /\ proposed \in [Shard -> Entry \cup {None}]
      /\ call \in [Operator -> Calls] /\ (\A t \in Shard : ShardInv(t))
  BY DEF BaseInv, TypeInv
<1>4. /\ configs'[s] = p.configs /\ proposed'[s] = None /\ hist' = hist
      /\ \A t \in Shard \ {s} : configs'[t] = configs[t] /\ proposed'[t] = proposed[t]
  BY <1>1, <1>3
<1>5. p.configs \in Config
  BY <1>1 DEF Entry
<1> HIDE DEF p
<1>6. CASE call'[k] = call[k]
  <2>1. Undisturbed(k)
    BY <1>1, <1>4, <1>6 DEF Undisturbed, p
  <2>. QED
    BY <2>1, DoneFrame
<1>7. ASSUME NEW d \in Calls, hist.latest = k, ~ hist.overlapped, p.by = k, Current(k) = s,
             call[k].pc \in {"learning", "changing"}, Resumes(call[k], d, p.configs), call'[k] = d
      PROVE  DoneInv(k)'
  <2>1. Running(k)
    BY <1>7 DEF Running
  <2>2. /\ call[k].todo \in Seq(Shard) /\ call[k].todo # <<>> /\ call[k].listed \in SUBSET Shard
    BY <2>1, RunningFacts
  <2>3. s \in Range(call[k].todo) /\ Range(call[k].todo) \subseteq Range(Tail(call[k].todo)) \cup {s}
    BY <1>7, <2>2, HeadAndTail DEF Current
  <2>4. d.node = call[k].node /\ d.kind = call[k].kind /\ d.listed = call[k].listed
    BY <1>7 DEF Resumes, Goes, Moves
  <2>5. ASSUME NEW t \in call[k].listed \ Range(call[k].todo) PROVE Settled(k, t)'
    <3>1. t \in Shard \ {s} /\ Settled(k, t)
      BY <1>7, <2>2, <2>3 DEF DoneInv
    <3>. QED
      BY <1>4, <1>7, <2>4, <3>1 DEF Settled, Meant
  <2>6. call[k].pc = "changing" => Meant(k, Goal(p.configs))
    BY <1>1, <1>7 DEF DoneInv, At, p
  <2>7. call[k].pc = "changing" => Meant(k, Goal(configs[s]))'
    BY <1>4, <1>7, <2>4, <2>6 DEF Meant
  <2>8. configs'[s] # <<>>
    BY <1>4, <1>5, ConfigFacts
  <2>9. CASE call[k].pc = "learning" /\ Goes(call[k], d, "read")
    BY <1>7, <2>5, <2>9 DEF DoneInv, Goes, At
  <2>10. CASE call[k].pc = "changing" /\ Goes(call[k], d, "uniform")
    <3>1. Current(k)' = s
      BY <1>7, <2>10 DEF Goes, Current
    <3>. QED
      BY <1>4, <1>7, <2>5, <2>7, <2>8, <2>10, <3>1 DEF DoneInv, Goes, At
  <2>11. CASE call[k].pc = "changing" /\ Len(p.configs) = 1 /\ Moves(call[k], d)
    <3>1. voter_ids(configs'[s]) = Goal(configs'[s])
      BY <1>4, <1>5, <2>11, ConfigFacts
    <3>2. Settled(k, s)'
      BY <1>4, <2>7, <2>8, <2>11, <3>1 DEF Settled, Meant
    <3>3. d.todo = Tail(call[k].todo) /\ d.pc \notin {"change", "changing", "uniform"}
      BY <2>11 DEF Moves, First
    <3>. QED
      BY <1>7, <2>3, <2>4, <2>5, <3>2, <3>3 DEF DoneInv, At
  <2>. QED
    BY <1>7, <2>9, <2>10, <2>11 DEF Resumes
<1>8. ASSUME NEW d \in Calls, p.by = k, Current(k) = s,
             call[k].pc \in {"learning", "changing"}, Resumes(call[k], d, p.configs), call'[k] = d
      PROVE  DoneInv(k)'
  <2>1. CASE hist.latest = k /\ ~ hist.overlapped
    BY <1>7, <1>8, <2>1
  <2>2. CASE ~ (hist.latest = k /\ ~ hist.overlapped)
    BY <1>4, <2>2 DEF DoneInv
  <2>. QED
    BY <2>1, <2>2
<1>. QED
  BY <1>2, <1>3, <1>6, <1>8

LEMMA DoneElect ==
  ASSUME BaseInv, NEW k \in Operator, DoneInv(k), NEW s \in Shard, NEW n \in Node, Elect(s, n)
  PROVE  DoneInv(k)'
<1> DEFINE p == proposed[s]
<1>1. /\ UNCHANGED <<configs, nodes, created, pool, listener>>
      /\ hist'.overlapped = hist.overlapped /\ hist'.latest = hist.latest
  BY Electing
<1>2. PICK e \in Entry \cup {None} :
        /\ proposed' = [proposed EXCEPT ![s] = e]
        /\ e # None => p # None /\ e.by = None
  BY Electing
<1>3. \/ UNCHANGED call
      \/ p # None /\ p.by \in Operator /\ call' = [call EXCEPT ![p.by] = Error]
  BY Electing DEF Error
<1>4. /\ proposed \in [Shard -> Entry \cup {None}] /\ call \in [Operator -> Calls]
  BY DEF BaseInv, TypeInv
<1>5. proposed'[s] = e /\ (\A t \in Shard \ {s} : proposed'[t] = proposed[t])
  BY <1>2, <1>4
<1> HIDE DEF p
<1>6. CASE call'[k] = call[k]
  <2>1. Undisturbed(k)
    BY <1>1, <1>2, <1>5, <1>6, MembershipAssumption DEF Undisturbed, p
  <2>. QED
    BY <2>1, DoneFrame
<1>7. CASE call'[k] = Error
  BY <1>7, DoneError
<1>. QED
  BY <1>3, <1>4, <1>6, <1>7

LEMMA DoneStart ==
  ASSUME BaseInv, NEW k \in Operator, DoneInv(k), NEW s \in Shard, NEW m, Starts(s, m),
         UNCHANGED <<proposed, call, hist>>
  PROVE  DoneInv(k)'
<1>1. \A t \in Shard : configs[t] # <<>> => configs'[t] = configs[t]
  BY DEF BaseInv, TypeInv, Starts
<1>2. Undisturbed(k)
  BY <1>1 DEF Undisturbed
<1>. QED
  BY <1>2, DoneFrame

LEMMA DoneStep ==
  ASSUME BaseInv, OwnInv, NEW k \in Operator, DoneInv(k), [Next]_vars, Whole'
  PROVE  DoneInv(k)'
<1>1. ASSUME UNCHANGED <<raft, call, hist>> PROVE DoneInv(k)'
  BY <1>1, DoneFrame DEF Undisturbed, raft
<1>2. ASSUME NEW n \in Node, cluster_init(n) PROVE DoneInv(k)'
  <2>1. Starts(0, Members) /\ UNCHANGED <<proposed, call, hist>> /\ 0 \in Shard
    BY <1>2, ClusterInit, MembershipAssumption
  <2>. QED
    BY <2>1, DoneStart
<1>3. ASSUME NEW n \in Node, initialize(n) PROVE DoneInv(k)'
  <2> DEFINE s == listener[n].shard
             m == listener[n].members
  <2>1. /\ hist' = hist /\ s \in Shard
        /\ (Starts(s, m) /\ UNCHANGED <<proposed, call>>) \/ UNCHANGED <<raft, call>>
    BY <1>3, Initializing, InitializedOnce
  <2> HIDE DEF s, m
  <2>2. CASE Starts(s, m) /\ UNCHANGED <<proposed, call>>
    BY <2>1, <2>2, DoneStart
  <2>3. CASE UNCHANGED <<raft, call>>
    BY <1>1, <2>1, <2>3
  <2>. QED
    BY <2>1, <2>2, <2>3
<1>4. ASSUME NEW o \in Operator, ~ (hist.latest = k /\ ~ hist.overlapped), hist' = hist
      PROVE  DoneInv(k)'
  BY <1>4 DEF DoneInv
<1>5. ASSUME NEW o \in Operator, add_learner(o) \/ change_membership(o) \/ Uniform(o) PROVE DoneInv(k)'
  <2>1. Running(o) /\ hist' = hist
    BY <1>5, Proposing
  <2>2. CASE hist.latest = k /\ ~ hist.overlapped
    <3>1. o = k
      BY <2>1, <2>2, Alone
    <3>. QED
      BY <1>5, <2>2, <3>1, DonePropose
  <2>. QED
    BY <1>4, <2>1, <2>2
<1>6. ASSUME NEW o \in Operator, read_voters(o) PROVE DoneInv(k)'
  <2>1. Running(o) /\ hist' = hist
    BY <1>6, Reading
  <2>2. CASE hist.latest = k /\ ~ hist.overlapped
    <3>1. o = k
      BY <2>1, <2>2, Alone
    <3>. QED
      BY <1>6, <2>2, <3>1, DoneRead
  <2>. QED
    BY <1>4, <2>1, <2>2
<1>7. ASSUME NEW o \in Operator, CallFails(o) PROVE DoneInv(k)'
  <2>1. /\ Running(o) /\ hist' = hist /\ call' = [call EXCEPT ![o] = Error]
        /\ call \in [Operator -> Calls]
    BY <1>7, Failing DEF BaseInv, TypeInv
  <2>2. CASE hist.latest = k /\ ~ hist.overlapped
    <3>1. o = k
      BY <2>1, <2>2, Alone
    <3>. QED
      BY <2>1, <3>1, DoneError
  <2>. QED
    BY <1>4, <2>1, <2>2
<1>8. ASSUME NEW s \in Shard, shard_create(s) PROVE DoneInv(k)'
  BY <1>1, <1>8 DEF shard_create
<1>9. ASSUME NEW n \in Node, NEW s \in Shard, CreateShard(n, s) \/ CreateErr(n, s) \/ Contact(s, n)
      PROVE  DoneInv(k)'
  BY <1>1, <1>9 DEF CreateShard, CreateErr, Contact
<1>10. ASSUME NEW n \in Node, get_current_members(n) PROVE DoneInv(k)'
  BY <1>1, <1>10 DEF get_current_members
<1>11. CASE UNCHANGED vars
  BY <1>1, <1>11 DEF vars
<1>12. ASSUME NEW o \in Operator, NEW n \in Node, NEW via \in Node, NEW kind \in {"add", "remove"},
              Begin(o, kind, n, via)
       PROVE  DoneInv(k)'
  BY <1>12, DoneBegin
<1>. QED
  BY <1>2, <1>3, <1>5, <1>6, <1>7, <1>8, <1>9, <1>10, <1>11, <1>12, Steps, DoneCommit, DoneElect

-----------------------------------------------------------------------------
(* GrowInv.                                                                *)

ShardKeeps(s) ==
  /\ configs'[s] = configs[s] /\ nodes'[s] = nodes[s]
  /\ proposed'[s] = proposed[s]
  /\ proposed[s] # None /\ proposed[s].by # None =>
       call'[proposed[s].by] = call[proposed[s].by]

LEMMA GrowShardFrame ==
  ASSUME NEW s \in Shard, GrowShard(s), ShardKeeps(s), nodes[0] \subseteq nodes'[0]
  PROVE  GrowShard(s)'
<1>1. Growing(configs'[s]) /\ voter_ids(configs'[s]) \subseteq nodes'[0]
  BY DEF GrowShard, ShardKeeps
<1>2. ASSUME proposed'[s] # None
      PROVE  /\ Growing(proposed'[s].configs)
             /\ voter_ids(proposed'[s].configs) \subseteq nodes'[0]
             /\ voter_ids(configs'[s]) \subseteq voter_ids(proposed'[s].configs)
             /\ nodes'[s] \subseteq proposed'[s].nodes
             /\ proposed'[s].by # None /\ call'[proposed'[s].by].pc = "learning" =>
                  call'[proposed'[s].by].node \in proposed'[s].nodes
  BY <1>2 DEF GrowShard, ShardKeeps, At
<1>. QED
  BY <1>1, <1>2 DEF GrowShard, Growing, voter_ids, At

(* What steps other than proposals do to the memberships.                  *)
Follows ==
  \A s \in Shard :
    /\ configs[s] # <<>> =>
         configs'[s] = configs[s] \/ (proposed[s] # None /\ configs'[s] = proposed[s].configs)
    /\ proposed'[s] # None => proposed[s] # None /\ proposed'[s].configs = proposed[s].configs

LEMMA GrowCallFrame ==
  ASSUME BaseInv, ~ hist.removed, NEW k \in Operator, GrowCall(k), call'[k] = call[k], Follows,
         nodes[0] \subseteq nodes'[0]
  PROVE  GrowCall(k)'
<1> SUFFICES ASSUME Running(k)' PROVE GrowCall(k)'
  BY DEF GrowCall
<1>1. Running(k)
  BY DEF Running
<1>2. Current(k) \in Shard /\ call[k].kind = "add" /\ Current(k)' = Current(k)
  BY <1>1, RunningFacts DEF BaseInv, CallInv, Current
<1>3. At(k, "change") => configs[Current(k)] # <<>>
  BY <1>2 DEF BaseInv, CallInv, At
<1>4. At(k, "change") => /\ call[k].voters \subseteq nodes[0]
                         /\ voter_ids(configs[Current(k)]) \subseteq call[k].voters
                         /\ proposed[Current(k)] # None =>
                              voter_ids(proposed[Current(k)].configs) \subseteq call[k].voters
  BY <1>1 DEF GrowCall
<1> DEFINE s == Current(k)
<1> HIDE DEF s
<1>5. At(k, "change") => /\ voter_ids(configs'[s]) \subseteq call[k].voters
                         /\ proposed'[s] # None =>
                              voter_ids(proposed'[s].configs) \subseteq call[k].voters
  BY <1>2, <1>3, <1>4 DEF Follows, s
<1>6. call[k].node \in nodes[0] \/ (call[k].pc \in {"add_learner", "learning"} /\ s = 0)
  BY <1>1 DEF GrowCall, s
<1>7. At(k, "change")' = At(k, "change") /\ Current(k)' = s
  BY <1>2 DEF At, s
<1>. QED
  BY <1>4, <1>5, <1>6, <1>7 DEF GrowCall, voter_ids

(* A step that makes no proposal, and moves no call.                       *)
LEMMA GrowQuiet ==
  ASSUME BaseInv, Grown, ~ hist.removed, UNCHANGED <<raft, call>>,
         \A n \in Node : listener'[n] # None => listener'[n].members \subseteq nodes[0]
  PROVE  Grown'
<1>1. configs' = configs /\ nodes' = nodes /\ proposed' = proposed /\ call' = call
  BY DEF raft
<1>2. ASSUME NEW s \in Shard PROVE GrowShard(s)'
  BY <1>1, GrowShardFrame DEF Grown, ShardKeeps
<1>3. ASSUME NEW k \in Operator PROVE GrowCall(k)'
  <2>1. Follows
    BY <1>1 DEF Follows
  <2>2. GrowCall(k) /\ call'[k] = call[k] /\ nodes[0] \subseteq nodes'[0]
    BY <1>1 DEF Grown
  <2>. QED
    BY <2>1, <2>2, GrowCallFrame
<1>. QED
  BY <1>1, <1>2, <1>3 DEF Grown

LEMMA GrowStart ==
  ASSUME BaseInv, Grown, ~ hist.removed, NEW s \in Shard, NEW m, Starts(s, m),
         UNCHANGED <<proposed, call>>, nodes[0] \subseteq nodes'[0], m \subseteq nodes'[0],
         \A n \in Node : listener'[n] # None => listener'[n] = listener[n]
  PROVE  Grown'
<1>1. <<m>> \in Config /\ voter_ids(<<m>>) = m /\ Goal(<<m>>) = m
  BY UniformFacts DEF Starts
<1>2. /\ configs'[s] = <<m>> /\ nodes'[s] = m
      /\ \A t \in Shard \ {s} : configs'[t] = configs[t] /\ nodes'[t] = nodes[t]
  BY DEF BaseInv, TypeInv, Starts
<1>3. proposed[s] = None /\ configs[s] = <<>>
  BY DEF BaseInv, ShardInv, Starts
<1>4. Growing(configs'[s]) /\ voter_ids(configs'[s]) \subseteq nodes'[0]
  BY <1>1, <1>2 DEF Growing
<1>5. GrowShard(s)'
  <2>1. proposed'[s] = None
    BY <1>3
  <2>2. Growing(configs[s])' /\ (voter_ids(configs[s]) \subseteq nodes[0])'
    BY <1>4 DEF Growing, voter_ids, Goal
  <2>. QED
    BY <2>1, <2>2 DEF GrowShard
<1>6. ASSUME NEW t \in Shard \ {s} PROVE GrowShard(t)'
  BY <1>2, GrowShardFrame DEF Grown, ShardKeeps
<1>7. Follows
  BY <1>2, <1>3 DEF Follows
<1>8. ASSUME NEW k \in Operator PROVE GrowCall(k)'
  BY <1>7, GrowCallFrame DEF Grown
<1>9. \A n \in Node : listener'[n] # None => listener'[n].members \subseteq nodes'[0]
  BY DEF Grown
<1>. QED
  BY <1>5, <1>6, <1>8, <1>9 DEF Grown

(* What k may propose: the voters only grow, within nodes[0].              *)
GrowProposal(s, c, ns) ==
  /\ Growing(c) /\ voter_ids(c) \subseteq nodes[0] /\ nodes[s] \subseteq ns
  /\ voter_ids(configs[s]) \subseteq voter_ids(c)

LEMMA GrowProposing ==
  ASSUME NEW k \in Operator, NEW s \in Shard, NEW c, NEW ns, configs[s] \in Config,
         GrowShard(s), Running(k), GrowCall(k), s = Current(k),
         Learner(k, s, c, ns) \/ Change(k, s, c, ns) \/ Unjoin(k, s, c, ns)
  PROVE  GrowProposal(s, c, ns)
<1>1. Growing(configs[s]) /\ voter_ids(configs[s]) \subseteq nodes[0] /\ configs[s] # <<>>
  BY ConfigFacts DEF GrowShard
<1>2. CASE Learner(k, s, c, ns)
  BY <1>1, <1>2 DEF Learner, GrowProposal
<1>3. CASE Change(k, s, c, ns)
  <2> DEFINE W == call[k].voters
  <2>1. /\ W \in Voters /\ c = next_coherent(configs[s], W) /\ ns = Kept(s, c)
        /\ W \subseteq nodes[0] /\ voter_ids(configs[s]) \subseteq W
    BY <1>3 DEF Change, GrowCall
  <2> HIDE DEF W
  <2>2. Growing(c) /\ W \subseteq voter_ids(c) /\ voter_ids(c) \subseteq W \cup voter_ids(configs[s])
    BY <2>1, CoherentFacts
  <2>. QED
    BY <2>1, <2>2 DEF GrowProposal, Kept
<1>4. CASE Unjoin(k, s, c, ns)
  <2> DEFINE W == Goal(configs[s])
  <2>1. c = <<W>> /\ ns = Kept(s, c) /\ W \in Voters /\ W \subseteq voter_ids(configs[s])
    BY <1>4, ConfigFacts DEF Unjoin
  <2>2. voter_ids(configs[s]) \subseteq W
    BY <1>1 DEF Growing
  <2> HIDE DEF W
  <2>3. voter_ids(c) = W /\ Goal(c) = W
    BY <2>1, UniformFacts
  <2>. QED
    BY <1>1, <2>1, <2>2, <2>3 DEF GrowProposal, Kept, Growing
<1>. QED
  BY <1>2, <1>3, <1>4

LEMMA GrowPropose ==
  ASSUME BaseInv, Grown, ~ hist.overlapped, NEW k \in Operator,
         add_learner(k) \/ change_membership(k) \/ Uniform(k)
  PROVE  Grown'
<1> DEFINE s == Current(k)
<1>1. /\ Running(k) /\ call[k].pc \notin {"learning", "changing"}
      /\ s \in Shard /\ configs[s] \in Config /\ proposed[s] = None
      /\ UNCHANGED <<configs, nodes, leader, created, pool, listener, hist>>
  BY Proposing
<1>2. PICK c \in Config, ns \in SUBSET Node, d \in Calls :
        /\ proposed' = [proposed EXCEPT ![s] = [configs |-> c, nodes |-> ns, by |-> k]]
        /\ call' = [call EXCEPT ![k] = d]
        /\ \/ Learner(k, s, c, ns) /\ Goes(call[k], d, "learning")
           \/ (Change(k, s, c, ns) \/ Unjoin(k, s, c, ns)) /\ Goes(call[k], d, "changing")
  BY Proposing
<1> DEFINE e == [configs |-> c, nodes |-> ns, by |-> k]
<1>3. e.configs = c /\ e.nodes = ns /\ e.by = k /\ proposed' = [proposed EXCEPT ![s] = e]
  BY <1>2
<1>4. /\ (\A t \in Shard : ShardInv(t)) /\ proposed \in [Shard -> Entry \cup {None}]
      /\ call \in [Operator -> Calls] /\ CallInv(k)
  BY DEF BaseInv, TypeInv
<1> HIDE DEF e
<1>5. /\ proposed'[s] = e /\ (\A t \in Shard \ {s} : proposed'[t] = proposed[t])
      /\ call'[k] = d /\ (\A o \in Operator \ {k} : call'[o] = call[o])
      /\ configs' = configs /\ nodes' = nodes /\ listener' = listener
  BY <1>1, <1>2, <1>3, <1>4
<1>6. hist.latest = k
  BY <1>1, <1>4 DEF CallInv
<1>7. /\ \A o \in Operator : Running(o) => o = k
      /\ \A t \in Shard : proposed[t] # None => proposed[t].by \in {None, k}
  BY <1>6, Alone
<1>8. (\A t \in Shard : GrowShard(t)) /\ GrowCall(k)
  BY DEF Grown
<1>9. GrowProposal(s, c, ns)
  BY <1>1, <1>2, <1>8, GrowProposing
<1> HIDE DEF s
<1>10. d.node = call[k].node /\ d.todo = call[k].todo /\ d.pc \in {"learning", "changing"}
  BY <1>2 DEF Goes
<1>11. d.pc = "learning" => d.node \in ns
  BY <1>2, <1>10 DEF Goes, Learner
<1>12. ASSUME NEW t \in Shard, t = s PROVE GrowShard(t)'
  <2>1. Growing(configs'[t]) /\ voter_ids(configs'[t]) \subseteq nodes'[0]
    BY <1>1, <1>5, <1>8, <1>12 DEF GrowShard
  <2>2. /\ Growing(proposed'[t].configs)
        /\ voter_ids(proposed'[t].configs) \subseteq nodes'[0]
        /\ voter_ids(configs'[t]) \subseteq voter_ids(proposed'[t].configs)
        /\ nodes'[t] \subseteq proposed'[t].nodes
    BY <1>3, <1>5, <1>12, <1>9 DEF GrowProposal
  <2>3. At(k, "learning")' => call'[k].node \in proposed'[t].nodes
    BY <1>3, <1>5, <1>12, <1>11 DEF At
  <2>4. proposed'[t].by = k
    BY <1>3, <1>5, <1>12
  <2>. QED
    BY <2>1, <2>2, <2>3, <2>4 DEF GrowShard, Growing, voter_ids, At
<1>13. ASSUME NEW t \in Shard \ {s} PROVE GrowShard(t)'
  <2>1. proposed[t] # None => proposed[t].by = None
    BY <1>1, <1>4, <1>7, MembershipAssumption DEF ShardInv
  <2>2. ShardKeeps(t) /\ nodes[0] \subseteq nodes'[0]
    BY <1>5, <2>1 DEF ShardKeeps
  <2>. QED
    BY <1>8, <2>2, GrowShardFrame
<1>14. GrowCall(k)'
  <2>1. call[k].node \in nodes[0] \/ (call[k].pc \in {"add_learner", "learning"} /\ s = 0)
    BY <1>1, <1>8 DEF GrowCall, s
  <2>2. Current(k)' = s
    BY <1>5, <1>10 DEF Current, s
  <2>3. call[k].pc = "add_learner" => d.pc = "learning"
    BY <1>2 DEF Goes, Change, Unjoin, At
  <2>. QED
    BY <1>1, <1>5, <1>10, <2>1, <2>2, <2>3 DEF GrowCall, At
<1>15. ASSUME NEW o \in Operator \ {k} PROVE GrowCall(o)'
  BY <1>5, <1>7 DEF GrowCall, Running
<1>. QED
  BY <1>5, <1>12, <1>13, <1>14, <1>15, Zenon DEF Grown

(* A call k that runs alone moves, and has no proposal.                    *)
LEMMA GrowMove ==
  ASSUME BaseInv, Grown, NEW k \in Operator, call[k].pc \notin {"learning", "changing"},
         UNCHANGED <<raft, listener>>, NEW d, call' = [call EXCEPT ![k] = d],
         \A o \in Operator \ {k} : ~ Running(o),
         GrowCall(k)'
  PROVE  Grown'
<1>1. /\ configs' = configs /\ nodes' = nodes /\ proposed' = proposed /\ listener' = listener
      /\ (\A t \in Shard : ShardInv(t)) /\ call \in [Operator -> Calls]
      /\ proposed \in [Shard -> Entry \cup {None}]
  BY DEF raft, BaseInv, TypeInv
<1>2. \A o \in Operator \ {k} : call'[o] = call[o]
  BY <1>1
<1>3. ASSUME NEW t \in Shard PROVE GrowShard(t)'
  <2>1. proposed[t] # None /\ proposed[t].by # None => proposed[t].by \in Operator \ {k}
    BY <1>1, MembershipAssumption DEF ShardInv, Entry
  <2>2. ShardKeeps(t) /\ nodes[0] \subseteq nodes'[0] /\ GrowShard(t)
    BY <1>1, <1>2, <2>1 DEF ShardKeeps, Grown
  <2>. QED
    BY <2>2, GrowShardFrame
<1>4. ASSUME NEW o \in Operator \ {k} PROVE GrowCall(o)'
  BY <1>2 DEF GrowCall, Running
<1>. QED
  BY <1>1, <1>3, <1>4 DEF Grown

LEMMA GrowRead ==
  ASSUME BaseInv, Grown, ~ hist.overlapped, ~ hist.removed, NEW k \in Operator, read_voters(k)
  PROVE  Grown'
<1> DEFINE s == Current(k)
<1>1. Running(k) /\ At(k, "read") /\ UNCHANGED <<raft, created, pool, listener, hist>>
  BY Reading
<1>2. PICK d \in Calls : /\ call' = [call EXCEPT ![k] = d]
                         /\ Goes(call[k], d, "change") /\ d.voters = Wanted(k)
  BY Reading
<1>3. /\ configs' = configs /\ nodes' = nodes /\ proposed' = proposed /\ s \in Shard
      /\ call'[k] = d
  BY <1>1, <1>2, RunningFacts DEF raft, BaseInv, TypeInv
<1>4. hist.latest = k /\ call[k].kind = "add"
  BY <1>1 DEF BaseInv, CallInv
<1>5. \A o \in Operator \ {k} : ~ Running(o)
  BY <1>4, Alone
<1>6. call[k].node \in nodes[0]
  BY <1>1 DEF Grown, GrowCall, At
<1>7. GrowShard(s)
  BY <1>3 DEF Grown
<1>8. /\ Wanted(k) = voter_ids(Effective(s)) \cup {call[k].node}
      /\ Current(k)' = s
  BY <1>2, <1>3, <1>4 DEF Wanted, Goes, Current
<1> HIDE DEF s
<1>9. /\ voter_ids(Effective(s)) \subseteq nodes[0]
      /\ voter_ids(configs[s]) \subseteq voter_ids(Effective(s))
      /\ proposed[s] # None => voter_ids(proposed[s].configs) \subseteq voter_ids(Effective(s))
  BY <1>7 DEF GrowShard, Effective
<1>10. GrowCall(k)'
  <2>1. /\ call'[k].node \in nodes'[0] /\ call'[k].voters \subseteq nodes'[0]
        /\ voter_ids(configs'[s]) \subseteq call'[k].voters
        /\ proposed'[s] # None => voter_ids(proposed'[s].configs) \subseteq call'[k].voters
    BY <1>2, <1>3, <1>6, <1>8, <1>9 DEF Goes
  <2>. QED
    BY <1>8, <2>1 DEF GrowCall, voter_ids
<1>. QED
  BY <1>1, <1>2, <1>5, <1>10, GrowMove DEF At

LEMMA GrowFail ==
  ASSUME BaseInv, Grown, ~ hist.overlapped, NEW k \in Operator, CallFails(k)
  PROVE  Grown'
<1>1. /\ Running(k) /\ call[k].pc \notin {"learning", "changing"}
      /\ UNCHANGED <<raft, created, pool, listener, hist>>
      /\ call' = [call EXCEPT ![k] = Error] /\ call \in [Operator -> Calls]
  BY Failing DEF BaseInv, TypeInv
<1>2. hist.latest = k
  BY <1>1 DEF BaseInv, CallInv
<1>3. \A o \in Operator \ {k} : ~ Running(o)
  BY <1>2, Alone
<1>4. GrowCall(k)'
  BY <1>1, ErrorFacts DEF GrowCall, Running
<1>. QED
  BY <1>1, <1>3, <1>4, GrowMove

LEMMA GrowBegin ==
  ASSUME BaseInv, Grown, NEW k \in Operator, NEW kind \in {"add", "remove"}, NEW n \in Node,
         NEW via \in Node, Begin(k, kind, n, via), ~ hist'.overlapped, ~ hist'.removed
  PROVE  Grown'
<1>1. /\ ~ Running(k) /\ UNCHANGED <<raft, created, pool, listener>>
      /\ kind = "add" /\ \A o \in Operator : ~ Running(o)
  BY Beginning
<1>2. PICK d \in Calls :
        call' = [call EXCEPT ![k] = d] /\ d.pc = First(kind) /\ Head(d.todo) = 0
  BY Beginning, SMT
<1>3. call'[k] = d /\ d.pc = "add_learner"
  BY <1>1, <1>2 DEF BaseInv, TypeInv, First
<1>4. GrowCall(k)'
  BY <1>2, <1>3 DEF GrowCall, At, Current
<1>. QED
  BY <1>1, <1>2, <1>4, GrowMove DEF Running

(* The other shards, when the call with the proposal of s goes on.         *)
LEMMA GrowOthers ==
  ASSUME BaseInv, Grown, NEW s \in Shard, proposed[s] # None, nodes[0] \subseteq nodes'[0],
         \A t \in Shard \ {s} : /\ configs'[t] = configs[t] /\ nodes'[t] = nodes[t]
                                /\ proposed'[t] = proposed[t],
         \A o \in Operator : o # proposed[s].by => call'[o] = call[o]
  PROVE  \A t \in Shard \ {s} : GrowShard(t)'
<1>1. /\ (\A t \in Shard : ShardInv(t)) /\ proposed \in [Shard -> Entry \cup {None}]
  BY DEF BaseInv, TypeInv
<1>2. ASSUME NEW t \in Shard \ {s} PROVE GrowShard(t)'
  <2>1. proposed[t] # None /\ proposed[t].by # None =>
          proposed[t].by \in Operator /\ proposed[t].by # proposed[s].by
    BY <1>1, <1>2, SMT DEF ShardInv, Entry
  <2>2. ShardKeeps(t) /\ GrowShard(t)
    BY <1>2, <2>1 DEF ShardKeeps, Grown
  <2>. QED
    BY <2>2, GrowShardFrame
<1>. QED
  BY <1>2

LEMMA GrowCommit ==
  ASSUME BaseInv, Grown, ~ hist.removed, NEW s \in Shard, Commit(s)
  PROVE  Grown'
<1> DEFINE p == proposed[s]
<1>1. /\ p # None /\ p \in Entry
      /\ configs' = [configs EXCEPT ![s] = p.configs]
      /\ nodes' = [nodes EXCEPT ![s] = p.nodes]
      /\ proposed' = [proposed EXCEPT ![s] = None]
      /\ UNCHANGED <<created, pool, listener, hist>>
  BY Committing
<1>2. \/ p.by = None /\ UNCHANGED call
      \/ \E k \in Operator, d \in Calls :
           /\ p.by = k /\ Current(k) = s /\ call[k].pc \in {"learning", "changing"}
           /\ Resumes(call[k], d, p.configs)
           /\ call' = [call EXCEPT ![k] = d]
  BY Committing
<1>3. /\ configs \in [Shard -> Config \cup {<<>>}] /\ proposed \in [Shard -> Entry \cup {None}]
      /\ nodes \in [Shard -> SUBSET Node] /\ call \in [Operator -> Calls]
  BY DEF BaseInv, TypeInv
<1>4. /\ configs'[s] = p.configs /\ nodes'[s] = p.nodes /\ proposed'[s] = None
      /\ \A t \in Shard \ {s} : configs'[t] = configs[t] /\ nodes'[t] = nodes[t] /\ proposed'[t] = proposed[t]
  BY <1>1, <1>3
<1>5. /\ Growing(p.configs) /\ voter_ids(p.configs) \subseteq nodes[0] /\ nodes[s] \subseteq p.nodes
      /\ p.by # None /\ At(p.by, "learning") => call[p.by].node \in p.nodes
  BY <1>1 DEF Grown, GrowShard
<1>6. nodes[0] \subseteq nodes'[0] /\ 0 \in Shard
  BY <1>4, <1>5, MembershipAssumption
<1>7. Follows
  BY <1>1, <1>4 DEF Follows
<1>8. GrowShard(s)'
  <2>1. Growing(configs[s])' /\ (voter_ids(configs[s]) \subseteq nodes[0])'
    BY <1>4, <1>5, <1>6 DEF Growing, voter_ids, Goal
  <2>. QED
    BY <1>4, <2>1 DEF GrowShard
<1>9. ASSUME NEW o \in Operator, call'[o] = call[o] PROVE GrowCall(o)'
  BY <1>6, <1>7, <1>9, GrowCallFrame DEF Grown
<1>10. \A n \in Node : listener'[n] # None => listener'[n].members \subseteq nodes'[0]
  BY <1>1, <1>6 DEF Grown
<1> HIDE DEF p
<1>11. \A o \in Operator : o # p.by => call'[o] = call[o]
  BY <1>2, <1>3
<1>12. \A t \in Shard \ {s} : GrowShard(t)'
  BY <1>1, <1>4, <1>6, <1>11, GrowOthers DEF p
<1>13. ASSUME NEW k \in Operator, k = p.by PROVE GrowCall(k)'
  <2>1. k # None
    BY MembershipAssumption
  <2>2. PICK d \in Calls :
          /\ Current(k) = s /\ call[k].pc \in {"learning", "changing"}
          /\ Resumes(call[k], d, p.configs) /\ call'[k] = d
    BY <1>2, <1>3, <1>13, <2>1
  <2>3. Running(k)
    BY <2>2 DEF Running
  <2>4. call[k].node \in nodes[0] \/ (call[k].pc \in {"add_learner", "learning"} /\ s = 0)
    BY <2>2, <2>3 DEF Grown, GrowCall
  <2>5. call[k].pc = "learning" => call[k].node \in p.nodes
    BY <1>5, <1>13, <2>1 DEF At
  <2>6. call[k].node \in nodes'[0]
    BY <1>4, <1>6, <2>2, <2>4, <2>5
  <2>7. d.node = call[k].node /\ d.pc # "change"
    BY <2>2 DEF Resumes, Goes, Moves, First
  <2>. QED
    BY <2>2, <2>6, <2>7 DEF GrowCall, At
<1>. QED
  BY <1>8, <1>9, <1>10, <1>11, <1>12, <1>13 DEF Grown

LEMMA GrowElect ==
  ASSUME BaseInv, Grown, ~ hist.removed, NEW s \in Shard, NEW n \in Node, Elect(s, n)
  PROVE  Grown'
<1> DEFINE p == proposed[s]
<1>1. UNCHANGED <<configs, nodes, created, pool, listener>>
  BY Electing
<1>2. PICK e \in Entry \cup {None} :
        /\ proposed' = [proposed EXCEPT ![s] = e]
        /\ e # None => p # None /\ e.by = None /\ e.configs = p.configs /\ e.nodes = p.nodes
  BY Electing
<1>3. \/ (p = None \/ p.by = None) /\ UNCHANGED call
      \/ p # None /\ p.by \in Operator /\ call' = [call EXCEPT ![p.by] = Error]
  BY Electing DEF Error
<1>4. /\ proposed \in [Shard -> Entry \cup {None}] /\ call \in [Operator -> Calls]
  BY DEF BaseInv, TypeInv
<1>5. proposed'[s] = e /\ (\A t \in Shard \ {s} : proposed'[t] = proposed[t])
  BY <1>2, <1>4
<1>6. configs' = configs /\ nodes' = nodes /\ listener' = listener
  BY <1>1
<1>7. GrowShard(s)
  BY DEF Grown
<1> HIDE DEF p
<1>8. GrowShard(s)'
  <2>1. CASE e = None
    BY <1>5, <1>6, <1>7, <2>1 DEF GrowShard, Growing, voter_ids, Goal
  <2>2. CASE e # None
    <3>1. Growing(configs[s])' /\ (voter_ids(configs[s]) \subseteq nodes[0])'
      BY <1>6, <1>7 DEF GrowShard, Growing, voter_ids, Goal
    <3>2. /\ Growing(e.configs) /\ voter_ids(e.configs) \subseteq nodes[0]
          /\ voter_ids(configs[s]) \subseteq voter_ids(e.configs) /\ nodes[s] \subseteq e.nodes
          /\ e.by = None
      BY <1>2, <1>7, <2>2 DEF GrowShard, p
    <3>. QED
      BY <1>5, <1>6, <3>1, <3>2 DEF GrowShard, Growing, voter_ids, Goal
  <2>. QED
    BY <2>1, <2>2
<1>9. Follows
  BY <1>2, <1>5, <1>6 DEF Follows, p
<1>10. ASSUME NEW o \in Operator PROVE GrowCall(o)'
  <2>1. CASE call'[o] = call[o]
    BY <1>6, <1>9, <2>1, GrowCallFrame DEF Grown
  <2>2. CASE call'[o] = Error
    BY <2>2, ErrorFacts DEF GrowCall, Running
  <2>. QED
    BY <1>3, <1>4, <2>1, <2>2
<1>11. ASSUME NEW t \in Shard \ {s} PROVE GrowShard(t)'
  <2>1. CASE UNCHANGED call
    <3>1. ShardKeeps(t) /\ GrowShard(t) /\ nodes[0] \subseteq nodes'[0]
      BY <1>5, <1>6, <2>1 DEF ShardKeeps, Grown
    <3>. QED
      BY <3>1, GrowShardFrame
  <2>2. CASE p # None /\ call' = [call EXCEPT ![p.by] = Error]
    <3>1. \A o \in Operator : o # p.by => call'[o] = call[o]
      BY <1>4, <2>2
    <3>. QED
      BY <1>5, <1>6, <2>2, <3>1, GrowOthers DEF p
  <2>. QED
    BY <1>3, <2>1, <2>2
<1>. QED
  BY <1>6, <1>8, <1>10, <1>11 DEF Grown

LEMMA GrowStep ==
  ASSUME BaseInv, OwnInv, GrowInv, [Next]_vars, Whole'
  PROVE  GrowInv'
<1> SUFFICES ASSUME ~ hist'.removed, ~ hist'.overlapped PROVE Grown'
  BY DEF GrowInv
<1>1. ASSUME NEW k \in Operator, NEW n \in Node, NEW via \in Node, NEW kind \in {"add", "remove"},
             Begin(k, kind, n, via)
      PROVE  Grown'
  <2>1. ~ hist.removed /\ ~ hist.overlapped
    BY <1>1, Beginning
  <2>. QED
    BY <1>1, <2>1, GrowBegin DEF GrowInv
<1>2. ASSUME NEW s \in Shard, NEW n \in Node, Elect(s, n) PROVE Grown'
  <2>1. ~ hist.removed /\ ~ hist.overlapped
    BY <1>2, Electing
  <2>. QED
    BY <1>2, <2>1, GrowElect DEF GrowInv
<1>3. ASSUME hist' = hist PROVE Grown /\ ~ hist.removed /\ ~ hist.overlapped
  BY <1>3 DEF GrowInv
<1>4. ASSUME NEW k \in Operator, add_learner(k) \/ change_membership(k) \/ Uniform(k) PROVE Grown'
  <2>1. hist' = hist
    BY <1>4, Proposing
  <2>. QED
    BY <1>3, <1>4, <2>1, GrowPropose
<1>5. ASSUME NEW k \in Operator, read_voters(k) PROVE Grown'
  <2>1. hist' = hist
    BY <1>5, Reading
  <2>. QED
    BY <1>3, <1>5, <2>1, GrowRead
<1>6. ASSUME NEW k \in Operator, CallFails(k) PROVE Grown'
  <2>1. hist' = hist
    BY <1>6, Failing
  <2>. QED
    BY <1>3, <1>6, <2>1, GrowFail
<1>7. ASSUME NEW s \in Shard, Commit(s) PROVE Grown'
  <2>1. hist' = hist
    BY <1>7, Committing
  <2>. QED
    BY <1>3, <1>7, <2>1, GrowCommit
<1>8. ASSUME UNCHANGED <<raft, call, hist>>,
             \A n \in Node : listener'[n] # None =>
               listener'[n].members \subseteq voter_ids(Effective(0)) \/ listener'[n] = listener[n]
      PROVE  Grown'
  <2>1. Grown /\ ~ hist.removed
    BY <1>3, <1>8
  <2>2. voter_ids(Effective(0)) \subseteq nodes[0]
    BY <2>1, MembershipAssumption DEF Grown, GrowShard, Effective
  <2>3. \A n \in Node : listener'[n] # None => listener'[n].members \subseteq nodes[0]
    BY <1>8, <2>1, <2>2 DEF Grown
  <2>. QED
    BY <1>8, <2>1, <2>3, GrowQuiet
<1>9. ASSUME NEW s \in Shard, shard_create(s) PROVE Grown'
  BY <1>8, <1>9 DEF shard_create
<1>10. ASSUME NEW n \in Node, NEW s \in Shard, CreateShard(n, s) PROVE Grown'
  <2>1. /\ UNCHANGED <<raft, call, hist>>
        /\ \A a \in Node : listener'[a] # None => listener'[a].members = {} \/ listener'[a] = listener[a]
    BY <1>10, Creating
  <2>. QED
    BY <1>8, <2>1
<1>15. ASSUME NEW n \in Node, NEW s \in Shard, CreateErr(n, s) \/ Contact(s, n) PROVE Grown'
  BY <1>8, <1>15 DEF CreateErr, Contact
<1>11. ASSUME NEW n \in Node, get_current_members(n) PROVE Grown'
  <2>1. /\ UNCHANGED <<raft, call, hist>>
        /\ \A a \in Node : listener'[a] # None =>
             listener'[a].members \subseteq voter_ids(Effective(0)) \/ listener'[a] = listener[a]
    BY <1>11, Asking
  <2>. QED
    BY <1>8, <2>1
<1>12. CASE UNCHANGED vars
  BY <1>8, <1>12 DEF vars
<1>13. ASSUME NEW n \in Node, cluster_init(n) PROVE Grown'
  <2>1. Starts(0, Members) /\ UNCHANGED <<proposed, leader, created, pool, listener, call, hist>>
    BY <1>13, ClusterInit
  <2>2. 0 \in Shard /\ nodes[0] = {} /\ nodes'[0] = Members
    BY <2>1, MembershipAssumption DEF BaseInv, TypeInv, ShardInv, Starts
  <2>3. Grown /\ ~ hist.removed
    BY <1>3, <2>1
  <2>. QED
    BY <2>1, <2>2, <2>3, GrowStart
<1>14. ASSUME NEW n \in Node, initialize(n) PROVE Grown'
  <2> DEFINE s == listener[n].shard
             m == listener[n].members
  <2>1. /\ hist' = hist /\ listener[n] # None /\ s \in Shard \ {0}
        /\ \A a \in Node : listener'[a] # None => listener'[a] = listener[a]
        /\ (Starts(s, m) /\ UNCHANGED <<proposed, call>>) \/ UNCHANGED <<raft, call>>
    BY <1>14, Initializing, InitializedOnce
  <2>2. Grown /\ ~ hist.removed /\ m \subseteq nodes[0]
    BY <1>3, <2>1 DEF Grown
  <2> HIDE DEF s, m
  <2>3. CASE Starts(s, m) /\ UNCHANGED <<proposed, call>>
    <3>1. nodes'[0] = nodes[0]
      BY <2>1, <2>3, MembershipAssumption DEF BaseInv, TypeInv, Starts
    <3>. QED
      BY <2>1, <2>2, <2>3, <3>1, GrowStart
  <2>4. CASE UNCHANGED <<raft, call>>
    BY <1>8, <2>1, <2>4
  <2>. QED
    BY <2>1, <2>3, <2>4
<1>. QED
  BY <1>1, <1>2, <1>4, <1>5, <1>6, <1>7, <1>9, <1>10, <1>11, <1>12, <1>13, <1>14, <1>15, Steps

-----------------------------------------------------------------------------
(* OneInv.                                                                 *)

LEMMA CloseFacts ==
  ASSUME NEW v, NEW x
  PROVE  Close(v, v) /\ Close(v, v \cup {x}) /\ Close(v, v \ {x})
  BY DEF Close, AtMostOne

(* A shard whose membership and pending proposal are what they were, or    *)
(* whose proposal is gone.                                                 *)
LEMMA OneShardFrame ==
  ASSUME NEW s \in Shard, OneShard(s), configs'[s] = configs[s],
         proposed'[s] # None => proposed[s] # None /\ proposed'[s].configs = proposed[s].configs
  PROVE  OneShard(s)'
<1>1. OneLess(configs'[s])
  BY DEF OneShard
<1>2. proposed'[s] # None =>
        /\ OneLess(proposed'[s].configs)
        /\ Close(voter_ids(configs'[s]), voter_ids(proposed'[s].configs))
  BY DEF OneShard
<1>. QED
  BY <1>1, <1>2 DEF OneShard, OneLess, Close, AtMostOne, voter_ids, Goal

LEMMA OneCallFrame ==
  ASSUME BaseInv, NEW k \in Operator, OneCall(k), call'[k] = call[k],
         \A s \in Shard : (At(k, "change") /\ Current(k) = s /\ configs[s] # <<>>) =>
           configs'[s] # <<>> /\ Effective(s)' = Effective(s)
  PROVE  OneCall(k)'
<1> SUFFICES ASSUME call'[k].pc = "change", call'[k].voters # {} PROVE OneCall(k)'
  BY DEF OneCall, At
<1>1. At(k, "change") /\ call[k].voters # {}
  BY DEF At
<1>2. Running(k)
  BY <1>1 DEF At, Running
<1>3. PICK s \in Shard : Current(k) = s
  BY <1>2, RunningFacts
<1>4. configs[s] # <<>> /\ Close(voter_ids(Effective(s)), call[k].voters)
  BY <1>1, <1>3 DEF OneCall
<1>5. configs'[s] # <<>> /\ Effective(s)' = Effective(s)
  BY <1>1, <1>3, <1>4
<1>6. Current(k)' = s
  BY <1>3 DEF Current
<1>7. Close(voter_ids(Effective(s)'), call'[k].voters)
  BY <1>4, <1>5
<1>. QED
  BY <1>5, <1>6, <1>7 DEF OneCall, Close, AtMostOne, voter_ids, Effective

(* Calls that do not move, in a step that proposes nothing.                *)
LEMMA OneQuiet ==
  ASSUME BaseInv, Single, UNCHANGED <<raft, call>>
  PROVE  Single'
<1>1. configs' = configs /\ proposed' = proposed /\ call' = call
  BY DEF raft
<1>2. ASSUME NEW s \in Shard PROVE OneShard(s)'
  BY <1>1, OneShardFrame DEF Single
<1>3. ASSUME NEW k \in Operator PROVE OneCall(k)'
  <2>1. \A s \in Shard : Effective(s)' = Effective(s)
    BY <1>1 DEF Effective
  <2>. QED
    BY <1>1, <2>1, OneCallFrame DEF Single
<1>. QED
  BY <1>2, <1>3 DEF Single

LEMMA OneStart ==
  ASSUME BaseInv, Single, NEW s \in Shard, NEW m, Starts(s, m), UNCHANGED <<proposed, call>>
  PROVE  Single'
<1>1. <<m>> \in Config /\ voter_ids(<<m>>) = m /\ Goal(<<m>>) = m
  BY UniformFacts DEF Starts
<1>2. /\ configs'[s] = <<m>>
      /\ \A t \in Shard \ {s} : configs'[t] = configs[t]
  BY DEF BaseInv, TypeInv, Starts
<1>3. proposed[s] = None /\ configs[s] = <<>>
  BY DEF BaseInv, ShardInv, Starts
<1>4. OneShard(s)'
  <2>1. OneLess(configs'[s])
    BY <1>1, <1>2 DEF OneLess, AtMostOne
  <2>2. proposed'[s] = None
    BY <1>3
  <2>. QED
    BY <2>1, <2>2 DEF OneShard, OneLess, AtMostOne, voter_ids, Goal
<1>5. ASSUME NEW t \in Shard \ {s} PROVE OneShard(t)'
  BY <1>2, OneShardFrame DEF Single
<1>6. ASSUME NEW k \in Operator PROVE OneCall(k)'
  <2>1. \A t \in Shard : configs[t] # <<>> => configs'[t] # <<>> /\ Effective(t)' = Effective(t)
    BY <1>2, <1>3 DEF Effective
  <2>. QED
    BY <2>1, OneCallFrame DEF Single
<1>. QED
  BY <1>4, <1>5, <1>6 DEF Single

(* A call k that runs alone moves, and has no proposal.                    *)
LEMMA OneMove ==
  ASSUME BaseInv, Single, NEW k \in Operator, UNCHANGED raft, NEW d, call' = [call EXCEPT ![k] = d],
         \A o \in Operator \ {k} : ~ Running(o), OneCall(k)'
  PROVE  Single'
<1>1. configs' = configs /\ proposed' = proposed /\ call \in [Operator -> Calls]
  BY DEF raft, BaseInv, TypeInv
<1>2. \A o \in Operator \ {k} : call'[o] = call[o]
  BY <1>1
<1>3. ASSUME NEW s \in Shard PROVE OneShard(s)'
  BY <1>1, OneShardFrame DEF Single
<1>4. ASSUME NEW o \in Operator \ {k} PROVE OneCall(o)'
  BY <1>2 DEF OneCall, Running, At
<1>. QED
  BY <1>3, <1>4 DEF Single

LEMMA OneRead ==
  ASSUME BaseInv, Single, ~ hist.overlapped, NEW k \in Operator, read_voters(k)
  PROVE  Single'
<1>1. Running(k) /\ At(k, "read") /\ UNCHANGED <<raft, created, pool, listener, hist>>
  BY Reading
<1>2. PICK d \in Calls : /\ call' = [call EXCEPT ![k] = d]
                         /\ Goes(call[k], d, "change") /\ d.voters = Wanted(k)
  BY Reading
<1>3. PICK s \in Shard : Current(k) = s
  BY <1>1, RunningFacts
<1>4. configs' = configs /\ proposed' = proposed /\ call'[k] = d
  BY <1>1, <1>2 DEF raft, BaseInv, TypeInv
<1>5. hist.latest = k
  BY <1>1 DEF BaseInv, CallInv
<1>6. \A o \in Operator \ {k} : ~ Running(o)
  BY <1>5, Alone
<1>7. Current(k)' = s /\ Effective(s)' = Effective(s)
  BY <1>2, <1>3, <1>4 DEF Goes, Current, Effective
<1>8. Close(voter_ids(Effective(s)), d.voters)
  <2> DEFINE v == voter_ids(Effective(s))
             x == call[k].node
  <2>1. d.voters = v \cup {x} \/ d.voters = v \ {x}
    BY <1>2, <1>3 DEF Wanted
  <2> HIDE DEF v, x
  <2>2. Close(v, v \cup {x}) /\ Close(v, v \ {x})
    BY CloseFacts
  <2>3. Close(v, d.voters)
    BY <2>1, <2>2
  <2>. QED
    BY <2>3 DEF v
<1>9. configs[s] # <<>> \/ d.voters = {}
  <2>1. CASE call[k].kind = "add"
    BY <1>1, <1>3, <2>1 DEF BaseInv, CallInv, At
  <2>2. CASE call[k].kind # "add" /\ configs[s] = <<>>
    <3>1. Effective(s) = <<>>
      BY <2>2 DEF BaseInv, ShardInv, Effective
    <3>. QED
      BY <1>2, <1>3, <2>2, <3>1, NoVoters DEF Wanted
  <2>. QED
    BY <2>1, <2>2
<1>10. OneCall(k)'
  <2>1. Close(voter_ids(Effective(s)'), call'[k].voters)
    BY <1>4, <1>7, <1>8
  <2>2. configs'[s] # <<>> \/ call'[k].voters = {}
    BY <1>4, <1>9
  <2>. QED
    BY <1>7, <2>1, <2>2 DEF OneCall, Close, AtMostOne, voter_ids, Effective
<1>. QED
  BY <1>1, <1>2, <1>6, <1>10, OneMove

LEMMA OneProposing ==
  ASSUME NEW k \in Operator, NEW s \in Shard, NEW c, NEW ns, configs[s] \in Config,
         OneShard(s), OneCall(k), s = Current(k), proposed[s] = None,
         Learner(k, s, c, ns) \/ Change(k, s, c, ns) \/ Unjoin(k, s, c, ns)
  PROVE  OneLess(c) /\ Close(voter_ids(configs[s]), voter_ids(c))
<1>1. OneLess(configs[s]) /\ configs[s] # <<>>
  BY ConfigFacts DEF OneShard
<1>2. CASE Learner(k, s, c, ns)
  BY <1>1, <1>2, CloseFacts DEF Learner
<1>3. CASE Change(k, s, c, ns)
  <2>1. /\ call[k].voters \in Voters /\ c = next_coherent(configs[s], call[k].voters)
        /\ At(k, "change") /\ call[k].voters # {}
    BY <1>3 DEF Change, Voters
  <2>2. Effective(s) = configs[s]
    BY DEF Effective
  <2>3. Close(voter_ids(configs[s]), call[k].voters)
    BY <2>1, <2>2 DEF OneCall
  <2>. QED
    BY <2>1, <2>3, CoherentFacts
<1>4. CASE Unjoin(k, s, c, ns)
  <2> DEFINE W == Goal(configs[s])
  <2>1. c = <<W>> /\ W \in Voters /\ W \subseteq voter_ids(configs[s])
    BY <1>4, ConfigFacts DEF Unjoin
  <2>2. AtMostOne(voter_ids(configs[s]) \ W)
    BY <1>1 DEF OneLess
  <2> HIDE DEF W
  <2>3. voter_ids(c) = W /\ Goal(c) = W
    BY <2>1, UniformFacts
  <2>. QED
    BY <2>1, <2>2, <2>3 DEF OneLess, Close, AtMostOne
<1>. QED
  BY <1>2, <1>3, <1>4

LEMMA OnePropose ==
  ASSUME BaseInv, Single, ~ hist.overlapped, NEW k \in Operator,
         add_learner(k) \/ change_membership(k) \/ Uniform(k)
  PROVE  Single'
<1>1. Running(k) /\ UNCHANGED <<configs, nodes, leader, created, pool, listener, hist>>
  BY Proposing
<1>2. PICK s \in Shard : s = Current(k)
  BY <1>1, RunningFacts
<1>3. configs[s] \in Config /\ proposed[s] = None
  BY <1>2, Proposing
<1>4. PICK c \in Config, ns \in SUBSET Node, d \in Calls :
        /\ proposed' = [proposed EXCEPT ![s] = [configs |-> c, nodes |-> ns, by |-> k]]
        /\ call' = [call EXCEPT ![k] = d]
        /\ \/ Learner(k, s, c, ns) /\ Goes(call[k], d, "learning")
           \/ (Change(k, s, c, ns) \/ Unjoin(k, s, c, ns)) /\ Goes(call[k], d, "changing")
  BY <1>2, Proposing
<1> DEFINE e == [configs |-> c, nodes |-> ns, by |-> k]
<1>5. e.configs = c /\ proposed' = [proposed EXCEPT ![s] = e]
  BY <1>4
<1>6. /\ proposed \in [Shard -> Entry \cup {None}] /\ call \in [Operator -> Calls] /\ CallInv(k)
  BY DEF BaseInv, TypeInv
<1> HIDE DEF e
<1>7. /\ proposed'[s] = e /\ (\A t \in Shard \ {s} : proposed'[t] = proposed[t])
      /\ call'[k] = d /\ (\A o \in Operator \ {k} : call'[o] = call[o])
      /\ configs' = configs
  BY <1>1, <1>4, <1>5, <1>6
<1>8. hist.latest = k
  BY <1>1, <1>6 DEF CallInv
<1>9. \A o \in Operator \ {k} : ~ Running(o)
  BY <1>8, Alone
<1>10. OneLess(c) /\ Close(voter_ids(configs[s]), voter_ids(c)) /\ OneLess(configs[s])
  <2>1. OneShard(s) /\ OneCall(k)
    BY DEF Single
  <2>. QED
    BY <1>2, <1>3, <1>4, <2>1, OneProposing DEF OneShard
<1>11. OneShard(s)'
  <2>1. /\ OneLess(configs'[s]) /\ OneLess(proposed'[s].configs)
        /\ Close(voter_ids(configs'[s]), voter_ids(proposed'[s].configs))
    BY <1>5, <1>7, <1>10
  <2>. QED
    BY <2>1 DEF OneShard, OneLess, Close, AtMostOne, voter_ids, Goal
<1>12. ASSUME NEW t \in Shard \ {s} PROVE OneShard(t)'
  BY <1>7, OneShardFrame DEF Single
<1>13. OneCall(k)'
  BY <1>4, <1>7 DEF OneCall, At, Goes
<1>14. ASSUME NEW o \in Operator \ {k} PROVE OneCall(o)'
  BY <1>7, <1>9 DEF OneCall, Running, At
<1>. QED
  BY <1>11, <1>12, <1>13, <1>14 DEF Single

LEMMA OneCommit ==
  ASSUME BaseInv, Single, NEW s \in Shard, Commit(s)
  PROVE  Single'
<1> DEFINE p == proposed[s]
<1>1. /\ p # None /\ p \in Entry
      /\ configs' = [configs EXCEPT ![s] = p.configs]
      /\ proposed' = [proposed EXCEPT ![s] = None]
  BY Committing
<1>2. \/ UNCHANGED call
      \/ \E k \in Operator, d \in Calls :
           Resumes(call[k], d, p.configs) /\ call' = [call EXCEPT ![k] = d]
  BY Committing, SMT
<1>3. /\ configs \in [Shard -> Config \cup {<<>>}] /\ proposed \in [Shard -> Entry \cup {None}]
      /\ call \in [Operator -> Calls]
  BY DEF BaseInv, TypeInv
<1>4. /\ configs'[s] = p.configs /\ proposed'[s] = None
      /\ \A t \in Shard \ {s} : configs'[t] = configs[t] /\ proposed'[t] = proposed[t]
  BY <1>1, <1>3
<1>5. p.configs \in Config /\ OneLess(p.configs)
  BY <1>1 DEF Entry, Single, OneShard
<1>6. p.configs # <<>>
  BY <1>5, ConfigFacts
<1>7. \A t \in Shard : Effective(t)' = Effective(t) /\ (configs[t] # <<>> => configs'[t] # <<>>)
  BY <1>1, <1>4, <1>6, SMT DEF Effective
<1> HIDE DEF p
<1>8. OneShard(s)'
  <2>1. OneLess(configs'[s])
    BY <1>4, <1>5
  <2>. QED
    BY <1>4, <2>1 DEF OneShard, OneLess, AtMostOne, voter_ids, Goal
<1>9. ASSUME NEW t \in Shard \ {s} PROVE OneShard(t)'
  BY <1>4, OneShardFrame DEF Single
<1>10. ASSUME NEW o \in Operator PROVE OneCall(o)'
  <2>1. CASE call'[o] = call[o]
    BY <1>7, <2>1, OneCallFrame DEF Single
  <2>2. ASSUME NEW d \in Calls, Resumes(call[o], d, p.configs), call'[o] = d PROVE OneCall(o)'
    <3>1. d.pc # "change"
      BY <2>2 DEF Resumes, Goes, Moves, First
    <3>. QED
      BY <2>2, <3>1 DEF OneCall, At
  <2>. QED
    BY <1>2, <1>3, <2>1, <2>2
<1>. QED
  BY <1>8, <1>9, <1>10 DEF Single

LEMMA OneElect ==
  ASSUME BaseInv, Single, ~ hist.overlapped, NEW s \in Shard, NEW n \in Node, Elect(s, n),
         ~ hist'.dropped
  PROVE  Single'
<1> DEFINE p == proposed[s]
<1>1. configs' = configs
  BY Electing
<1>2. PICK e \in Entry \cup {None} :
        /\ proposed' = [proposed EXCEPT ![s] = e]
        /\ e # None => p # None /\ e.by = None /\ e.configs = p.configs /\ e.nodes = p.nodes
        /\ e = None /\ p # None => p.by # None
  BY Electing
<1>3. \/ UNCHANGED call
      \/ p # None /\ p.by \in Operator /\ call' = [call EXCEPT ![p.by] = Error]
  BY Electing DEF Error
<1>4. /\ proposed \in [Shard -> Entry \cup {None}] /\ call \in [Operator -> Calls]
      /\ ShardInv(s) /\ (\A o \in Operator : CallInv(o))
  BY DEF BaseInv, TypeInv
<1>5. proposed'[s] = e /\ (\A t \in Shard \ {s} : proposed'[t] = proposed[t])
  BY <1>2, <1>4
<1>6. ASSUME NEW t \in Shard PROVE OneShard(t)'
  <2>1. OneShard(t) /\ configs'[t] = configs[t]
    BY <1>1 DEF Single
  <2>2. proposed'[t] # None => proposed[t] # None /\ proposed'[t].configs = proposed[t].configs
    BY <1>2, <1>5
  <2>. QED
    BY <2>1, <2>2, OneShardFrame
<1> HIDE DEF p
<1>7. ASSUME NEW o \in Operator, NEW t \in Shard, At(o, "change"), Current(o) = t
      PROVE  Effective(t)' = Effective(t)
  <2>1. CASE t # s
    BY <1>1, <1>5, <2>1 DEF Effective
  <2>2. CASE t = s /\ (e # None \/ p = None)
    BY <1>1, <1>2, <1>5, <2>2 DEF Effective, p
  <2>3. CASE e = None /\ p # None
    <3>1. p.by \in Operator /\ call[p.by].pc \in {"learning", "changing"}
      BY <1>2, <1>4, <2>3 DEF ShardInv, Entry, p
    <3>2. Running(p.by) /\ Running(o) /\ p.by # o
      BY <1>7, <3>1 DEF Running, At
    <3>3. hist.latest = p.by /\ hist.latest = o
      BY <1>4, <3>1, <3>2 DEF CallInv
    <3>. QED
      BY <3>2, <3>3
  <2>. QED
    BY <2>1, <2>2, <2>3
<1>8. ASSUME NEW o \in Operator PROVE OneCall(o)'
  <2>1. CASE call'[o] = call[o]
    <3>1. OneCall(o)
      BY DEF Single
    <3>. QED
      BY <1>1, <1>7, <2>1, <3>1, OneCallFrame
  <2>2. CASE call'[o] = Error
    BY <2>2, ErrorFacts DEF OneCall, At
  <2>. QED
    BY <1>3, <1>4, <2>1, <2>2
<1>. QED
  BY <1>6, <1>8 DEF Single

LEMMA OneStep ==
  ASSUME BaseInv, OwnInv, OneInv, [Next]_vars, Whole'
  PROVE  OneInv'
<1> SUFFICES ASSUME ~ hist'.overlapped, ~ hist'.dropped PROVE Single'
  BY DEF OneInv
<1>1. ASSUME NEW k \in Operator, NEW n \in Node, NEW via \in Node, NEW kind \in {"add", "remove"},
             Begin(k, kind, n, via)
      PROVE  Single'
  <2>1. /\ ~ hist.overlapped /\ hist'.dropped = hist.dropped
        /\ (\A o \in Operator : ~ Running(o)) /\ UNCHANGED <<raft, created, pool, listener>>
    BY <1>1, Beginning
  <2>2. PICK d \in Calls : call' = [call EXCEPT ![k] = d] /\ d.pc = First(kind)
    BY <1>1, Beginning, SMT
  <2>3. call'[k] = d /\ d.pc # "change"
    BY <2>2 DEF BaseInv, TypeInv, First
  <2>4. Single /\ OneCall(k)'
    BY <2>1, <2>3 DEF OneInv, OneCall, At
  <2>. QED
    BY <2>1, <2>2, <2>4, OneMove
<1>2. ASSUME NEW s \in Shard, NEW n \in Node, Elect(s, n) PROVE Single'
  <2>1. ~ hist.overlapped /\ ~ hist.dropped
    BY <1>2, Electing
  <2>. QED
    BY <1>2, <2>1, OneElect DEF OneInv
<1>3. ASSUME hist' = hist PROVE Single /\ ~ hist.overlapped
  BY <1>3 DEF OneInv
<1>4. ASSUME NEW k \in Operator, add_learner(k) \/ change_membership(k) \/ Uniform(k) PROVE Single'
  <2>1. hist' = hist
    BY <1>4, Proposing
  <2>. QED
    BY <1>3, <1>4, <2>1, OnePropose
<1>5. ASSUME NEW k \in Operator, read_voters(k) PROVE Single'
  <2>1. hist' = hist
    BY <1>5, Reading
  <2>. QED
    BY <1>3, <1>5, <2>1, OneRead
<1>6. ASSUME NEW k \in Operator, CallFails(k) PROVE Single'
  <2>1. /\ Running(k) /\ UNCHANGED <<raft, created, pool, listener, hist>>
        /\ call' = [call EXCEPT ![k] = Error] /\ call \in [Operator -> Calls]
    BY <1>6, Failing DEF BaseInv, TypeInv
  <2>2. Single /\ ~ hist.overlapped
    BY <1>3, <2>1
  <2>3. hist.latest = k
    BY <2>1, <2>2 DEF BaseInv, CallInv
  <2>4. \A o \in Operator \ {k} : ~ Running(o)
    BY <2>2, <2>3, Alone
  <2>5. OneCall(k)'
    BY <2>1, ErrorFacts DEF OneCall, At
  <2>. QED
    BY <2>1, <2>2, <2>4, <2>5, OneMove
<1>7. ASSUME NEW s \in Shard, Commit(s) PROVE Single'
  <2>1. hist' = hist
    BY <1>7, Committing
  <2>. QED
    BY <1>3, <1>7, <2>1, OneCommit
<1>8. ASSUME UNCHANGED <<raft, call, hist>> PROVE Single'
  BY <1>3, <1>8, OneQuiet
<1>9. ASSUME NEW s \in Shard, shard_create(s) PROVE Single'
  BY <1>8, <1>9 DEF shard_create
<1>10. ASSUME NEW n \in Node, NEW s \in Shard, CreateShard(n, s) \/ CreateErr(n, s) \/ Contact(s, n)
       PROVE  Single'
  BY <1>8, <1>10 DEF CreateShard, CreateErr, Contact
<1>11. ASSUME NEW n \in Node, get_current_members(n) PROVE Single'
  BY <1>8, <1>11 DEF get_current_members
<1>12. CASE UNCHANGED vars
  BY <1>8, <1>12 DEF vars
<1>13. ASSUME NEW n \in Node, cluster_init(n) PROVE Single'
  <2>1. Starts(0, Members) /\ UNCHANGED <<proposed, call, hist>> /\ 0 \in Shard
    BY <1>13, ClusterInit, MembershipAssumption
  <2>. QED
    BY <1>3, <2>1, OneStart
<1>14. ASSUME NEW n \in Node, initialize(n) PROVE Single'
  <2> DEFINE s == listener[n].shard
             m == listener[n].members
  <2>1. /\ hist' = hist /\ s \in Shard
        /\ (Starts(s, m) /\ UNCHANGED <<proposed, call>>) \/ UNCHANGED <<raft, call>>
    BY <1>14, Initializing, InitializedOnce
  <2> HIDE DEF s, m
  <2>2. CASE Starts(s, m) /\ UNCHANGED <<proposed, call>>
    BY <1>3, <2>1, <2>2, OneStart
  <2>3. CASE UNCHANGED <<raft, call>>
    BY <1>8, <2>1, <2>3
  <2>. QED
    BY <2>1, <2>2, <2>3
<1>. QED
  BY <1>1, <1>2, <1>4, <1>5, <1>6, <1>7, <1>9, <1>10, <1>11, <1>12, <1>13, <1>14, Steps

-----------------------------------------------------------------------------
(* What the calls promise.                                                 *)

(* Inv is an inductive invariant of the membership model.                  *)
THEOREM Invariance == Spec => []Inv
<1>1. Init => Inv
  BY InitInv
<1>2. Inv /\ [Next]_vars => Inv'
  <2> SUFFICES ASSUME Inv, [Next]_vars PROVE Inv'
    OBVIOUS
  <2>1. BaseInv /\ OwnInv
    BY DEF Inv
  <2>2. BaseInv' /\ OwnInv'
    BY <2>1, BaseStep, OwnStep
  <2>3. ASSUME Whole' PROVE (\A k \in Operator : DoneInv(k)') /\ GrowInv' /\ OneInv'
    <3>1. Whole
      BY <2>1, <2>3, WholeBefore
    <3>2. (\A k \in Operator : DoneInv(k)) /\ GrowInv /\ OneInv
      BY <3>1 DEF Inv
    <3>3. GrowInv' /\ OneInv'
      BY <2>1, <2>3, <3>2, GrowStep, OneStep
    <3>4. ASSUME NEW k \in Operator PROVE DoneInv(k)'
      BY <2>1, <2>3, <3>2, DoneStep
    <3>. QED
      BY <3>3, <3>4
  <2>. QED
    BY <2>2, <2>3 DEF Inv
<1>. QED
  BY <1>1, <1>2, PTL DEF Spec

(* Whatever administrative calls, elections and new shards there are, a    *)
(* shard's membership is uniform or joint, none of its voter sets is       *)
(* empty, and every voter has an address.                                  *)
THEOREM MembershipTypeCorrect == Spec => []TypeOK
<1>1. ASSUME Inv PROVE TypeOK
  <2>1. TypeInv /\ PoolInv /\ (\A s \in Shard : ShardInv(s)) /\ (\A k \in Operator : CallInv(k))
    BY <1>1 DEF Inv, BaseInv
  <2>2. ASSUME NEW s \in Shard
        PROVE  /\ leader[s] \in Node \cup {NoLeader}
               /\ Len(configs[s]) \in 0..2 /\ {} \notin Range(configs[s])
               /\ voter_ids(configs[s]) \subseteq nodes[s] /\ nodes[s] \subseteq Node
    <3>1. /\ leader[s] \in Node \cup {NoLeader} /\ nodes[s] \subseteq Node
          /\ configs[s] \in Config \cup {<<>>}
      BY <2>1 DEF TypeInv
    <3>2. voter_ids(configs[s]) \subseteq nodes[s]
      BY <2>1 DEF ShardInv
    <3>3. CASE configs[s] \in Config
      <4>1. Len(configs[s]) \in {1, 2} /\ {} \notin Range(configs[s])
        BY <3>3, ConfigFacts
      <4>. QED
        BY <3>1, <3>2, <4>1, SMT
    <3>4. CASE configs[s] = <<>>
      <4>1. Len(configs[s]) = 0 /\ {} \notin Range(configs[s])
        BY <3>4, SMT DEF Range
      <4>. QED
        BY <3>1, <3>2, <4>1, SMT
    <3>. QED
      BY <3>1, <3>3, <3>4
  <2>3. /\ created \subseteq Shard \ {0}
        /\ \A n \in Node : 0 \in pool[n] /\ pool[n] \subseteq created \cup {0}
    BY <2>1 DEF TypeInv, PoolInv
  <2>5. /\ \A n \in Node : started[n] \subseteq pool[n] /\ failed[n] \subseteq created \ pool[n]
        /\ \A s \in Shard : founded[s] = {} <=> configs[s] = <<>>
    BY <1>1 DEF Inv, OwnInv
  <2>4. \A k \in Operator : Running(k) => call[k].todo # <<>>
    BY <2>1 DEF CallInv
  <2>. QED
    BY <2>2, <2>3, <2>4, <2>5 DEF TypeOK
<1>. QED
  BY <1>1, Invariance, PTL

(* cluster_add_node and cluster_remove_node that answered OK, with no      *)
(* other call beside or after them, have made the node a voter of every    *)
(* shard that list_shards() returned, or of none of them, unless listeners *)
(* initialized some shard with two different lists of members.             *)
THEOREM CallsDoWhatTheyAnswer == Spec => []AnsweredMeansDone
<1>1. ASSUME Inv PROVE AnsweredMeansDone
  <2>1. ASSUME NEW k \in Operator, hist.latest = k, ~ hist.overlapped, Whole, call[k].pc = "ok",
               NEW s \in call[k].listed
        PROVE  (call[k].node \in voter_ids(configs[s])) <=> call[k].kind = "add"
    <3>1. call[k].todo = <<>>
      BY <1>1, <2>1 DEF Inv, BaseInv, CallInv
    <3>2. Range(call[k].todo) = {}
      BY <3>1 DEF Range
    <3>3. Settled(k, s)
      BY <1>1, <2>1, <3>2 DEF Inv, DoneInv
    <3>. QED
      BY <3>3 DEF Settled, Meant
  <2>. QED
    BY <2>1 DEF AnsweredMeansDone
<1>. QED
  BY <1>1, Invariance, PTL

(* While nodes are added one call after the other, and no shard has been   *)
(* initialized with two different lists, every voter of every shard        *)
(* belongs to shard 0, from whose log a node learns of the shard.          *)
THEOREM VotersAreHosts == Spec => []VotersWillHost
<1>1. ASSUME Inv PROVE VotersWillHost
  BY <1>1 DEF Inv, GrowInv, Grown, GrowShard, VotersWillHost
<1>. QED
  BY <1>1, Invariance, PTL

(* The committed voters of a shard that was initialized, with one list,    *)
(* change only by the proposal that is pending.                            *)
LEMMA OnlyCommitted ==
  ASSUME BaseInv, OwnInv, [Next]_vars, Whole', NEW s \in Shard, configs[s] # <<>>
  PROVE  configs'[s] = configs[s] \/ (proposed[s] # None /\ configs'[s] = proposed[s].configs)
<1>0. configs \in [Shard -> Config \cup {<<>>}]
  BY DEF BaseInv, TypeInv
<1>1. ASSUME NEW t \in Shard, NEW m, Starts(t, m) PROVE configs'[s] = configs[s]
  BY <1>0, <1>1 DEF Starts
<1>2. ASSUME NEW n \in Node, cluster_init(n) PROVE configs'[s] = configs[s]
  BY <1>1, <1>2, ClusterInit, MembershipAssumption
<1>3. ASSUME NEW n \in Node, initialize(n) PROVE configs'[s] = configs[s]
  <2>1. /\ listener[n].shard \in Shard
        /\ Starts(listener[n].shard, listener[n].members) \/ configs' = configs
    BY <1>3, Initializing, InitializedOnce DEF raft
  <2>. QED
    BY <1>1, <2>1
<1>4. ASSUME NEW t \in Shard, Commit(t)
      PROVE  configs'[s] = configs[s] \/ (proposed[s] # None /\ configs'[s] = proposed[s].configs)
  <2>1. proposed[t] # None /\ configs' = [configs EXCEPT ![t] = proposed[t].configs]
    BY <1>4, Committing
  <2>. QED
    BY <1>0, <2>1
<1>5. ASSUME NEW t \in Shard, NEW n \in Node, Elect(t, n) PROVE configs' = configs
  BY <1>5, Electing
<1>6. ASSUME NEW k \in Operator, add_learner(k) \/ change_membership(k) \/ Uniform(k)
      PROVE  configs' = configs
  BY <1>6, Proposing
<1>7. ASSUME UNCHANGED raft PROVE configs' = configs
  BY <1>7 DEF raft
<1>. QED
  BY <1>2, <1>3, <1>4, <1>5, <1>6, <1>7, Steps
     DEF Begin, read_voters, CallFails, shard_create, CreateShard, CreateErr, Contact,
         get_current_members, vars

(* While calls do not overlap, no second election drops what a first one   *)
(* kept and no listener initializes a shard again with another list, every *)
(* change of a shard's voters, by add-node, remove-node or a listener that *)
(* initializes an instance of its own, adds or removes one voter at most.  *)
THEOREM OneVoter == Spec => OneVoterAtATime
<1> DEFINE Change1(s) ==
             (configs[s] # <<>> /\ ~ hist.overlapped /\ ~ hist.dropped /\ Whole') =>
               LET v == voter_ids(configs[s])
                   w == voter_ids(configs'[s])
               IN  Cardinality((v \ w) \cup (w \ v)) <= 1
<1>1. ASSUME Inv, [Next]_vars, NEW s \in Shard PROVE Change1(s)
  <2> SUFFICES ASSUME configs[s] # <<>>, ~ hist.overlapped, ~ hist.dropped, Whole'
               PROVE  LET v == voter_ids(configs[s])
                          w == voter_ids(configs'[s])
                      IN  Cardinality((v \ w) \cup (w \ v)) <= 1
    OBVIOUS
  <2> DEFINE v == voter_ids(configs[s])
             w == voter_ids(configs'[s])
  <2>1. BaseInv /\ OwnInv /\ OneShard(s)
    BY <1>1, WholeBefore DEF Inv, OneInv, Single
  <2>2. configs'[s] = configs[s] \/ (proposed[s] # None /\ configs'[s] = proposed[s].configs)
    BY <1>1, <2>1, OnlyCommitted
  <2>3. Close(v, w)
    BY <2>1, <2>2, CloseFacts DEF OneShard
  <2> HIDE DEF v, w
  <2>4. AtMostOne((v \ w) \cup (w \ v))
    BY <2>3 DEF Close
  <2>5. Cardinality((v \ w) \cup (w \ v)) <= 1
    BY <2>4, OneIsCount
  <2>. QED
    BY <2>5 DEF v, w
<1>2. Inv /\ [Next]_vars => [\A s \in Shard : Change1(s)]_vars
  BY <1>1
<1>. QED
  BY <1>2, Invariance, PTL DEF Spec, OneVoterAtATime
=============================================================================
