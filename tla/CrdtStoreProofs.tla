---------------------------- MODULE CrdtStoreProofs ----------------------------
(***************************************************************************)
(* What the runs of CrdtStore find in Redis, for any processes, tasks,     *)
(* deployments, numbers of iterations, windows and numbers of aborts.      *)
(***************************************************************************)
EXTENDS CrdtStore, FiniteSetTheorems, SequenceTheorems, TLAPS

(* Every run is at a call                                                  *)
StepInv ==
    /\ deployed \in Deployments
    /\ step \in [Procs -> [visit: Nat, call: Nat]]
    /\ \A p \in Procs : /\ step[p].visit \in 0 .. LastVisit(p) + 1
                        /\ step[p].call \in 1 .. Len(Calls(p))

ValuesInv ==
    /\ store \in [Tasks -> States]
    /\ loaded \in [Procs -> States \cup {None}]
    /\ inbox \in [Procs -> Seq(Messages) \cup {None}]
    /\ cache \in [Tasks -> Seq(Entries)]
    /\ shown \in [Procs -> SUBSET Entries]
    /\ pushed \in [Tasks -> Seq(Entries)]
    /\ appended \in [Tasks -> SUBSET Entries]
    /\ \A t \in Tasks : IsFiniteSet(appended[t])
    /\ latest \in [Tasks -> [Fields -> Register]]
    /\ now \in Nat
    /\ aborts \in 0..MaxAborts

(* A process is subscribed only in its sync call, has a state in hand only *)
(* in the operations, and that of a message it accepts in its sync call.   *)
Busy(p) ==
    /\ inbox[p] # None => Doing(p, {"sync"})
    /\ loaded[p] # None =>
           \/ Doing(p, {"set", "append", "publish"})
           \/ /\ Doing(p, {"sync"})
              /\ inbox[p] \notin {None, <<>>}
              /\ Accepts(p, Head(inbox[p]))

BusyInv == \A p \in Procs : Busy(p)

TypeInv == StepInv /\ ValuesInv /\ BusyInv

(* p has made the call op of its visit k                                   *)
Ahead(p, op) == \E i \in step[p].call .. Len(Calls(p)) : Calls(p)[i].op = op
Past(p, op, k) ==
    /\ k \in 1 .. step[p].visit
    /\ k = step[p].visit => ~Ended(p) /\ ~Ahead(p, op)

(* Entries are of the visits a run has made, one each, under its own task, *)
(* and a run that has not ended has appended all it should have.           *)
Written(p) ==
    /\ \A t \in Tasks, k \in Nat :
           <<p, k>> \in appended[t] => t = Task(p) /\ Past(p, "append", k)
    /\ \A t \in Tasks, k \in Nat :
           (\E i \in 1..Len(pushed[t]) : pushed[t][i] = <<p, k>>) =>
               t = Task(p) /\ Past(p, "push", k)
    /\ ~Ended(p) => \A k \in Nat :
           Past(p, "append", k) => <<p, k>> \in appended[Task(p)]

WrittenInv == \A p \in Procs : Written(p)

(* A state counts, for every node, no more entries than it holds of it, and*)
(* holds only some of A; node[p][k] is the node id of visit k of p.        *)
OfNode(s, node, n) == {u \in DOMAIN s.log.elements : node[u[1]][u[2]] = n}
Sound(s, A, node) ==
    /\ DOMAIN s.log.elements \subseteq A
    /\ \A n \in Nodes : Count(s.counter, n) <= Cardinality(OfNode(s, node, n))

(* Stored, in hand or on its way, a state is sound, and a message that p   *)
(* receives is of another process that works on its task: p is not         *)
(* subscribed when it publishes, whatever its node ids.                    *)
Genuine(p, m) ==
    /\ Sound(m.state, appended[m.task], deployed.node)
    /\ \E q \in Procs \ {p} : Task(q) = m.task

SoundInv ==
    /\ \A t \in Tasks : Sound(store[t], appended[t], deployed.node)
    /\ \A p \in Procs : loaded[p] # None => Sound(loaded[p], appended[Task(p)], deployed.node)
    /\ \A p \in Procs : inbox[p] # None =>
           \A i \in 1..Len(inbox[p]) : Genuine(p, inbox[p][i])

(* The state of a task with one run on it is exact, the run has in hand    *)
(* what is stored, and it reads the cache only as long as it has written   *)
(* nothing.                                                                *)
Exact(p) ==
    LET t == Task(p)
    IN  /\ DOMAIN store[t].log.elements = appended[t]
        /\ \A n \in Nodes :
               Count(store[t].counter, n) = Cardinality(OfNode(store[t], deployed.node, n))
        /\ store[t].registers = latest[t]
        /\ loaded[p] # None => loaded[p] = store[t]
        /\ Doing(p, {"readcache"}) => appended[t] = {}

SoleInv == \A p \in Procs : Sole(p) => Exact(p)

(* c holds the end of u, all of it or at least Window entries, and at most *)
(* k more than Window                                                      *)
Windowed(c, u, k) ==
    LET n == Len(c)
        m == Len(u)
    IN  /\ n <= m /\ c = SubSeq(u, m - n + 1, m)
        /\ n >= Window \/ n = m
        /\ n <= Window + k

(* p goes on to its next call, or to the first call of its next visit      *)
Moved(p) ==
    /\ UNCHANGED deployed
    /\ \A q \in Procs \ {p} : step'[q] = step[q]
    /\ \/ /\ step[p].call + 1 \in 1 .. Len(Calls(p))
          /\ step'[p] = [visit |-> step[p].visit, call |-> step[p].call + 1]
       \/ /\ step[p].call = Len(Calls(p))
          /\ step'[p] = [visit |-> step[p].visit + 1, call |-> 1]

(* What the order of the calls c of visit v amounts to: a push is followed *)
(* by its trim, the log is read before the cache and both before the prompt*)
(* is sent, and every visit but the researcher's appends and pushes one    *)
(* entry.                                                                  *)
InOrder(c, v) ==
    /\ Len(c) \in Nat \ {0}
    /\ \A i \in 1..Len(c) :
          /\ c[i].op = "set" => c[i].field \in Fields
          /\ c[i].op \in {"append", "push"} => v # 0
          /\ c[i].op = "push" => i + 1 \in 1..Len(c) /\ c[i+1].op = "trim"
          /\ c[i].op = "readlog" =>
                /\ i + 2 \in 1..Len(c)
                /\ c[i+1].op = "readcache" /\ c[i+2] = Set("strategy_source")
          /\ c[i].op = "readcache" =>
                /\ i > 1 /\ c[i-1].op = "readlog"
                /\ \E j \in i..Len(c) : c[j].op = "push"
          /\ c[i].op = "set" /\ c[i].field = "strategy_source" =>
                i > 1 /\ c[i-1].op = "readcache"
    /\ \A i, j \in 1..Len(c) :
          /\ c[i].op = "append" /\ c[j].op = "append" => i = j
          /\ c[i].op = "push" /\ c[j].op = "push" => i = j
    /\ v # 0 => /\ \E i \in 1..Len(c) : c[i].op = "append"
                /\ \E i \in 1..Len(c) : c[i].op = "push"

USE DEF vars, memory

(* The three nodes call in such an order, with sync and without.           *)
LEMMA CallsOfVisit ==
  ASSUME NEW v \in Nat, NEW sync \in BOOLEAN
  PROVE  InOrder(NodeCalls(v, sync), v)
<1> DEFINE c == NodeCalls(v, sync)
<1> USE DEF InOrder
<1>1. \/ c = ResearcherCalls(sync) /\ v = 0
      \/ c = CoderCalls(sync) /\ v # 0
      \/ c = EvaluatorCalls(sync) /\ v # 0
  BY DEF NodeCalls
<1>2. CASE c = ResearcherCalls(sync) /\ v = 0
  <2>1. CASE sync
    BY <1>2, <2>1, StoreAssumption DEF ResearcherCalls, Set, Do
  <2>2. CASE ~sync
    BY <1>2, <2>2, StoreAssumption DEF ResearcherCalls, Set, Do
  <2> QED  BY <2>1, <2>2
<1>3. CASE c = CoderCalls(sync) /\ v # 0
  <2>1. CASE sync
    BY <1>3, <2>1, StoreAssumption DEF CoderCalls, Set, Do
  <2>2. CASE ~sync
    BY <1>3, <2>2, StoreAssumption DEF CoderCalls, Set, Do
  <2> QED  BY <2>1, <2>2
<1>4. CASE c = EvaluatorCalls(sync) /\ v # 0
  <2>1. CASE sync
    BY <1>4, <2>1, StoreAssumption DEF EvaluatorCalls, Set, Do
  <2>2. CASE ~sync
    BY <1>4, <2>2, StoreAssumption DEF EvaluatorCalls, Set, Do
  <2> QED  BY <2>1, <2>2
<1> QED  BY <1>1, <1>2, <1>3, <1>4

(* What the operations make of a task state is a task state.               *)
LEMMA StatesClosed ==
  ASSUME NEW s \in States
  PROVE  /\ \A f \in Fields, r \in Register : [s EXCEPT !.registers[f] = r] \in States
         /\ \A u \in Entries, e \in Payloads, n \in Nodes :
               [s EXCEPT !.log = ORSetAdd(@, u, e),
                         !.counter = GCounterIncrement(@, n)] \in States
         /\ \A r \in States : StateMerge(s, r) \in States
<1>1. ASSUME NEW f \in Fields, NEW r \in Register
      PROVE  [s EXCEPT !.registers[f] = r] \in States
  BY DEF States
<1>2. ASSUME NEW u \in Entries, NEW e \in Payloads, NEW n \in Nodes
      PROVE  [s EXCEPT !.log = ORSetAdd(@, u, e),
                       !.counter = GCounterIncrement(@, n)] \in States
  <2>1. s.log \in Logs /\ s.counter \in Counters
    BY DEF States
  <2>2. ORSetAdd(s.log, u, e) \in Logs
    <3> DEFINE E == DOMAIN s.log.elements \cup {u}
    <3>1. PICK D \in SUBSET Entries : s.log.elements \in [D -> Payloads]
      BY <2>1 DEF Logs
    <3>2. ORSetAdd(s.log, u, e).elements \in [E -> Payloads]
      BY <2>1, <3>1 DEF ORSetAdd, Logs
    <3>3. E \in SUBSET Entries
      BY <3>1
    <3>4. ORSetAdd(s.log, u, e) =
             [elements |-> ORSetAdd(s.log, u, e).elements, tombstones |-> {}]
      <4>1. s.log = [elements |-> s.log.elements, tombstones |-> {}]
        BY <2>1 DEF Logs
      <4> QED  BY <4>1 DEF ORSetAdd
    <3> QED  BY <3>2, <3>3, <3>4 DEF Logs
  <2>3. GCounterIncrement(s.counter, n) \in Counters
    <3>1. PICK D \in SUBSET Nodes : s.counter \in [D -> Nat]
      BY <2>1 DEF Counters
    <3>2. GCounterIncrement(s.counter, n) \in [D \cup {n} -> Nat]
      BY <3>1 DEF GCounterIncrement, Count
    <3> QED  BY <3>1, <3>2 DEF Counters
  <2> QED  BY <2>2, <2>3 DEF States
<1>3. ASSUME NEW r \in States PROVE StateMerge(s, r) \in States
  <2>1. /\ s.log \in Logs /\ s.counter \in Counters /\ s.registers \in [Fields -> Register]
        /\ r.log \in Logs /\ r.counter \in Counters /\ r.registers \in [Fields -> Register]
    BY DEF States
  <2>2. [f \in Fields |-> LWWMerge(s.registers[f], r.registers[f])] \in [Fields -> Register]
    BY <2>1 DEF LWWMerge
  <2>3. ORSetMerge(s.log, r.log) \in Logs
    <3> DEFINE E == DOMAIN s.log.elements \cup DOMAIN r.log.elements
               m == ORSetMerge(s.log, r.log)
    <3>1. PICK D \in SUBSET Entries : s.log.elements \in [D -> Payloads]
      BY <2>1 DEF Logs
    <3>2. PICK F \in SUBSET Entries : r.log.elements \in [F -> Payloads]
      BY <2>1 DEF Logs
    <3>3. s.log.tombstones = {} /\ r.log.tombstones = {}
      BY <2>1 DEF Logs
    <3>4. m.elements \in [E -> Payloads]
      BY <3>1, <3>2, <3>3 DEF ORSetMerge
    <3>5. m = [elements |-> m.elements, tombstones |-> {}]
      BY <3>3 DEF ORSetMerge
    <3>6. E \in SUBSET Entries
      BY <3>1, <3>2
    <3> QED  BY <3>4, <3>5, <3>6 DEF Logs
  <2>4. GCounterMerge(s.counter, r.counter) \in Counters
    <3>1. PICK D \in SUBSET Nodes : s.counter \in [D -> Nat]
      BY <2>1 DEF Counters
    <3>2. PICK F \in SUBSET Nodes : r.counter \in [F -> Nat]
      BY <2>1 DEF Counters
    <3>3. GCounterMerge(s.counter, r.counter) \in [D \cup F -> Nat]
      BY <3>1, <3>2 DEF GCounterMerge, Larger, Count
    <3> QED  BY <3>1, <3>2, <3>3 DEF Counters
  <2> QED  BY <2>2, <2>3, <2>4 DEF StateMerge, States
<1> QED  BY <1>1, <1>2, <1>3

(* A run that has not ended is at a call of its visit, and goes on from it *)
LEMMA AtACall ==
  ASSUME StepInv, NEW p \in Procs
  PROVE  /\ Task(p) \in Tasks /\ (~Ended(p) => NodeId(p) \in Nodes)
         /\ step[p] \in [visit: Nat, call: Nat] /\ step[p].call \in 1 .. Len(Calls(p))
         /\ LastVisit(p) \in Nat /\ step[p].visit <= LastVisit(p) + 1
         /\ InOrder(Calls(p), step[p].visit)
         /\ Doing(p, {"append", "push"}) => Entry(p) \in Entries
         /\ Doing(p, {"set"}) => Call(p).field \in Fields
         /\ ~Ended(p) /\ UNCHANGED deployed /\ Advance(p) => StepInv' /\ Moved(p)
<1> DEFINE sync == p \in deployed.sync
<1>1. /\ Task(p) \in Tasks /\ deployed.node[p] \in [0 .. 2 * Iterations -> Nodes]
      /\ deployed.rounds[p] \in 0..Iterations /\ Iterations \in Nat
      /\ step[p] \in [visit: Nat, call: Nat]
      /\ step[p].visit \in 0 .. LastVisit(p) + 1
      /\ step[p].call \in 1 .. Len(Calls(p))
  BY StoreAssumption DEF StepInv, LastVisit, Task
<1>2. LastVisit(p) \in Nat /\ LastVisit(p) <= 2 * Iterations
  BY <1>1 DEF LastVisit
<1>3. ASSUME NEW v \in Nat PROVE InOrder(NodeCalls(v, sync), v)
  <2>1. sync \in BOOLEAN
    OBVIOUS
  <2> HIDE DEF sync
  <2> QED  BY <2>1, CallsOfVisit, Zenon
<1>4. InOrder(Calls(p), step[p].visit)
  BY <1>1, <1>3 DEF Calls
<1>5. Doing(p, {"append", "push"}) => Entry(p) \in Entries
  BY <1>1, <1>2, <1>4 DEF Doing, Call, Ended, Entry, Entries, InOrder
<1>6. Doing(p, {"set"}) => Call(p).field \in Fields
  BY <1>1, <1>4 DEF Doing, Call, InOrder
<1>7. ASSUME ~Ended(p), UNCHANGED deployed, Advance(p)
      PROVE  StepInv' /\ Moved(p)
  <2> DEFINE next == [visit |-> step[p].visit + 1, call |-> 1]
  <2>1. /\ step[p].visit \in Nat /\ step[p].call \in Nat
        /\ step[p].visit <= LastVisit(p)
    BY <1>1, <1>2, <1>7 DEF Ended
  <2>2. Len(Calls(p)) \in Nat \ {0} /\ Len(NodeCalls(next.visit, sync)) \in Nat \ {0}
    <3>1. next.visit \in Nat
      BY <2>1
    <3>2. InOrder(NodeCalls(next.visit, sync), next.visit)
      BY <3>1, <1>3, Zenon
    <3>3. QED  BY <3>2, <1>4 DEF InOrder
  <2> USE <1>1, <1>2, <1>7
  <2>3. CASE step[p].call < Len(Calls(p))
    <3>1. step' = [step EXCEPT ![p].call = step[p].call + 1]
      BY <2>3 DEF Advance, Skip
    <3>2. step'[p] = [visit |-> step[p].visit, call |-> step[p].call + 1]
      BY <2>1, <3>1 DEF StepInv
    <3>3. \A q \in Procs \ {p} : step'[q] = step[q]
      BY <3>1 DEF StepInv
    <3>4. step' \in [Procs -> [visit: Nat, call: Nat]]
      BY <2>1, <3>1, <3>2 DEF StepInv
    <3>5. StepInv'
      <4>1. ASSUME NEW q \in Procs
            PROVE  /\ step'[q].visit \in 0 .. LastVisit(q) + 1
                   /\ step'[q].call \in 1 .. Len(NodeCalls(step'[q].visit, q \in deployed.sync))
        <5>1. CASE q = p
          <6>1. NodeCalls(step'[q].visit, q \in deployed.sync) = Calls(p)
            BY <3>2, <5>1 DEF Calls
          <6>2. /\ step'[q].visit = step[p].visit
                /\ step'[q].call \in 1 .. Len(Calls(p))
            BY <2>1, <2>2, <2>3, <3>2, <5>1, SMTT(30)
          <6> QED  BY <2>1, <5>1, <6>1, <6>2
        <5>2. CASE q # p
          BY <3>3, <5>2 DEF StepInv, LastVisit, Calls
        <5> QED  BY <5>1, <5>2
      <4> QED  BY <4>1, <3>4 DEF StepInv, LastVisit, Calls
    <3> QED  BY <2>1, <2>2, <2>3, <3>2, <3>3, <3>5 DEF Moved
  <2>4. CASE ~(step[p].call < Len(Calls(p)))
    <3>1. step' = [step EXCEPT ![p] = next] /\ step'[p] = next
      BY <2>4 DEF Advance, StepInv
    <3>2. \A q \in Procs \ {p} : step'[q] = step[q]
      BY <3>1 DEF StepInv
    <3>3. step' \in [Procs -> [visit: Nat, call: Nat]]
      BY <2>1, <3>1 DEF StepInv
    <3>4. StepInv'
      <4>1. ASSUME NEW q \in Procs
            PROVE  /\ step'[q].visit \in 0 .. LastVisit(q) + 1
                   /\ step'[q].call \in 1 .. Len(NodeCalls(step'[q].visit, q \in deployed.sync))
        <5>1. CASE q = p
          <6>1. step'[q].visit = next.visit /\ step'[q].call = 1
            BY <3>1, <5>1
          <6>2. 1 \in 1 .. Len(NodeCalls(step'[q].visit, q \in deployed.sync))
            BY <2>2, <5>1, <6>1
          <6> QED  BY <2>1, <5>1, <6>1, <6>2
        <5>2. CASE q # p
          BY <3>2, <5>2 DEF StepInv, LastVisit, Calls
        <5> QED  BY <5>1, <5>2
      <4> QED  BY <4>1, <3>3 DEF StepInv, LastVisit, Calls
    <3> QED  BY <2>1, <2>2, <2>4, <3>1, <3>2, <3>4 DEF Moved
  <2> QED  BY <2>3, <2>4
<1>8. ~Ended(p) => NodeId(p) \in Nodes
  BY <1>1, <1>2 DEF Ended, NodeId
<1> QED  BY <1>1, <1>2, <1>4, <1>5, <1>6, <1>7, <1>8

(* Every step leaves a run at a call, and Redis with states and entries.   *)
LEMMA TypeStep ==
  ASSUME TypeInv, [Next]_vars
  PROVE  TypeInv'
<1> USE DEF TypeInv
<1>1. ASSUME UNCHANGED <<deployed, step>> PROVE StepInv'
  BY <1>1 DEF StepInv, LastVisit, Calls
<1>2. ASSUME NEW q \in Procs, UNCHANGED <<deployed, step[q], inbox[q], loaded[q]>>
      PROVE  Busy(q)'
  BY <1>2 DEF BusyInv, Busy, Doing, Ended, Call, Calls, LastVisit, Accepts, Task, NodeId
<1>3. ASSUME NEW p \in Procs, NEW q \in Procs \ {p}, Moved(p)
      PROVE  UNCHANGED <<deployed, step[q]>>
  BY <1>3 DEF Moved
<1>4. None \notin States /\ None \notin Seq(Messages)
  BY StoreAssumption
<1>5. CASE UNCHANGED vars
  <2>1. ValuesInv'
    BY <1>5 DEF ValuesInv
  <2> QED  BY <1>1, <1>2, <1>5, <2>1 DEF BusyInv
<1>6. ASSUME NEW p \in Procs, Load(p) PROVE TypeInv'
  <2>1. ValuesInv'
    BY <1>6, AtACall DEF Load, ValuesInv, Key
  <2>2. ASSUME NEW q \in Procs PROVE Busy(q)'
    <3>1. CASE q = p
      BY <1>6, <3>1
         DEF Load, BusyInv, Busy, Doing, Ended, Call, Calls, LastVisit, Accepts, Task, NodeId
    <3>2. CASE q # p
      BY <1>2, <1>6, <3>2 DEF Load, ValuesInv
    <3> QED  BY <3>1, <3>2
  <2> QED  BY <1>1, <1>6, <2>1, <2>2 DEF Load, BusyInv
<1>7. ASSUME NEW p \in Procs, UpdateRegister(p) PROVE TypeInv'
  <2>1. /\ StepInv' /\ Moved(p) /\ Task(p) \in Tasks /\ NodeId(p) \in Nodes
        /\ Call(p).field \in Fields
    BY <1>7, AtACall DEF UpdateRegister, Save, Doing
  <2>2. PICK v \in Values :
           LET f == Call(p).field
               r == LWWSet(v, now + 1, NodeId(p))
           IN  /\ Save(p, [loaded[p] EXCEPT !.registers[f] = r])
               /\ latest' = [latest EXCEPT ![Task(p)][f] = r]
    BY <1>7 DEF UpdateRegister
  <2> DEFINE r == LWWSet(v, now + 1, NodeId(p))
             s == [loaded[p] EXCEPT !.registers[Call(p).field] = r]
  <2>3. r \in Register
    BY <2>1 DEF LWWSet, Register, ValuesInv
  <2>4. loaded[p] \in States
    BY <1>7 DEF UpdateRegister, ValuesInv
  <2>5. s \in States
    BY <2>1, <2>3, <2>4, StatesClosed
  <2> HIDE DEF s, r
  <2>6. /\ store' = [store EXCEPT ![Task(p)] = s] /\ loaded' = [loaded EXCEPT ![p] = None]
        /\ latest' = [latest EXCEPT ![Task(p)][Call(p).field] = r]
    BY <2>2 DEF Save, Key, s, r
  <2>7. ValuesInv'
    <3>1. latest' \in [Tasks -> [Fields -> Register]]
      BY <2>1, <2>3, <2>6 DEF ValuesInv
    <3> QED  BY <1>7, <2>1, <2>5, <2>6, <3>1 DEF UpdateRegister, ValuesInv
  <2>8. ASSUME NEW q \in Procs PROVE Busy(q)'
    <3>1. CASE q = p
      BY <1>7, <2>6, <3>1 DEF UpdateRegister, ValuesInv, BusyInv, Busy, Doing
    <3>2. CASE q # p
      BY <1>2, <1>3, <1>7, <2>1, <2>6, <3>2 DEF UpdateRegister, ValuesInv
    <3> QED  BY <3>1, <3>2
  <2> QED  BY <2>1, <2>7, <2>8 DEF BusyInv
<1>8. ASSUME NEW p \in Procs, AppendIteration(p) PROVE TypeInv'
  <2>1. /\ StepInv' /\ Moved(p) /\ Task(p) \in Tasks /\ NodeId(p) \in Nodes
        /\ Entry(p) \in Entries
    BY <1>8, AtACall DEF AppendIteration, Save, Doing
  <2>2. PICK e \in Payloads :
           Save(p, [loaded[p] EXCEPT !.log = ORSetAdd(@, Entry(p), e),
                                     !.counter = GCounterIncrement(@, NodeId(p))])
    BY <1>8 DEF AppendIteration
  <2> DEFINE s == [loaded[p] EXCEPT !.log = ORSetAdd(@, Entry(p), e),
                                    !.counter = GCounterIncrement(@, NodeId(p))]
  <2>3. loaded[p] \in States
    BY <1>8 DEF AppendIteration, ValuesInv
  <2>4. s \in States
    BY <2>1, <2>3, StatesClosed
  <2> HIDE DEF s
  <2>5. store' = [store EXCEPT ![Task(p)] = s] /\ loaded' = [loaded EXCEPT ![p] = None]
    BY <2>2 DEF Save, Key, s
  <2>6. ValuesInv'
    <3>1. IsFiniteSet(appended[Task(p)] \cup {Entry(p)})
      BY <2>1, FS_AddElement DEF ValuesInv
    <3> QED  BY <1>8, <2>1, <2>4, <2>5, <3>1 DEF AppendIteration, ValuesInv
  <2>7. ASSUME NEW q \in Procs PROVE Busy(q)'
    <3>1. CASE q = p
      BY <1>8, <2>5, <3>1 DEF AppendIteration, ValuesInv, BusyInv, Busy, Doing
    <3>2. CASE q # p
      BY <1>2, <1>3, <1>8, <2>1, <2>5, <3>2 DEF AppendIteration, ValuesInv
    <3> QED  BY <3>1, <3>2
  <2> QED  BY <2>1, <2>6, <2>7 DEF BusyInv
<1>9. ASSUME NEW p \in Procs, PublishForSync(p) PROVE TypeInv'
  <2>1. StepInv' /\ Moved(p) /\ Task(p) \in Tasks /\ NodeId(p) \in Nodes
    BY <1>9, AtACall DEF PublishForSync, Doing
  <2> DEFINE m == [task |-> Task(p), node |-> NodeId(p), state |-> loaded[p]]
  <2>2. m \in Messages
    BY <1>9, <2>1 DEF PublishForSync, ValuesInv, Messages
  <2>3. inbox' = [q \in Procs |-> IF inbox[q] = None THEN None ELSE Append(inbox[q], m)]
    BY <1>9 DEF PublishForSync
  <2> HIDE DEF m
  <2>4. ValuesInv'
    BY <1>9, <2>1, <2>2, <2>3 DEF PublishForSync, ValuesInv
  <2>5. ASSUME NEW q \in Procs PROVE Busy(q)'
    <3>1. inbox[q] = None => inbox'[q] = None
      BY <2>3
    <3>2. CASE q = p
      BY <1>9, <2>3, <3>1, <3>2 DEF PublishForSync, ValuesInv, BusyInv, Busy, Doing
    <3>3. CASE q # p
      <4>1. UNCHANGED <<deployed, step[q], loaded[q]>>
        BY <1>3, <1>9, <2>1, <3>3 DEF PublishForSync, ValuesInv
      <4>2. CASE inbox[q] = None
        BY <1>2, <3>1, <4>1, <4>2
      <4>3. CASE inbox[q] # None
        <5>1. inbox[q] \in Seq(Messages) /\ inbox'[q] = Append(inbox[q], m)
          BY <2>3, <4>3 DEF ValuesInv
        <5>2. inbox'[q] \in Seq(Messages) /\ inbox'[q] # <<>>
          BY <2>2, <5>1
        <5>3. inbox[q] # <<>> => Head(inbox'[q]) = Head(inbox[q])
          BY <2>2, <5>1
        <5> QED  BY <1>4, <4>1, <4>3, <5>2, <5>3
                 DEF BusyInv, Busy, Doing, Ended, Call, Calls, LastVisit, Accepts, Task, NodeId
      <4> QED  BY <4>2, <4>3
    <3> QED  BY <3>2, <3>3
  <2> QED  BY <2>1, <2>4, <2>5 DEF BusyInv
<1>10. ASSUME NEW p \in Procs, Subscribe(p) \/ IgnoreMessage(p) PROVE TypeInv'
  <2>1. UNCHANGED <<deployed, step, loaded>> /\ Doing(p, {"sync"})
    BY <1>10 DEF Subscribe, IgnoreMessage
  <2>2. ValuesInv' /\ \A q \in Procs \ {p} : inbox'[q] = inbox[q]
    <3>1. CASE Subscribe(p)
      BY <3>1 DEF Subscribe, ValuesInv
    <3>2. CASE IgnoreMessage(p)
      <4>1. inbox[p] \in Seq(Messages) /\ inbox[p] # <<>>
        BY <3>2 DEF IgnoreMessage, ValuesInv
      <4>2. Tail(inbox[p]) \in Seq(Messages)
        BY <4>1
      <4> QED  BY <3>2, <4>2 DEF IgnoreMessage, ValuesInv
    <3> QED  BY <1>10, <3>1, <3>2
  <2>3. loaded[p] = None
    BY <1>10 DEF Subscribe, IgnoreMessage, BusyInv, Busy, Doing
  <2>4. ASSUME NEW q \in Procs PROVE Busy(q)'
    <3>1. CASE q = p
      BY <2>1, <2>3, <3>1 DEF Busy, Doing, Ended, Call, Calls, LastVisit
    <3>2. CASE q # p
      BY <1>2, <2>1, <2>2, <3>2
    <3> QED  BY <3>1, <3>2
  <2> QED  BY <1>1, <2>1, <2>2, <2>4 DEF BusyInv
<1>11. ASSUME NEW p \in Procs, MergeRemote(p) PROVE TypeInv'
  <2>1. StepInv' /\ Moved(p) /\ Task(p) \in Tasks
    BY <1>11, AtACall DEF MergeRemote, Save, Doing
  <2>2. inbox[p] \in Seq(Messages) /\ inbox[p] # <<>>
    BY <1>11 DEF MergeRemote, ValuesInv, BusyInv, Busy, Doing
  <2>3. Head(inbox[p]).state \in States
    <3>1. Head(inbox[p]) \in Messages
      BY <2>2
    <3> QED  BY <3>1 DEF Messages
  <2>4. StateMerge(loaded[p], Head(inbox[p]).state) \in States
    BY <1>11, <2>3, StatesClosed DEF MergeRemote, ValuesInv
  <2> DEFINE s == StateMerge(loaded[p], Head(inbox[p]).state)
  <2> HIDE DEF s
  <2>5. store' = [store EXCEPT ![Task(p)] = s] /\ loaded' = [loaded EXCEPT ![p] = None]
    BY <1>11 DEF MergeRemote, Save, Key, s
  <2>6. ValuesInv'
    BY <1>11, <2>1, <2>4, <2>5 DEF MergeRemote, ValuesInv, s
  <2>7. ASSUME NEW q \in Procs PROVE Busy(q)'
    <3>1. CASE q = p
      BY <1>11, <2>5, <3>1 DEF MergeRemote, ValuesInv, BusyInv, Busy
    <3>2. CASE q # p
      BY <1>2, <1>3, <1>11, <2>1, <2>5, <3>2 DEF MergeRemote, ValuesInv
    <3> QED  BY <3>1, <3>2
  <2> QED  BY <2>1, <2>6, <2>7 DEF BusyInv
<1>12. ASSUME NEW p \in Procs, Abort(p) PROVE TypeInv'
  <2>1. /\ LastVisit(p) \in Nat /\ step[p] \in [visit: Nat, call: Nat]
        /\ deployed.rounds \in [Procs -> Nat]
    BY AtACall, StoreAssumption, SMTT(30) DEF StepInv
  <2> DEFINE s == [visit |-> LastVisit(p) + 1, call |-> 1]
  <2>2. step' = [step EXCEPT ![p] = s] /\ s \in [visit: Nat, call: Nat]
    BY <1>12, <2>1 DEF Abort
  <2>3. \A q \in Procs \ {p} : UNCHANGED <<deployed, step[q], inbox[q], loaded[q]>>
    BY <1>12, <2>2 DEF Abort, StepInv, ValuesInv
  <2>4. StepInv'
    <3>1. step' \in [Procs -> [visit: Nat, call: Nat]] /\ step'[p] = s
      BY <2>1, <2>2 DEF StepInv
    <3>2. ASSUME NEW q \in Procs
          PROVE  /\ step'[q].visit \in 0 .. LastVisit(q) + 1
                 /\ step'[q].call \in 1 .. Len(NodeCalls(step'[q].visit, q \in deployed.sync))
      <4>1. CASE q = p
        <5> DEFINE sync == p \in deployed.sync
        <5>1. s.visit \in Nat /\ sync \in BOOLEAN
          BY <2>1
        <5> HIDE DEF sync, s
        <5>2. InOrder(NodeCalls(s.visit, sync), s.visit)
          BY <5>1, CallsOfVisit, Zenon
        <5>3. 1 \in 1 .. Len(NodeCalls(s.visit, p \in deployed.sync))
          BY <5>2 DEF InOrder, sync
        <5> QED  BY <2>1, <3>1, <4>1, <5>3 DEF s
      <4>2. CASE q # p
        BY <2>3, <4>2 DEF StepInv, LastVisit, Calls
      <4> QED  BY <4>1, <4>2
    <3>3. deployed' = deployed
      BY <1>12 DEF Abort
    <3> QED  BY <3>1, <3>2, <3>3 DEF StepInv, LastVisit, Calls
  <2>5. ValuesInv'
    BY <1>12, StoreAssumption DEF Abort, ValuesInv
  <2>6. ASSUME NEW q \in Procs PROVE Busy(q)'
    <3>1. CASE q = p
      BY <1>12, <3>1 DEF Abort, ValuesInv, Busy
    <3>2. CASE q # p
      BY <1>2, <2>3, <3>2
    <3> QED  BY <3>1, <3>2
  <2> QED  BY <2>4, <2>5, <2>6 DEF BusyInv
<1>13. ASSUME NEW p \in Procs, ReadLog(p) PROVE TypeInv'
  <2>1. /\ step[p] \in [visit: Nat, call: Nat] /\ InOrder(Calls(p), step[p].visit)
        /\ step[p].call \in 1 .. Len(Calls(p)) /\ Task(p) \in Tasks
    BY AtACall
  <2>2. step[p].call + 1 \in 1 .. Len(Calls(p)) /\ step[p].call + 2 \in 1 .. Len(Calls(p))
    <3> DEFINE i == step[p].call
               c == Calls(p)
    <3>1. i \in 1..Len(c) /\ c[i].op = "readlog" /\ InOrder(c, step[p].visit)
      BY <1>13, <2>1 DEF ReadLog, Doing, Call
    <3> HIDE DEF i, c
    <3>2. i + 2 \in 1..Len(c) /\ Len(c) \in Nat
      BY <3>1 DEF InOrder
    <3> QED  BY <3>1, <3>2 DEF i, c
  <2>3. PICK n \in 1..2 : Skip(p, n)
    BY <1>13 DEF ReadLog
  <2>4. /\ step' = [step EXCEPT ![p].call = step[p].call + n]
        /\ \A q \in Procs \ {p} : step'[q] = step[q]
    BY <2>3 DEF Skip, StepInv
  <2>5. /\ step'[p] = [visit |-> step[p].visit, call |-> step[p].call + n]
        /\ step[p].call + n \in 1 .. Len(Calls(p))
    BY <2>1, <2>2, <2>4 DEF StepInv
  <2>6. StepInv'
    <3>1. step' \in [Procs -> [visit: Nat, call: Nat]]
      BY <2>1, <2>4, <2>5 DEF StepInv
    <3>2. ASSUME NEW q \in Procs
          PROVE  /\ step'[q].visit \in 0 .. LastVisit(q) + 1
                 /\ step'[q].call \in 1 .. Len(NodeCalls(step'[q].visit, q \in deployed.sync))
      <4>1. CASE q = p
        <5>1. NodeCalls(step'[q].visit, q \in deployed.sync) = Calls(p)
          BY <2>5, <4>1 DEF Calls
        <5> QED  BY <2>5, <4>1, <5>1 DEF StepInv
      <4>2. CASE q # p
        BY <2>4, <4>2 DEF StepInv, LastVisit, Calls
      <4> QED  BY <4>1, <4>2
    <3>3. deployed' = deployed
      BY <1>13 DEF ReadLog
    <3> QED  BY <3>1, <3>2, <3>3 DEF StepInv, LastVisit, Calls
  <2>7. ValuesInv'
    <3>1. DOMAIN store[Task(p)].log.elements \in SUBSET Entries
      BY <2>1 DEF ValuesInv, States, Logs
    <3> QED  BY <1>13, <3>1 DEF ReadLog, Key, ValuesInv
  <2>8. ASSUME NEW q \in Procs PROVE Busy(q)'
    <3>1. CASE q = p
      BY <1>13, <3>1 DEF ReadLog, BusyInv, Busy, Doing
    <3>2. CASE q # p
      BY <1>2, <1>13, <2>4, <3>2 DEF ReadLog
    <3> QED  BY <3>1, <3>2
  <2> QED  BY <2>6, <2>7, <2>8 DEF BusyInv
<1>14. ASSUME NEW p \in Procs, ReadCache(p) \/ Push(p) \/ Trim(p) PROVE TypeInv'
  <2>1. /\ UNCHANGED <<deployed, store, loaded, inbox, now, appended, latest, aborts>>
        /\ Doing(p, {"readcache", "push", "trim"}) /\ Advance(p)
    BY <1>14 DEF ReadCache, Push, Trim, Doing
  <2>2. StepInv' /\ Moved(p) /\ Task(p) \in Tasks
    BY <2>1, AtACall DEF Doing
  <2>3. ValuesInv'
    <3>1. cache[Task(p)] \in Seq(Entries)
      BY <2>2 DEF ValuesInv
    <3>2. CASE ReadCache(p)
      <4>1. {cache[Task(p)][i] : i \in DOMAIN cache[Task(p)]} \in SUBSET Entries
        BY <3>1
      <4> QED  BY <3>2, <4>1 DEF ReadCache, ValuesInv
    <3>3. CASE Push(p)
      <4>1. Entry(p) \in Entries
        BY <3>3, AtACall DEF Push, Doing
      <4> QED  BY <2>2, <3>3, <4>1 DEF Push, ValuesInv
    <3>4. CASE Trim(p)
      <4>1. SubSeq(cache[Task(p)], Larger(1, Len(cache[Task(p)]) - Window + 1),
                   Len(cache[Task(p)])) \in Seq(Entries)
        BY <3>1, StoreAssumption DEF Larger
      <4> QED  BY <2>2, <3>4, <4>1 DEF Trim, ValuesInv
    <3> QED  BY <1>14, <3>2, <3>3, <3>4
  <2>4. ASSUME NEW q \in Procs PROVE Busy(q)'
    <3>1. CASE q = p
      BY <2>1, <3>1 DEF BusyInv, Busy, Doing
    <3>2. CASE q # p
      BY <1>2, <1>3, <2>1, <2>2, <3>2
    <3> QED  BY <3>1, <3>2
  <2> QED  BY <2>2, <2>3, <2>4 DEF BusyInv
<1> QED  BY <1>5, <1>6, <1>7, <1>8, <1>9, <1>10, <1>11, <1>12, <1>13, <1>14 DEF Next, Continue

(* What p has behind it after its next step                                *)
LEMMA Passing ==
  ASSUME StepInv, NEW p \in Procs, ~Ended(p), Moved(p) \/ ReadLog(p) \/ Abort(p),
         NEW op \in {"append", "push"}, NEW k \in Nat
  PROVE  /\ Past(p, op, k) => Past(p, op, k)'
         /\ Moved(p) /\ Call(p).op = op /\ k = step[p].visit => Past(p, op, k)'
         /\ ~Ended(p)' /\ Past(p, op, k)' =>
               Past(p, op, k) \/ (Call(p).op = op /\ k = step[p].visit)
<1>1. /\ step[p].visit \in Nat /\ step[p].call \in 1 .. Len(Calls(p))
      /\ step[p].visit <= LastVisit(p) /\ LastVisit(p) \in Nat
      /\ InOrder(Calls(p), step[p].visit) /\ Len(Calls(p)) \in Nat
      /\ Call(p).op = op => step[p].visit # 0
  <2>1. /\ step[p] \in [visit: Nat, call: Nat] /\ step[p].call \in 1 .. Len(Calls(p))
        /\ LastVisit(p) \in Nat /\ step[p].visit <= LastVisit(p) + 1
        /\ InOrder(Calls(p), step[p].visit)
    BY AtACall
  <2>2. Len(Calls(p)) \in Nat /\ (Call(p).op = op => step[p].visit # 0)
    BY <2>1 DEF InOrder, Call
  <2> QED  BY <2>1, <2>2 DEF Ended
<1>2. CASE Moved(p) /\ step'[p] = [visit |-> step[p].visit, call |-> step[p].call + 1]
  <2>1. Calls(p)' = Calls(p) /\ step'[p].visit = step[p].visit
        /\ step'[p].call = step[p].call + 1 /\ (Ended(p)' => Ended(p))
    BY <1>2 DEF Moved, Calls, Ended, LastVisit
  <2>2. Ahead(p, op) => Call(p).op = op \/ Ahead(p, op)'
    BY <1>1, <2>1 DEF Ahead, Call
  <2>3. Ahead(p, op)' => Ahead(p, op) /\ Call(p).op # op
    <3> SUFFICES ASSUME NEW j \in step[p].call + 1 .. Len(Calls(p)), Calls(p)[j].op = op
                 PROVE  Ahead(p, op) /\ Call(p).op # op
      BY <2>1 DEF Ahead
    <3>1. j \in step[p].call .. Len(Calls(p)) /\ j # step[p].call
      BY <1>1
    <3>2. Ahead(p, op)
      BY <3>1 DEF Ahead
    <3>3. ~(Call(p).op = op)
      BY <1>1, <3>1, SMTT(30) DEF Call, InOrder
    <3> QED  BY <3>2, <3>3
  <2>4. Past(p, op, k) => Past(p, op, k)'
    BY <1>1, <2>1, <2>2, <2>3 DEF Past
  <2>5. Moved(p) /\ Call(p).op = op /\ k = step[p].visit => Past(p, op, k)'
    BY <1>1, <2>1, <2>2, <2>3 DEF Past
  <2>6. ~Ended(p)' /\ Past(p, op, k)' =>
            Past(p, op, k) \/ (Call(p).op = op /\ k = step[p].visit)
    BY <1>1, <2>1, <2>2, <2>3 DEF Past
  <2> QED  BY <2>4, <2>5, <2>6
<1>3. CASE /\ Moved(p) /\ step[p].call = Len(Calls(p))
           /\ step'[p] = [visit |-> step[p].visit + 1, call |-> 1]
  <2>1. Ahead(p, op) => Call(p).op = op
    BY <1>1, <1>3 DEF Ahead, Call
  <2>2. Ahead(p, op)'
    <3> DEFINE sync == p \in deployed.sync
               v == step[p].visit + 1
    <3>1. v \in Nat /\ v # 0 /\ sync \in BOOLEAN
      BY <1>1
    <3>2. Calls(p)' = NodeCalls(v, sync) /\ step'[p].call = 1
      BY <1>3 DEF Calls, Moved
    <3> HIDE DEF sync, v
    <3>3. InOrder(NodeCalls(v, sync), v)
      BY <3>1, CallsOfVisit, Zenon
    <3>4. \E i \in 1 .. Len(NodeCalls(v, sync)) : NodeCalls(v, sync)[i].op = op
      BY <3>1, <3>3 DEF InOrder
    <3> QED  BY <3>2, <3>4 DEF Ahead
  <2>3. Past(p, op, k) => Past(p, op, k)'
    BY <1>1, <1>3, <2>1, <2>2 DEF Past
  <2>4. Moved(p) /\ Call(p).op = op /\ k = step[p].visit => Past(p, op, k)'
    BY <1>1, <1>3, <2>1, <2>2 DEF Past
  <2>5. ~Ended(p)' /\ Past(p, op, k)' =>
            Past(p, op, k) \/ (Call(p).op = op /\ k = step[p].visit)
    BY <1>1, <1>3, <2>1, <2>2 DEF Past
  <2> QED  BY <2>3, <2>4, <2>5
<1>4. CASE ReadLog(p)
  <2>1. PICK n \in 1..2 : Skip(p, n)
    BY <1>4 DEF ReadLog
  <2>2. /\ step'[p].visit = step[p].visit /\ step'[p].call = step[p].call + n
        /\ Calls(p)' = Calls(p) /\ (Ended(p)' => Ended(p))
    BY <1>4, <2>1 DEF ReadLog, Skip, StepInv, Calls, Ended, LastVisit
  <2>3. Call(p).op # op /\ Calls(p)[step[p].call + 1].op # op
    BY <1>1, <1>4 DEF ReadLog, Doing, Call, InOrder
  <2>4. ASSUME Ahead(p, op) PROVE Ahead(p, op)'
    <3>1. PICK i \in step[p].call .. Len(Calls(p)) : Calls(p)[i].op = op
      BY <2>4 DEF Ahead
    <3>2. i # step[p].call /\ i # step[p].call + 1
      BY <2>3, <3>1 DEF Call
    <3>3. i \in step'[p].call .. Len(Calls(p)) /\ Calls(p)[i].op = op
      BY <1>1, <2>2, <3>1, <3>2
    <3> QED  BY <2>2, <3>3 DEF Ahead
  <2>5. Ahead(p, op)' => Ahead(p, op)
    BY <1>1, <2>2 DEF Ahead
  <2>6. ~Moved(p) \/ Call(p).op # op
    BY <2>3
  <2>7. Past(p, op, k) => Past(p, op, k)'
    BY <1>1, <2>2, <2>4, <2>5, <2>6 DEF Past
  <2>8. Moved(p) /\ Call(p).op = op /\ k = step[p].visit => Past(p, op, k)'
    BY <1>1, <2>2, <2>4, <2>5, <2>6 DEF Past
  <2>9. ~Ended(p)' /\ Past(p, op, k)' =>
            Past(p, op, k) \/ (Call(p).op = op /\ k = step[p].visit)
    BY <1>1, <2>2, <2>4, <2>5, <2>6 DEF Past
  <2> QED  BY <2>7, <2>8, <2>9
<1>5. CASE Abort(p)
  <2>1. step'[p].visit = LastVisit(p) + 1 /\ Ended(p)'
    BY <1>1, <1>5 DEF Abort, StepInv, Ended, LastVisit
  <2> QED  BY <1>1, <1>5, <2>1 DEF Past
<1> QED  BY <1>2, <1>3, <1>4, <1>5 DEF Moved

(* An append or a push adds the entry of its visit once, and whatever else *)
(* happens adds none.                                                      *)
LEMMA WrittenStep ==
  ASSUME TypeInv, WrittenInv, [Next]_vars
  PROVE  WrittenInv'
<1> USE DEF TypeInv
<1> SUFFICES ASSUME NEW q \in Procs PROVE Written(q)'
  BY DEF WrittenInv
<1>1. Written(q)
  BY DEF WrittenInv
<1>2. Task(q)' = Task(q)
  BY DEF Next, Continue, Load, UpdateRegister, AppendIteration, PublishForSync, Subscribe,
         IgnoreMessage, MergeRemote, ReadLog, ReadCache, Push, Trim, Abort, Task
<1>3. ASSUME UNCHANGED <<deployed, step[q], appended, pushed>>
      PROVE  Written(q)'
  BY <1>1, <1>3 DEF Written, Past, Ahead, Task, Ended, Calls, LastVisit
(* a step of q to which nothing is written                                 *)
<1>4. ASSUME Moved(q) \/ ReadLog(q) \/ Abort(q), ~Ended(q), UNCHANGED <<appended, pushed>>,
             Call(q).op \notin {"append", "push"} \/ Ended(q)'
      PROVE  Written(q)'
  <2>1. ASSUME NEW t \in Tasks, NEW k \in Nat, <<q, k>> \in appended[t]
        PROVE  t = Task(q) /\ Past(q, "append", k)'
    BY <1>1, <1>4, <2>1, Passing DEF Written
  <2>2. ASSUME NEW t \in Tasks, NEW k \in Nat, \E i \in 1..Len(pushed[t]) : pushed[t][i] = <<q, k>>
        PROVE  t = Task(q) /\ Past(q, "push", k)'
    BY <1>1, <1>4, <2>2, Passing DEF Written
  <2>3. ASSUME ~Ended(q)', NEW k \in Nat, Past(q, "append", k)'
        PROVE  <<q, k>> \in appended[Task(q)]
    BY <1>1, <1>4, <2>3, Passing DEF Written
  <2> QED  BY <1>2, <1>4, <2>1, <2>2, <2>3 DEF Written
<1>5. CASE UNCHANGED vars
  BY <1>3, <1>5
<1>6. ASSUME NEW p \in Procs, Load(p) \/ Subscribe(p) \/ IgnoreMessage(p)
      PROVE  Written(q)'
  BY <1>3, <1>6 DEF Load, Subscribe, IgnoreMessage
<1>7. ASSUME NEW p \in Procs,
             UpdateRegister(p) \/ PublishForSync(p) \/ MergeRemote(p) \/ ReadCache(p) \/ Trim(p)
      PROVE  Written(q)'
  <2>1. /\ UNCHANGED <<deployed, appended, pushed>> /\ Advance(p) /\ ~Ended(p)
        /\ Call(p).op \notin {"append", "push"}
    BY <1>7 DEF UpdateRegister, PublishForSync, MergeRemote, ReadCache, Trim, Save, Doing
  <2>2. Moved(p)
    BY <2>1, AtACall
  <2> QED  BY <1>3, <1>4, <2>1, <2>2 DEF Moved
<1>8. ASSUME NEW p \in Procs, Abort(p) PROVE Written(q)'
  <2>1. q = p => Ended(q)'
    BY <1>8, AtACall DEF Abort, StepInv, Ended, LastVisit
  <2>2. UNCHANGED <<deployed, appended, pushed>> /\ ~Ended(p) /\ (q # p => step'[q] = step[q])
    BY <1>8 DEF Abort, StepInv
  <2> QED  BY <1>3, <1>4, <1>8, <2>1, <2>2
<1>9. ASSUME NEW p \in Procs, ReadLog(p) PROVE Written(q)'
  <2>1. /\ UNCHANGED <<deployed, appended, pushed>> /\ ~Ended(p) /\ (q # p => step'[q] = step[q])
        /\ Call(p).op \notin {"append", "push"}
    BY <1>9 DEF ReadLog, StepInv, Doing, Skip
  <2> QED  BY <1>3, <1>4, <1>9, <2>1
<1>10. ASSUME NEW p \in Procs, AppendIteration(p) PROVE Written(q)'
  <2>1. /\ UNCHANGED <<deployed, pushed>> /\ ~Ended(p) /\ Moved(p)
        /\ Call(p).op = "append" /\ Task(p) \in Tasks /\ step[p].visit \in Nat
        /\ appended' = [appended EXCEPT ![Task(p)] = @ \cup {<<p, step[p].visit>>}]
    BY <1>10, AtACall DEF AppendIteration, Doing, Entry, Save
  <2>2. CASE q = p
    <3>1. ASSUME NEW t \in Tasks, NEW k \in Nat, <<q, k>> \in appended'[t]
          PROVE  t = Task(q) /\ Past(q, "append", k)'
      <4>1. \/ <<q, k>> \in appended[t]
            \/ t = Task(p) /\ k = step[p].visit
        BY <2>1, <2>2, <3>1 DEF ValuesInv
      <4> QED  BY <1>1, <2>1, <2>2, <4>1, Passing DEF Written
    <3>2. ASSUME NEW t \in Tasks, NEW k \in Nat,
                 \E i \in 1..Len(pushed[t]) : pushed[t][i] = <<q, k>>
          PROVE  t = Task(q) /\ Past(q, "push", k)'
      BY <1>1, <2>1, <2>2, <3>2, Passing DEF Written
    <3>3. ASSUME ~Ended(q)', NEW k \in Nat, Past(q, "append", k)'
          PROVE  <<q, k>> \in appended'[Task(q)]
      <4>1. Past(q, "append", k) \/ k = step[p].visit
        BY <2>1, <2>2, <3>3, Passing
      <4> QED  BY <1>1, <2>1, <2>2, <4>1 DEF Written, ValuesInv
    <3> QED  BY <1>2, <2>1, <3>1, <3>2, <3>3 DEF Written
  <2>3. CASE q # p
    <3>1. \A t \in Tasks, k \in Nat : <<q, k>> \in appended'[t] <=> <<q, k>> \in appended[t]
      BY <2>1, <2>3 DEF ValuesInv
    <3>2. step'[q] = step[q] /\ Task(q) \in Tasks
      BY <2>1, <2>3, AtACall DEF Moved
    <3> QED  BY <1>1, <2>1, <3>1, <3>2 DEF Written, Past, Ahead, Task, Ended, Calls, LastVisit
  <2> QED  BY <2>2, <2>3
<1>11. ASSUME NEW p \in Procs, Push(p) PROVE Written(q)'
  <2>1. /\ UNCHANGED <<deployed, appended>> /\ ~Ended(p) /\ Moved(p)
        /\ Call(p).op = "push" /\ Task(p) \in Tasks /\ step[p].visit \in Nat
        /\ pushed' = [pushed EXCEPT ![Task(p)] = Append(@, <<p, step[p].visit>>)]
    BY <1>11, AtACall DEF Push, Doing, Entry
  <2>2. ASSUME NEW t \in Tasks, NEW k \in Nat, NEW i \in 1..Len(pushed'[t]),
               pushed'[t][i] = <<q, k>>
        PROVE  \/ \E j \in 1..Len(pushed[t]) : pushed[t][j] = <<q, k>>
               \/ q = p /\ t = Task(p) /\ k = step[p].visit
    <3>1. pushed[t] \in Seq(Entries)
      BY DEF ValuesInv
    <3>2. CASE t # Task(p)
      BY <2>1, <2>2, <3>2 DEF ValuesInv
    <3>3. CASE t = Task(p)
      <4>1. pushed'[t] = Append(pushed[t], <<p, step[p].visit>>)
        BY <2>1, <3>3 DEF ValuesInv
      <4>2. CASE i \in 1..Len(pushed[t])
        BY <2>2, <3>1, <4>1, <4>2
      <4>3. CASE i \notin 1..Len(pushed[t])
        BY <2>2, <3>1, <3>3, <4>1, <4>3
      <4> QED  BY <4>2, <4>3
    <3> QED  BY <3>2, <3>3
  <2>3. CASE q = p
    <3>1. ASSUME NEW t \in Tasks, NEW k \in Nat, <<q, k>> \in appended[t]
          PROVE  t = Task(q) /\ Past(q, "append", k)'
      BY <1>1, <2>1, <2>3, <3>1, Passing DEF Written
    <3>2. ASSUME NEW t \in Tasks, NEW k \in Nat,
                 \E i \in 1..Len(pushed'[t]) : pushed'[t][i] = <<q, k>>
          PROVE  t = Task(q) /\ Past(q, "push", k)'
      <4>1. CASE \E j \in 1..Len(pushed[t]) : pushed[t][j] = <<q, k>>
        <5>1. t = Task(q) /\ Past(q, "push", k)
          BY <1>1, <4>1 DEF Written
        <5> QED  BY <2>1, <2>3, <5>1, Passing
      <4>2. CASE t = Task(p) /\ k = step[p].visit
        BY <2>1, <2>3, <4>2, Passing
      <4> QED  BY <2>2, <3>2, <4>1, <4>2
    <3>3. ASSUME ~Ended(q)', NEW k \in Nat, Past(q, "append", k)'
          PROVE  <<q, k>> \in appended[Task(q)]
      BY <1>1, <2>1, <2>3, <3>3, Passing DEF Written
    <3> QED  BY <1>2, <2>1, <3>1, <3>2, <3>3 DEF Written
  <2>4. CASE q # p
    <3>1. step'[q] = step[q]
      BY <2>1, <2>4 DEF Moved
    <3>2. ASSUME NEW t \in Tasks, NEW k \in Nat,
                 \E i \in 1..Len(pushed'[t]) : pushed'[t][i] = <<q, k>>
          PROVE  t = Task(q) /\ Past(q, "push", k)
      BY <1>1, <2>2, <2>4, <3>2 DEF Written
    <3>3. ASSUME NEW op, NEW k \in Nat PROVE Past(q, op, k)' <=> Past(q, op, k)
      BY <2>1, <3>1 DEF Moved, Past, Ahead, Ended, Calls, LastVisit
    <3>4. Ended(q)' <=> Ended(q)
      BY <2>1, <3>1 DEF Moved, Ended, LastVisit
    <3> QED  BY <1>1, <1>2, <2>1, <3>2, <3>3, <3>4 DEF Written
  <2> QED  BY <2>3, <2>4
<1> QED  BY <1>5, <1>6, <1>7, <1>8, <1>9, <1>10, <1>11 DEF Next, Continue

(* A sound state stays sound when a register is set, when an entry is      *)
(* appended and counted, and when another sound state is merged into it.   *)
LEMMA Soundness ==
  ASSUME NEW node, NEW A \in SUBSET Entries, IsFiniteSet(A), NEW s \in States, Sound(s, A, node)
  PROVE  /\ \A B : A \subseteq B => Sound(s, B, node)
         /\ \A f \in Fields, r \in Register : Sound([s EXCEPT !.registers[f] = r], A, node)
         /\ \A u \in Entries, e \in Payloads : u \notin A =>
               Sound([s EXCEPT !.log = ORSetAdd(@, u, e),
                               !.counter = GCounterIncrement(@, node[u[1]][u[2]])], A \cup {u}, node)
         /\ \A r \in States : Sound(r, A, node) => Sound(StateMerge(s, r), A, node)
<1>1. ASSUME NEW B, A \subseteq B PROVE Sound(s, B, node)
  BY <1>1 DEF Sound
<1>2. ASSUME NEW f \in Fields, NEW r \in Register
      PROVE  Sound([s EXCEPT !.registers[f] = r], A, node)
  BY DEF Sound, OfNode, States
<1>3. ASSUME NEW u \in Entries, NEW e \in Payloads, u \notin A
      PROVE  Sound([s EXCEPT !.log = ORSetAdd(@, u, e),
                             !.counter = GCounterIncrement(@, node[u[1]][u[2]])], A \cup {u}, node)
  <2> DEFINE S == [s EXCEPT !.log = ORSetAdd(@, u, e),
                            !.counter = GCounterIncrement(@, node[u[1]][u[2]])]
  <2>1. /\ DOMAIN S.log.elements = DOMAIN s.log.elements \cup {u}
        /\ S.counter = GCounterIncrement(s.counter, node[u[1]][u[2]])
    BY DEF States, Logs, ORSetAdd
  <2> HIDE DEF S
  <2>2. ASSUME NEW n \in Nodes
        PROVE  Count(S.counter, n) <= Cardinality(OfNode(S, node, n))
    <3>1. IsFiniteSet(OfNode(s, node, n)) /\ Cardinality(OfNode(s, node, n)) \in Nat
      BY FS_Subset, FS_CardinalityType DEF Sound, OfNode
    <3>2. Count(s.counter, n) \in Nat /\ Count(s.counter, n) <= Cardinality(OfNode(s, node, n))
      BY DEF Sound, Count, States, Counters
    <3>3. CASE n = node[u[1]][u[2]]
      <4>1. OfNode(S, node, n) = OfNode(s, node, n) \cup {u} /\ u \notin OfNode(s, node, n)
        BY <1>3, <2>1, <3>3 DEF OfNode, Sound
      <4>2. Cardinality(OfNode(S, node, n)) = Cardinality(OfNode(s, node, n)) + 1
        BY <3>1, <4>1, FS_AddElement
      <4>3. Count(S.counter, n) = Count(s.counter, n) + 1
        BY <2>1, <3>3 DEF Count, GCounterIncrement
      <4> QED  BY <3>1, <3>2, <4>2, <4>3
    <3>4. CASE n # node[u[1]][u[2]]
      <4>1. OfNode(S, node, n) = OfNode(s, node, n)
        BY <2>1, <3>4 DEF OfNode
      <4>2. Count(S.counter, n) = Count(s.counter, n)
        BY <2>1, <3>4 DEF Count, GCounterIncrement
      <4> QED  BY <3>2, <4>1, <4>2
    <3> QED  BY <3>3, <3>4
  <2> QED  BY <2>1, <2>2 DEF Sound, S
<1>4. ASSUME NEW r \in States, Sound(r, A, node)
      PROVE  Sound(StateMerge(s, r), A, node)
  <2> DEFINE S == StateMerge(s, r)
  <2>1. /\ DOMAIN S.log.elements = DOMAIN s.log.elements \cup DOMAIN r.log.elements
        /\ S.counter = GCounterMerge(s.counter, r.counter)
    BY DEF StateMerge, ORSetMerge, States, Logs
  <2> HIDE DEF S
  <2>2. ASSUME NEW n \in Nodes
        PROVE  Count(S.counter, n) <= Cardinality(OfNode(S, node, n))
    <3>1. IsFiniteSet(OfNode(S, node, n)) /\ Cardinality(OfNode(S, node, n)) \in Nat
      BY <1>4, <2>1, FS_Subset, FS_CardinalityType DEF Sound, OfNode
    <3>2. /\ OfNode(s, node, n) \subseteq OfNode(S, node, n)
          /\ OfNode(r, node, n) \subseteq OfNode(S, node, n)
      BY <2>1 DEF OfNode
    <3>3. /\ Cardinality(OfNode(s, node, n)) <= Cardinality(OfNode(S, node, n))
          /\ Cardinality(OfNode(r, node, n)) <= Cardinality(OfNode(S, node, n))
      BY <3>1, <3>2, FS_Subset
    <3>4. /\ Count(s.counter, n) <= Cardinality(OfNode(s, node, n))
          /\ Count(r.counter, n) <= Cardinality(OfNode(r, node, n))
      BY <1>4 DEF Sound
    <3>5. Count(S.counter, n) \in {Count(s.counter, n), Count(r.counter, n), 0}
      BY <2>1 DEF Count, GCounterMerge, Larger
    <3>6. /\ Count(s.counter, n) \in Nat /\ Count(r.counter, n) \in Nat
      BY DEF Count, States, Counters
    <3>7. Cardinality(OfNode(s, node, n)) \in Nat /\ Cardinality(OfNode(r, node, n)) \in Nat
      BY <3>1, <3>2, FS_Subset, FS_CardinalityType
    <3> QED  BY <3>1, <3>3, <3>4, <3>5, <3>6, <3>7
  <2> QED  BY <1>4, <2>1, <2>2 DEF Sound, S
<1> QED  BY <1>1, <1>2, <1>3, <1>4

(* Whoever saves, publishes or merges, and whomever he overwrites, all     *)
(* states remain sound.                                                    *)
LEMMA SoundStep ==
  ASSUME TypeInv, WrittenInv, SoundInv, [Next]_vars
  PROVE  SoundInv'
<1> USE DEF TypeInv
<1> DEFINE node == deployed.node
<1>1. ASSUME NEW t \in Tasks PROVE appended[t] \in SUBSET Entries /\ IsFiniteSet(appended[t])
  BY DEF ValuesInv
<1>2. None \notin States /\ None \notin Seq(Messages)
  BY StoreAssumption
<1>3. ASSUME NEW p \in Procs PROVE Task(p) \in Tasks
  BY AtACall
<1>4. CASE UNCHANGED vars
  BY <1>4 DEF SoundInv, Genuine, Task
<1>5. ASSUME NEW p \in Procs, Load(p) PROVE SoundInv'
  <2>1. /\ UNCHANGED <<deployed, store, appended, inbox>>
        /\ loaded' = [loaded EXCEPT ![p] = store[Task(p)]]
    BY <1>5 DEF Load, Key
  <2>2. ASSUME NEW q \in Procs, (inbox[q] # None)', NEW i \in 1..Len(inbox'[q])
        PROVE  Genuine(q, inbox[q][i])'
    BY <2>1, <2>2 DEF SoundInv, Genuine, Task
  <2>3. ASSUME NEW q \in Procs, (loaded[q] # None)'
        PROVE  Sound(loaded[q], appended[Task(q)], deployed.node)'
    BY <1>3, <2>1, <2>3 DEF Task, ValuesInv, SoundInv
  <2>4. ASSUME NEW t \in Tasks PROVE Sound(store[t], appended[t], deployed.node)'
    BY <2>1 DEF SoundInv
  <2> QED  BY <2>2, <2>3, <2>4 DEF SoundInv
<1>6. ASSUME NEW p \in Procs, Subscribe(p) \/ IgnoreMessage(p) PROVE SoundInv'
  <2>1. /\ UNCHANGED <<deployed, store, appended, loaded>>
        /\ \A q \in Procs \ {p} : inbox'[q] = inbox[q]
    BY <1>6 DEF Subscribe, IgnoreMessage, ValuesInv
  <2>2. ASSUME NEW i \in 1..Len(inbox'[p]), inbox'[p] # None PROVE Genuine(p, inbox'[p][i])
    <3>1. CASE Subscribe(p)
      BY <2>2, <3>1 DEF Subscribe, ValuesInv
    <3>2. CASE IgnoreMessage(p)
      <4>1. /\ inbox[p] # None /\ inbox[p] \in Seq(Messages) /\ inbox[p] # <<>>
            /\ inbox'[p] = Tail(inbox[p])
        BY <3>2 DEF IgnoreMessage, ValuesInv
      <4>2. i + 1 \in 1..Len(inbox[p]) /\ inbox'[p][i] = inbox[p][i+1]
        BY <4>1, <2>2
      <4> QED  BY <4>1, <4>2 DEF SoundInv
    <3> QED  BY <1>6, <3>1, <3>2
  <2>3. ASSUME NEW q \in Procs, inbox'[q] # None, NEW i \in 1..Len(inbox'[q])
        PROVE  Genuine(q, inbox'[q][i])
    BY <2>1, <2>2, <2>3 DEF SoundInv
  <2> QED  BY <2>1, <2>3 DEF SoundInv, Genuine, Task
<1>7. ASSUME NEW p \in Procs, UpdateRegister(p) PROVE SoundInv'
  <2>1. PICK v \in Values :
           Save(p, [loaded[p] EXCEPT !.registers[Call(p).field] = LWWSet(v, now + 1, NodeId(p))])
    BY <1>7 DEF UpdateRegister
  <2> DEFINE r == LWWSet(v, now + 1, NodeId(p))
             s == [loaded[p] EXCEPT !.registers[Call(p).field] = r]
  <2>2. r \in Register /\ Call(p).field \in Fields
    BY <1>7, AtACall DEF UpdateRegister, Doing, LWWSet, Register, ValuesInv
  <2>3. loaded[p] \in States /\ Sound(loaded[p], appended[Task(p)], node)
    BY <1>7 DEF UpdateRegister, ValuesInv, SoundInv
  <2> HIDE DEF r
  <2>4. Sound(s, appended[Task(p)], node)
    BY <1>1, <1>3, <2>2, <2>3, Soundness
  <2> HIDE DEF s
  <2>5. /\ store' = [store EXCEPT ![Task(p)] = s] /\ loaded' = [loaded EXCEPT ![p] = None]
        /\ UNCHANGED <<deployed, appended, inbox>>
    BY <1>7, <2>1 DEF UpdateRegister, Save, Key, s, r
  <2>6. ASSUME NEW t \in Tasks PROVE Sound(store'[t], appended[t], node)
    BY <1>3, <2>4, <2>5, <2>6 DEF SoundInv, ValuesInv
  <2>7. ASSUME NEW q \in Procs, loaded'[q] # None PROVE Sound(loaded'[q], appended[Task(q)], node)
    BY <1>3, <2>5, <2>7 DEF SoundInv, ValuesInv
  <2>8. ASSUME NEW q \in Procs, (inbox[q] # None)', NEW i \in 1..Len(inbox'[q])
        PROVE  Genuine(q, inbox[q][i])'
    BY <2>5, <2>8 DEF SoundInv, Genuine, Task
  <2>9. ASSUME NEW q \in Procs, (loaded[q] # None)'
        PROVE  Sound(loaded[q], appended[Task(q)], deployed.node)'
    BY <2>5, <2>7, <2>9 DEF Task
  <2>10. ASSUME NEW t \in Tasks PROVE Sound(store[t], appended[t], deployed.node)'
    BY <2>5, <2>6
  <2> QED  BY <2>8, <2>9, <2>10 DEF SoundInv
<1>8. ASSUME NEW p \in Procs, AppendIteration(p) PROVE SoundInv'
  <2>1. PICK e \in Payloads :
           Save(p, [loaded[p] EXCEPT !.log = ORSetAdd(@, Entry(p), e),
                                     !.counter = GCounterIncrement(@, NodeId(p))])
    BY <1>8 DEF AppendIteration
  <2> DEFINE u == Entry(p)
             s == [loaded[p] EXCEPT !.log = ORSetAdd(@, u, e),
                                    !.counter = GCounterIncrement(@, node[u[1]][u[2]])]
  <2>2. u \in Entries /\ node[u[1]][u[2]] = NodeId(p)
    BY <1>8, AtACall DEF AppendIteration, Doing, Entry, NodeId
  <2>3. loaded[p] \in States /\ Sound(loaded[p], appended[Task(p)], node)
    BY <1>8 DEF AppendIteration, ValuesInv, SoundInv
  <2>4. u \notin appended[Task(p)]
    <3>1. Ahead(p, "append") /\ step[p].visit \in Nat
      BY <1>8, AtACall DEF AppendIteration, Doing, Call, Ahead, InOrder
    <3> QED  BY <1>3, <3>1 DEF WrittenInv, Written, Past, Entry
  <2> HIDE DEF u
  <2>5. Sound(s, appended[Task(p)] \cup {u}, node)
    BY <1>1, <1>3, <2>2, <2>3, <2>4, Soundness
  <2> HIDE DEF s
  <2>6. /\ store' = [store EXCEPT ![Task(p)] = s] /\ loaded' = [loaded EXCEPT ![p] = None]
        /\ appended' = [appended EXCEPT ![Task(p)] = @ \cup {u}]
        /\ UNCHANGED <<deployed, inbox>>
    BY <1>8, <2>1, <2>2 DEF AppendIteration, Save, Key, s, u
  <2>7. ASSUME NEW t \in Tasks PROVE appended[t] \subseteq appended'[t]
    BY <2>6 DEF ValuesInv
  <2>8. ASSUME NEW t \in Tasks, NEW x \in States, Sound(x, appended[t], node)
        PROVE  Sound(x, appended'[t], node)
    BY <1>1, <2>7, <2>8, Soundness
  <2>9. ASSUME NEW t \in Tasks PROVE Sound(store'[t], appended'[t], node)
    <3>1. CASE t = Task(p)
      BY <2>5, <2>6, <3>1 DEF ValuesInv
    <3>2. CASE t # Task(p)
      BY <2>6, <2>8, <3>2 DEF ValuesInv, SoundInv
    <3> QED  BY <3>1, <3>2
  <2>10. ASSUME NEW q \in Procs, loaded'[q] # None PROVE Sound(loaded'[q], appended'[Task(q)], node)
    BY <1>3, <2>6, <2>8, <2>10 DEF ValuesInv, SoundInv
  <2>11. ASSUME NEW q \in Procs, inbox[q] # None, NEW i \in 1..Len(inbox[q])
         PROVE  /\ Sound(inbox[q][i].state, appended'[inbox[q][i].task], node)
                /\ \E a \in Procs \ {q} : Task(a) = inbox[q][i].task
    <3>1. inbox[q][i] \in Messages
      BY <2>11 DEF ValuesInv
    <3> QED  BY <2>8, <2>11, <3>1 DEF Messages, SoundInv, Genuine
  <2>12. ASSUME NEW q \in Procs, (inbox[q] # None)', NEW i \in 1..Len(inbox'[q])
         PROVE  Genuine(q, inbox[q][i])'
    <3>1. inbox' = inbox /\ deployed' = deployed /\ inbox[q] # None /\ i \in 1..Len(inbox[q])
      BY <2>6, <2>12
    <3> QED  BY <2>11, <3>1 DEF Genuine, Task
  <2>13. ASSUME NEW q \in Procs, (loaded[q] # None)'
         PROVE  Sound(loaded[q], appended[Task(q)], deployed.node)'
    <3>1. loaded'[q] # None
      BY <2>13
    <3>2. Sound(loaded'[q], appended'[Task(q)], node)
      BY <2>10, <3>1
    <3> QED  BY <2>6, <3>2 DEF Task
  <2>14. ASSUME NEW t \in Tasks PROVE Sound(store[t], appended[t], deployed.node)'
    BY <2>6, <2>9
  <2> QED  BY <2>12, <2>13, <2>14 DEF SoundInv
<1>9. ASSUME NEW p \in Procs, PublishForSync(p) PROVE SoundInv'
  <2> DEFINE m == [task |-> Task(p), node |-> NodeId(p), state |-> loaded[p]]
  <2>1. /\ UNCHANGED <<deployed, store, appended>> /\ loaded' = [loaded EXCEPT ![p] = None]
        /\ inbox' = [q \in Procs |-> IF inbox[q] = None THEN None ELSE Append(inbox[q], m)]
    BY <1>9 DEF PublishForSync
  <2>2. ASSUME NEW q \in Procs, inbox[q] # None PROVE Genuine(q, m)
    <3>1. p # q
      BY <1>9, <2>2 DEF PublishForSync, BusyInv, Busy, Doing
    <3> QED  BY <1>9, <3>1 DEF PublishForSync, SoundInv, Genuine
  <2> HIDE DEF m
  <2>3. ASSUME NEW q \in Procs, inbox'[q] # None, NEW i \in 1..Len(inbox'[q])
        PROVE  Genuine(q, inbox'[q][i])
    <3>1. inbox[q] # None /\ inbox[q] \in Seq(Messages) /\ inbox'[q] = Append(inbox[q], m)
      BY <2>1, <2>3 DEF ValuesInv
    <3>2. CASE i \in 1..Len(inbox[q])
      BY <3>1, <3>2 DEF SoundInv
    <3>3. CASE i \notin 1..Len(inbox[q])
      BY <2>2, <3>1, <3>3
    <3> QED  BY <3>2, <3>3
  <2>4. ASSUME NEW q \in Procs, (inbox[q] # None)', NEW i \in 1..Len(inbox'[q])
        PROVE  Genuine(q, inbox[q][i])'
    BY <2>1, <2>3, <2>4 DEF Genuine, Task
  <2>5. ASSUME NEW q \in Procs, (loaded[q] # None)'
        PROVE  Sound(loaded[q], appended[Task(q)], deployed.node)'
    BY <2>1, <2>5 DEF Task, ValuesInv, SoundInv
  <2>6. ASSUME NEW t \in Tasks PROVE Sound(store[t], appended[t], deployed.node)'
    BY <2>1 DEF SoundInv
  <2> QED  BY <2>4, <2>5, <2>6 DEF SoundInv
<1>10. ASSUME NEW p \in Procs, MergeRemote(p) PROVE SoundInv'
  <2>1. /\ inbox[p] # None /\ inbox[p] \in Seq(Messages) /\ inbox[p] # <<>>
        /\ Accepts(p, Head(inbox[p]))
    BY <1>10 DEF MergeRemote, ValuesInv, BusyInv, Busy, Doing
  <2>2. /\ Head(inbox[p]).state \in States
        /\ Sound(Head(inbox[p]).state, appended[Task(p)], node)
    <3>1. Head(inbox[p]) = inbox[p][1] /\ 1 \in 1..Len(inbox[p]) /\ Head(inbox[p]) \in Messages
      BY <2>1
    <3>2. Genuine(p, Head(inbox[p]))
      BY <2>1, <3>1 DEF SoundInv
    <3> QED  BY <2>1, <3>1, <3>2 DEF Messages, Genuine, Accepts
  <2>3. loaded[p] \in States /\ Sound(loaded[p], appended[Task(p)], node)
    BY <1>10 DEF MergeRemote, ValuesInv, SoundInv
  <2> DEFINE s == StateMerge(loaded[p], Head(inbox[p]).state)
  <2>4. Sound(s, appended[Task(p)], node)
    BY <1>1, <1>3, <2>2, <2>3, Soundness
  <2>5. /\ store' = [store EXCEPT ![Task(p)] = s] /\ loaded' = [loaded EXCEPT ![p] = None]
        /\ UNCHANGED <<deployed, appended>> /\ inbox' = [inbox EXCEPT ![p] = None]
    BY <1>10 DEF MergeRemote, Save, Key
  <2> HIDE DEF s
  <2> QED  BY <1>3, <2>4, <2>5 DEF SoundInv, Genuine, Task, ValuesInv
<1>11. ASSUME NEW p \in Procs, Abort(p) PROVE SoundInv'
  <2>1. /\ UNCHANGED <<deployed, store, appended>> /\ loaded' = [loaded EXCEPT ![p] = None]
        /\ inbox' = [inbox EXCEPT ![p] = None]
    BY <1>11 DEF Abort
  <2>2. ASSUME NEW q \in Procs, (inbox[q] # None)', NEW i \in 1..Len(inbox'[q])
        PROVE  Genuine(q, inbox[q][i])'
    <3>1. inbox'[q] = inbox[q] /\ inbox[q] # None
      BY <2>1, <2>2 DEF ValuesInv
    <3>2. Genuine(q, inbox[q][i])
      BY <2>2, <3>1 DEF SoundInv
    <3> QED  BY <2>1, <3>1, <3>2 DEF Genuine, Task
  <2>3. ASSUME NEW q \in Procs, (loaded[q] # None)'
        PROVE  Sound(loaded[q], appended[Task(q)], deployed.node)'
    BY <2>1, <2>3 DEF Task, ValuesInv, SoundInv
  <2>4. ASSUME NEW t \in Tasks PROVE Sound(store[t], appended[t], deployed.node)'
    BY <2>1 DEF SoundInv
  <2> QED  BY <2>2, <2>3, <2>4 DEF SoundInv
<1>12. ASSUME NEW p \in Procs, ReadLog(p) \/ ReadCache(p) \/ Push(p) \/ Trim(p) PROVE SoundInv'
  <2>1. UNCHANGED <<deployed, store, appended, loaded, inbox>>
    BY <1>12 DEF ReadLog, ReadCache, Push, Trim
  <2> QED  BY <2>1 DEF SoundInv, Genuine, Task
<1> QED  BY <1>4, <1>5, <1>6, <1>7, <1>8, <1>9, <1>10, <1>11, <1>12 DEF Next, Continue

(* Nobody else saves to the task of a sole writer, so what it saves is what*)
(* it has loaded and one update.                                           *)
LEMMA SoleStep ==
  ASSUME TypeInv, WrittenInv, SoundInv, SoleInv, [Next]_vars
  PROVE  SoleInv'
<1> USE DEF TypeInv
<1>1. UNCHANGED deployed
  BY DEF Next, Continue, Load, UpdateRegister, AppendIteration, PublishForSync, Subscribe,
         IgnoreMessage, MergeRemote, ReadLog, ReadCache, Push, Trim, Abort
<1> SUFFICES ASSUME NEW q \in Procs, Sole(q) PROVE Exact(q)'
  BY <1>1 DEF SoleInv, Sole, Task
<1>2. Exact(q) /\ Task(q)' = Task(q) /\ Task(q) \in Tasks
  BY <1>1, AtACall DEF SoleInv, Task
<1>3. ASSUME UNCHANGED <<step[q], store[Task(q)], appended[Task(q)], latest[Task(q)]>>,
             loaded'[q] \in {None, loaded[q], store[Task(q)]}
      PROVE  Exact(q)'
  BY <1>1, <1>2, <1>3 DEF Exact, Doing, Ended, Call, Calls, LastVisit
<1>4. ASSUME NEW p \in Procs \ {q} PROVE Task(p) # Task(q)
  BY DEF Sole
(* what a call of another run may do does not matter to q                  *)
<1>5. ASSUME NEW p \in Procs \ {q}, Moved(p) \/ ReadLog(p) \/ Abort(p) \/ UNCHANGED step,
             \A t \in Tasks \ {Task(p)} : UNCHANGED <<store[t], appended[t], latest[t]>>,
             UNCHANGED loaded[q]
      PROVE  Exact(q)'
  <2>1. UNCHANGED step[q]
    BY <1>5 DEF Moved, ReadLog, Abort, Skip, StepInv
  <2> QED  BY <1>2, <1>3, <1>4, <1>5, <2>1
<1>6. ASSUME Moved(q), ~Ended(q), Call(q).op # "readlog"
      PROVE  ~Doing(q, {"readcache"})'
  <2>1. /\ InOrder(Calls(q), step[q].visit) /\ step[q].call \in 1 .. Len(Calls(q))
        /\ step[q].visit \in Nat
    BY AtACall
  <2>2. CASE /\ step[q].call + 1 \in 1 .. Len(Calls(q))
             /\ step'[q] = [visit |-> step[q].visit, call |-> step[q].call + 1]
    <3>1. Calls(q)[step[q].call + 1].op # "readcache"
      BY <1>6, <2>1, <2>2 DEF InOrder, Call
    <3> QED  BY <1>1, <2>2, <3>1 DEF Doing, Call, Calls
  <2>3. CASE step'[q] = [visit |-> step[q].visit + 1, call |-> 1]
    <3> DEFINE sync == q \in deployed.sync
               v == step[q].visit + 1
    <3>1. v \in Nat /\ sync \in BOOLEAN
      BY <2>1
    <3>2. Calls(q)' = NodeCalls(v, sync) /\ step'[q].call = 1
      BY <1>1, <2>3 DEF Calls
    <3> HIDE DEF sync, v
    <3>3. InOrder(NodeCalls(v, sync), v)
      BY <3>1, CallsOfVisit, Zenon
    <3> QED  BY <3>2, <3>3 DEF InOrder, Doing, Call
  <2> QED  BY <1>6, <2>2, <2>3 DEF Moved
<1>7. CASE UNCHANGED vars
  BY <1>2, <1>3, <1>7
<1>8. ASSUME NEW p \in Procs, Load(p) \/ Subscribe(p) \/ IgnoreMessage(p) PROVE Exact(q)'
  <2>1. UNCHANGED <<step, store, appended, latest>>
    BY <1>8 DEF Load, Subscribe, IgnoreMessage
  <2>2. loaded'[q] \in {loaded[q], store[Task(q)]}
    BY <1>8 DEF Load, Subscribe, IgnoreMessage, ValuesInv, Key
  <2> QED  BY <1>2, <1>3, <2>1, <2>2
<1>9. ASSUME NEW p \in Procs, UpdateRegister(p) PROVE Exact(q)'
  <2>1. PICK v \in Values :
           LET f == Call(p).field
               r == LWWSet(v, now + 1, NodeId(p))
           IN  /\ Save(p, [loaded[p] EXCEPT !.registers[f] = r])
               /\ latest' = [latest EXCEPT ![Task(p)][f] = r]
    BY <1>9 DEF UpdateRegister
  <2> DEFINE r == LWWSet(v, now + 1, NodeId(p))
             s == [loaded[p] EXCEPT !.registers[Call(p).field] = r]
  <2> HIDE DEF r
  <2>2. /\ store' = [store EXCEPT ![Task(p)] = s] /\ loaded' = [loaded EXCEPT ![p] = None]
        /\ latest' = [latest EXCEPT ![Task(p)][Call(p).field] = r]
        /\ UNCHANGED appended /\ ~Ended(p) /\ Call(p).op = "set" /\ loaded[p] # None
        /\ Moved(p)
    BY <1>1, <1>9, <2>1, AtACall DEF UpdateRegister, Save, Key, r, Doing
  <2>3. CASE p = q
    <3>1. loaded[q] = store[Task(q)] /\ loaded[q] \in States
      BY <1>2, <2>2, <2>3 DEF Exact, ValuesInv
    <3>2. /\ s.log = store[Task(q)].log /\ s.counter = store[Task(q)].counter
          /\ s.registers = [store[Task(q)].registers EXCEPT ![Call(q).field] = r]
      BY <2>3, <3>1 DEF States
    <3>3. store'[Task(q)] = s /\ loaded'[q] = None
      BY <1>2, <2>2, <2>3 DEF ValuesInv
    <3>4. latest'[Task(q)] = [latest[Task(q)] EXCEPT ![Call(q).field] = r]
      BY <1>2, <2>2, <2>3 DEF ValuesInv
    <3> HIDE DEF s
    <3> QED  BY <1>1, <1>2, <1>6, <2>2, <2>3, <3>2, <3>3, <3>4 DEF Exact, OfNode
  <2>4. CASE p # q
    <3>1. \A t \in Tasks \ {Task(p)} : UNCHANGED <<store[t], appended[t], latest[t]>>
      BY <2>2 DEF ValuesInv
    <3> QED  BY <1>5, <2>2, <2>4, <3>1
  <2> QED  BY <2>3, <2>4
<1>10. ASSUME NEW p \in Procs, AppendIteration(p) PROVE Exact(q)'
  <2>1. PICK e \in Payloads :
           Save(p, [loaded[p] EXCEPT !.log = ORSetAdd(@, Entry(p), e),
                                     !.counter = GCounterIncrement(@, NodeId(p))])
    BY <1>10 DEF AppendIteration
  <2> DEFINE s == [loaded[p] EXCEPT !.log = ORSetAdd(@, Entry(p), e),
                                    !.counter = GCounterIncrement(@, NodeId(p))]
  <2>2. /\ store' = [store EXCEPT ![Task(p)] = s] /\ loaded' = [loaded EXCEPT ![p] = None]
        /\ appended' = [appended EXCEPT ![Task(p)] = @ \cup {Entry(p)}]
        /\ UNCHANGED latest /\ ~Ended(p) /\ Call(p).op = "append" /\ loaded[p] # None
        /\ Moved(p)
    BY <1>1, <1>10, <2>1, AtACall DEF AppendIteration, Save, Key, Doing
  <2>3. CASE p = q
    <3>1. loaded[q] = store[Task(q)] /\ loaded[q] \in States
      BY <1>2, <2>2, <2>3 DEF Exact, ValuesInv
    <3>2. /\ DOMAIN s.log.elements = DOMAIN store[Task(q)].log.elements \cup {Entry(q)}
          /\ s.counter = GCounterIncrement(store[Task(q)].counter, NodeId(q))
          /\ s.registers = store[Task(q)].registers
      BY <2>3, <3>1 DEF States, Logs, ORSetAdd
    <3> HIDE DEF s
    <3>3. /\ store'[Task(q)] = s /\ loaded'[q] = None
          /\ appended'[Task(q)] = appended[Task(q)] \cup {Entry(q)}
      BY <1>2, <2>2, <2>3 DEF ValuesInv
    <3>4. Entry(q) \notin appended[Task(q)]
      <4>1. Ahead(q, "append") /\ step[q].visit \in Nat
        BY <2>2, <2>3, AtACall DEF Call, Ahead, InOrder
      <4> QED  BY <1>2, <4>1 DEF WrittenInv, Written, Past, Entry
    <3>5. ASSUME NEW n \in Nodes
          PROVE  Count(s.counter, n) = Cardinality(OfNode(s, deployed.node, n))
      <4> DEFINE old == OfNode(store[Task(q)], deployed.node, n)
      <4>1. IsFiniteSet(old) /\ Entry(q) \notin old
        BY <1>2, <3>4, FS_Subset DEF ValuesInv, OfNode, Exact
      <4>2. Count(store[Task(q)].counter, n) = Cardinality(old)
        BY <1>2 DEF Exact
      <4>3. deployed.node[Entry(q)[1]][Entry(q)[2]] = NodeId(q)
        BY DEF Entry, NodeId
      <4>4. CASE n = NodeId(q)
        <5>1. OfNode(s, deployed.node, n) = old \cup {Entry(q)}
          BY <3>2, <4>3, <4>4 DEF OfNode
        <5>2. Count(s.counter, n) = Count(store[Task(q)].counter, n) + 1
          BY <3>2, <4>4 DEF Count, GCounterIncrement
        <5> QED  BY <4>1, <4>2, <5>1, <5>2, FS_AddElement
      <4>5. CASE n # NodeId(q)
        <5>1. OfNode(s, deployed.node, n) = old
          BY <3>2, <4>3, <4>5 DEF OfNode
        <5>2. Count(s.counter, n) = Count(store[Task(q)].counter, n)
          BY <3>2, <4>5 DEF Count, GCounterIncrement
        <5> QED  BY <4>2, <5>1, <5>2
      <4> QED  BY <4>4, <4>5
    <3> QED  BY <1>1, <1>2, <1>6, <2>2, <2>3, <3>2, <3>3, <3>5 DEF Exact
  <2>4. CASE p # q
    <3>1. \A t \in Tasks \ {Task(p)} : UNCHANGED <<store[t], appended[t], latest[t]>>
      BY <2>2 DEF ValuesInv
    <3> QED  BY <1>5, <2>2, <2>4, <3>1
  <2> QED  BY <2>3, <2>4
<1>11. ASSUME NEW p \in Procs, MergeRemote(p) PROVE Exact(q)'
  <2>1. /\ inbox[p] # None /\ inbox[p] \in Seq(Messages) /\ inbox[p] # <<>>
        /\ Accepts(p, Head(inbox[p]))
    BY <1>11 DEF MergeRemote, ValuesInv, BusyInv, Busy, Doing
  <2>2. p # q
    <3>1. Head(inbox[p]) = inbox[p][1] /\ 1 \in 1..Len(inbox[p])
      BY <2>1
    <3>2. \E a \in Procs \ {p} : Task(a) = Head(inbox[p]).task
      BY <2>1, <3>1 DEF SoundInv, Genuine
    <3> QED  BY <2>1, <3>2 DEF Accepts, Sole
  <2>3. /\ store' = [store EXCEPT ![Task(p)] = StateMerge(loaded[p], Head(inbox[p]).state)]
        /\ loaded' = [loaded EXCEPT ![p] = None]
        /\ UNCHANGED <<appended, latest>> /\ Moved(p)
    BY <1>1, <1>11, AtACall DEF MergeRemote, Save, Key, Doing
  <2>4. \A t \in Tasks \ {Task(p)} : UNCHANGED <<store[t], appended[t], latest[t]>>
    BY <2>3 DEF ValuesInv
  <2> QED  BY <1>5, <2>2, <2>3, <2>4
<1>12. ASSUME NEW p \in Procs, Abort(p) PROVE Exact(q)'
  <2>1. UNCHANGED <<store, appended, latest>> /\ loaded' = [loaded EXCEPT ![p] = None]
    BY <1>12 DEF Abort
  <2>2. CASE p = q
    <3>1. ~Doing(q, {"readcache"})'
      BY <1>1, <1>12, <2>2, AtACall DEF Abort, Doing, Ended, LastVisit, StepInv
    <3> QED  BY <1>1, <1>2, <2>1, <2>2, <3>1 DEF Exact, ValuesInv
  <2>3. CASE p # q
    BY <1>5, <1>12, <2>1, <2>3
  <2> QED  BY <2>2, <2>3
<1>13. ASSUME NEW p \in Procs, ReadLog(p) PROVE Exact(q)'
  <2>1. UNCHANGED <<store, appended, latest, loaded>>
    BY <1>13 DEF ReadLog
  <2>2. CASE p = q
    <3>1. /\ InOrder(Calls(q), step[q].visit) /\ step[q].call \in 1 .. Len(Calls(q))
          /\ step[q] \in [visit: Nat, call: Nat]
      BY AtACall
    <3>2. CASE DOMAIN store[Task(q)].log.elements = {}
      BY <1>1, <1>2, <2>1, <3>2 DEF Exact
    <3>3. CASE DOMAIN store[Task(q)].log.elements # {}
      <4>1. Skip(q, 2) /\ Call(q).op = "readlog"
        BY <1>13, <2>2, <3>3 DEF ReadLog, Key, Doing
      <4>2. step'[q] = [visit |-> step[q].visit, call |-> step[q].call + 2]
        BY <3>1, <4>1 DEF Skip, StepInv
      <4>3. Calls(q)[step[q].call + 2].op # "readcache"
        BY <3>1, <4>1 DEF InOrder, Call, Set
      <4>4. ~Doing(q, {"readcache"})'
        BY <1>1, <4>2, <4>3 DEF Doing, Call, Calls
      <4> QED  BY <1>1, <1>2, <2>1, <4>4 DEF Exact
    <3> QED  BY <3>2, <3>3
  <2>3. CASE p # q
    BY <1>5, <1>13, <2>1, <2>3
  <2> QED  BY <2>2, <2>3
<1>14. ASSUME NEW p \in Procs, PublishForSync(p) \/ ReadCache(p) \/ Push(p) \/ Trim(p)
       PROVE  Exact(q)'
  <2>1. /\ UNCHANGED <<store, appended, latest>> /\ Moved(p) /\ ~Ended(p)
        /\ Call(p).op # "readlog"
    BY <1>1, <1>14, AtACall DEF PublishForSync, ReadCache, Push, Trim, Doing
  <2>2. \/ UNCHANGED loaded
        \/ loaded' = [loaded EXCEPT ![p] = None]
    BY <1>14 DEF PublishForSync, ReadCache, Push, Trim
  <2>3. CASE p = q
    <3>1. loaded'[q] \in {None, loaded[q]} /\ ~Doing(q, {"readcache"})'
      BY <1>6, <2>1, <2>2, <2>3 DEF ValuesInv
    <3> QED  BY <1>1, <1>2, <2>1, <3>1 DEF Exact
  <2>4. CASE p # q
    <3>1. UNCHANGED loaded[q]
      BY <2>2, <2>4 DEF ValuesInv
    <3> QED  BY <1>5, <2>1, <2>4, <3>1
  <2> QED  BY <2>3, <2>4
<1> QED  BY <1>7, <1>8, <1>9, <1>10, <1>11, <1>12, <1>13, <1>14 DEF Next, Continue

(* A push adds an entry to the end, a trim cuts all but the window, and no *)
(* other command touches a list.                                           *)
LEMMA WindowStep ==
  ASSUME TypeInv, CacheIsWindow, [Next]_vars
  PROVE  CacheIsWindow'
<1> USE DEF TypeInv
<1> DEFINE K(t) == Cardinality(Trimming(t)) + aborts
<1>0. ASSUME NEW x \in Seq(Entries), NEW i \in Nat \ {0}, NEW j \in Nat, i <= j + 1, j <= Len(x)
      PROVE  /\ SubSeq(x, i, j) \in Seq(Entries) /\ Len(SubSeq(x, i, j)) = j - i + 1
             /\ \A l \in 1 .. j - i + 1 : SubSeq(x, i, j)[l] = x[i + l - 1]
  <2>1. i \in Int /\ j \in Int /\ Len(x) \in Nat
    BY LenProperties
  <2>2. \A l \in i .. j : x[l] \in Entries
    BY <1>0, <2>1, ElementOfSeq
  <2>3. /\ SubSeq(x, i, j) \in Seq(Entries)
        /\ Len(SubSeq(x, i, j)) = IF i <= j THEN j - i + 1 ELSE 0
        /\ \A l \in 1 .. j - i + 1 : SubSeq(x, i, j)[l] = x[i + l - 1]
    BY <2>1, <2>2, SubSeqProperties
  <2> QED  BY <1>0, <2>1, <2>3
<1>1. ASSUME NEW c \in Seq(Entries), NEW u \in Seq(Entries), NEW k \in Nat, Windowed(c, u, k)
      PROVE  /\ \A j \in Nat : k <= j => Windowed(c, u, j)
             /\ \A e \in Entries : Windowed(Append(c, e), Append(u, e), k + 1)
             /\ Windowed(SubSeq(c, Larger(1, Len(c) - Window + 1), Len(c)), u, 0)
  <2>1. /\ Window \in Nat \ {0} /\ Len(c) \in Nat /\ Len(u) \in Nat
        /\ Len(c) <= Len(u) /\ c = SubSeq(u, Len(u) - Len(c) + 1, Len(u))
        /\ (Len(c) >= Window \/ Len(c) = Len(u)) /\ Len(c) <= Window + k
    BY <1>1, StoreAssumption DEF Windowed
  <2>2. ASSUME NEW j \in Nat, k <= j PROVE Windowed(c, u, j)
    BY <2>1, <2>2 DEF Windowed
  <2>3. ASSUME NEW e \in Entries PROVE Windowed(Append(c, e), Append(u, e), k + 1)
    <3> DEFINE a == Len(u) - Len(c)
               d == SubSeq(Append(u, e), a + 1, Len(u) + 1)
    <3>1. /\ Append(c, e) \in Seq(Entries) /\ Append(u, e) \in Seq(Entries)
          /\ Len(Append(c, e)) = Len(c) + 1 /\ Len(Append(u, e)) = Len(u) + 1
          /\ a \in Nat
      BY <2>1, AppendProperties
    <3>2. /\ d \in Seq(Entries) /\ Len(d) = Len(c) + 1
          /\ \A i \in 1 .. Len(c) + 1 : d[i] = Append(u, e)[a + i]
      <4>1. /\ a + 1 \in Nat \ {0} /\ Len(u) + 1 \in Nat
            /\ a + 1 <= (Len(u) + 1) + 1 /\ Len(u) + 1 <= Len(Append(u, e))
            /\ Append(u, e) \in Seq(Entries)
            /\ (Len(u) + 1) - (a + 1) + 1 = Len(c) + 1
        BY <2>1, <3>1
      <4>2. /\ d \in Seq(Entries) /\ Len(d) = (Len(u) + 1) - (a + 1) + 1
            /\ \A i \in 1 .. (Len(u) + 1) - (a + 1) + 1 : d[i] = Append(u, e)[(a + 1) + i - 1]
        BY <1>0, <4>1, Zenon
      <4> HIDE DEF d
      <4>3. \A i \in 1 .. Len(c) + 1 : (a + 1) + i - 1 = a + i
        BY <2>1, <3>1
      <4>4. ASSUME NEW i \in 1 .. Len(c) + 1 PROVE d[i] = Append(u, e)[a + i]
        <5>1. i \in 1 .. (Len(u) + 1) - (a + 1) + 1
          BY <4>1
        <5>2. d[i] = Append(u, e)[(a + 1) + i - 1]
          BY <4>2, <5>1, Zenon
        <5> QED  BY <4>3, <5>2
      <4> QED  BY <4>1, <4>2, <4>4
    <3>3. \A i \in 1 .. Len(c) : c[i] = u[a + i]
      <4>1. /\ a + 1 \in Nat \ {0} /\ Len(u) \in Nat
            /\ a + 1 <= Len(u) + 1 /\ Len(u) <= Len(u)
            /\ Len(u) - (a + 1) + 1 = Len(c) /\ c = SubSeq(u, a + 1, Len(u))
        BY <2>1, <3>1
      <4>2. \A i \in 1 .. Len(u) - (a + 1) + 1 : c[i] = u[(a + 1) + i - 1]
        <5>1. \A i \in 1 .. Len(u) - (a + 1) + 1 : SubSeq(u, a + 1, Len(u))[i] = u[(a + 1) + i - 1]
          BY <1>0, <4>1, Zenon
        <5> QED  BY <4>1, <5>1
      <4>3. \A i \in 1 .. Len(c) : (a + 1) + i - 1 = a + i
        BY <2>1, <3>1
      <4> QED  BY <4>1, <4>2, <4>3
    <3> HIDE DEF d
    <3>4. ASSUME NEW i \in 1 .. Len(c) + 1 PROVE Append(c, e)[i] = d[i]
      <4>1. CASE i = Len(c) + 1
        <5>1. a + i = Len(u) + 1
          BY <2>1, <4>1
        <5>2. Append(c, e)[i] = e /\ Append(u, e)[a + i] = e
          BY <4>1, <5>1, AppendProperties
        <5> QED  BY <3>2, <5>2
      <4>2. CASE i \in 1 .. Len(c)
        <5>1. a + i \in 1 .. Len(u)
          BY <2>1, <4>2
        <5>2. Append(c, e)[i] = c[i] /\ Append(u, e)[a + i] = u[a + i]
          BY <4>2, <5>1, AppendProperties
        <5>3. d[i] = Append(u, e)[a + i] /\ c[i] = u[a + i]
          BY <2>1, <3>2, <3>3, <4>2
        <5> QED  BY <5>2, <5>3
      <4> QED  BY <2>1, <4>1, <4>2
    <3>5. Append(c, e) = d
      BY <3>1, <3>2, <3>4, SeqEqual
    <3> QED  BY <2>1, <3>1, <3>5 DEF Windowed, d
  <2>4. Windowed(SubSeq(c, Larger(1, Len(c) - Window + 1), Len(c)), u, 0)
    <3>1. CASE Len(c) <= Window
      <4>1. SubSeq(c, Larger(1, Len(c) - Window + 1), Len(c)) = c
        <5>1. Larger(1, Len(c) - Window + 1) = 1
          BY <2>1, <3>1 DEF Larger
        <5> QED  BY <5>1, SubSeqFull
      <4>2. Windowed(c, u, 0)
        BY <2>1, <3>1 DEF Windowed
      <4> QED  BY <4>1, <4>2
    <3>2. CASE Len(c) > Window
      <4> DEFINE d == SubSeq(c, Len(c) - Window + 1, Len(c))
      <4>1. Larger(1, Len(c) - Window + 1) = Len(c) - Window + 1
        BY <2>1, <3>2 DEF Larger
      <4>2. Len(d) = Window
        <5>1. \A i \in (Len(c) - Window + 1) .. Len(c) : c[i] \in Entries
          BY <2>1, <3>2, ElementOfSeq
        <5>2. Len(d) = Len(c) - (Len(c) - Window + 1) + 1
          BY <2>1, <3>2, <5>1, SubSeqProperties
        <5> QED  BY <2>1, <5>2
      <4>3. d = SubSeq(u, Len(u) - Window + 1, Len(u))
        <5> DEFINE i == Len(u) - Len(c) + 1
                   m == Len(c) - Window + 1
        <5>1. /\ i \in 1 .. Len(u) + 1 /\ Len(u) \in i - 1 .. Len(u)
              /\ m \in 1 .. Len(c) /\ Len(c) = Len(u) - i + 1
          BY <2>1, <3>2
        <5>2. SubSeq(SubSeq(u, i, Len(u)), m, Len(c)) = SubSeq(u, i + m - 1, i + Len(c) - 1)
          BY <2>1, <3>2, <5>1, SubSeqOfSubSeq
        <5>3. i + m - 1 = Len(u) - Window + 1 /\ i + Len(c) - 1 = Len(u)
          BY <2>1
        <5> QED  BY <2>1, <5>2, <5>3
      <4>4. SubSeq(c, Larger(1, Len(c) - Window + 1), Len(c)) = d
        BY <4>1
      <4> HIDE DEF d
      <4>5. Windowed(d, u, 0)
        BY <2>1, <3>2, <4>2, <4>3 DEF Windowed
      <4> QED  BY <4>4, <4>5
    <3> QED  BY <2>1, <3>1, <3>2
  <2> QED  BY <2>2, <2>3, <2>4
<1>2. ValuesInv'
  BY TypeStep
<1> SUFFICES ASSUME NEW t \in Tasks
             PROVE  Windowed(cache'[t], pushed'[t], K(t)')
  <2>1. ASSUME NEW t \in Tasks
        PROVE  Cardinality(Trimming(t)') \in Nat /\ aborts' \in Nat
    <3>1. Trimming(t)' \in SUBSET Procs
      BY DEF Trimming
    <3>2. IsFiniteSet(Trimming(t)')
      BY <3>1, StoreAssumption, FS_Subset
    <3>3. aborts' \in Nat
      BY <1>2, StoreAssumption DEF ValuesInv
    <3> QED  BY <3>2, <3>3, FS_CardinalityType
  <2>2. ASSUME NEW t \in Tasks, Windowed(cache'[t], pushed'[t], K(t)')
        PROVE  LET n == Len(cache'[t])
                   m == Len(pushed'[t])
               IN  /\ n <= m /\ cache'[t] = SubSeq(pushed'[t], m - n + 1, m)
                   /\ n >= Window \/ n = m
                   /\ n <= Window + Cardinality(Trimming(t)') + aborts'
    <3>1. Len(cache'[t]) \in Nat /\ Window \in Nat
      BY <1>2, StoreAssumption, LenProperties DEF ValuesInv
    <3>2. /\ Len(cache'[t]) <= Len(pushed'[t])
          /\ cache'[t] = SubSeq(pushed'[t], Len(pushed'[t]) - Len(cache'[t]) + 1, Len(pushed'[t]))
          /\ Len(cache'[t]) >= Window \/ Len(cache'[t]) = Len(pushed'[t])
          /\ Len(cache'[t]) <= Window + K(t)'
      BY <2>2 DEF Windowed
    <3>3. Window + K(t)' = Window + Cardinality(Trimming(t)') + aborts'
      BY <2>1, <3>1
    <3> HIDE DEF K
    <3> QED  BY <3>2, <3>3
  <2> QED  BY <2>2 DEF CacheIsWindow
<1>3. /\ IsFiniteSet(Trimming(t)) /\ Cardinality(Trimming(t)) \in Nat
      /\ IsFiniteSet(Trimming(t)') /\ Cardinality(Trimming(t)') \in Nat
  <2>1. Trimming(t) \in SUBSET Procs /\ Trimming(t)' \in SUBSET Procs
    BY DEF Trimming
  <2> QED  BY <2>1, StoreAssumption, FS_Subset, FS_CardinalityType
<1>4. aborts \in Nat /\ K(t) \in Nat
  BY <1>3 DEF ValuesInv
<1>4a. /\ Windowed(cache[t], pushed[t], K(t))
       /\ cache[t] \in Seq(Entries) /\ pushed[t] \in Seq(Entries)
  BY <1>3, <1>4, StoreAssumption, LenProperties DEF CacheIsWindow, Windowed, ValuesInv
<1>5. ASSUME NEW p \in Procs, UNCHANGED deployed, NEW q \in Trimming(t),
             \A r \in Procs \ {p} : UNCHANGED step[r], q # p
      PROVE  q \in Trimming(t)'
  BY <1>5 DEF Trimming, Doing, Ended, Call, Calls, LastVisit, Task
(* a step that leaves the cache alone and trims nothing                    *)
<1>6. ASSUME Trimming(t) \subseteq Trimming(t)', UNCHANGED <<cache, pushed, aborts>>
      PROVE  Windowed(cache'[t], pushed'[t], K(t)')
  <2>1. Cardinality(Trimming(t)) <= Cardinality(Trimming(t)')
    BY <1>3, <1>6, FS_Subset
  <2> HIDE DEF K
  <2>2. K(t)' \in Nat /\ K(t) <= K(t)'
    BY <1>3, <1>4, <1>6, <2>1 DEF K
  <2> QED  BY <1>1, <1>4a, <1>4, <1>6, <2>2
<1>7. CASE UNCHANGED <<deployed, step, cache, pushed, aborts>>
  <2>1. Trimming(t)' = Trimming(t)
    BY <1>7 DEF Trimming, Doing, Ended, Call, Calls, LastVisit, Task
  <2> QED  BY <1>6, <1>7, <2>1
<1>8. ASSUME NEW p \in Procs,
             \/ UpdateRegister(p) \/ AppendIteration(p) \/ PublishForSync(p)
             \/ MergeRemote(p) \/ ReadLog(p) \/ ReadCache(p)
      PROVE  Windowed(cache'[t], pushed'[t], K(t)')
  <2>1. /\ UNCHANGED <<deployed, cache, pushed, aborts>> /\ p \notin Trimming(t)
        /\ \A r \in Procs \ {p} : UNCHANGED step[r]
    <3>1. CASE ReadLog(p)
      BY <3>1 DEF ReadLog, Skip, StepInv, Trimming, Doing
    <3>2. CASE ~ReadLog(p)
      <4>1. /\ UNCHANGED <<deployed, cache, pushed, aborts>> /\ p \notin Trimming(t)
            /\ Advance(p) /\ ~Ended(p)
        BY <1>8, <3>2 DEF UpdateRegister, AppendIteration, PublishForSync, MergeRemote,
                          ReadCache, Save, Doing, Trimming
      <4> QED  BY <4>1, AtACall DEF Moved
    <3> QED  BY <3>1, <3>2
  <2>2. Trimming(t) \subseteq Trimming(t)'
    BY <1>5, <2>1
  <2> QED  BY <1>6, <2>1, <2>2
<1>9. ASSUME NEW p \in Procs, Push(p) PROVE Windowed(cache'[t], pushed'[t], K(t)')
  <2>1. /\ UNCHANGED <<deployed, aborts>> /\ p \notin Trimming(t) /\ Moved(p)
        /\ Call(p).op = "push" /\ Task(p) \in Tasks /\ Entry(p) \in Entries
        /\ ~Ended(p)
    BY <1>9, AtACall DEF Push, Doing, Trimming
  <2>2. Trimming(t) \subseteq Trimming(t)'
    BY <1>5, <2>1 DEF Moved
  <2>3. CASE Task(p) = t
    <3>1. /\ cache'[t] = Append(cache[t], Entry(p))
          /\ pushed'[t] = Append(pushed[t], Entry(p))
      BY <1>9, <2>3 DEF Push, ValuesInv
    <3>2. Doing(p, {"trim"})'
      <4>1. /\ InOrder(Calls(p), step[p].visit) /\ step[p].call \in 1 .. Len(Calls(p))
            /\ step[p] \in [visit: Nat, call: Nat]
        BY AtACall
      <4>2. step[p].call + 1 \in 1 .. Len(Calls(p)) /\ Calls(p)[step[p].call + 1].op = "trim"
        BY <2>1, <4>1 DEF InOrder, Call
      <4>3. step'[p] = [visit |-> step[p].visit, call |-> step[p].call + 1]
        BY <2>1, <4>1, <4>2 DEF Moved
      <4> QED  BY <2>1, <4>2, <4>3 DEF Doing, Call, Calls, Ended, LastVisit
    <3>3. Trimming(t) \cup {p} \subseteq Trimming(t)'
      BY <2>1, <2>2, <2>3, <3>2 DEF Trimming, Task
    <3>4. Cardinality(Trimming(t)) + 1 <= Cardinality(Trimming(t)')
      <4>1. Cardinality(Trimming(t) \cup {p}) = Cardinality(Trimming(t)) + 1
        BY <1>3, <2>1, FS_AddElement
      <4> QED  BY <1>3, <3>3, <4>1, FS_Subset
    <3> HIDE DEF K
    <3>5. K(t)' \in Nat /\ K(t) + 1 <= K(t)' /\ K(t) + 1 \in Nat
      BY <1>3, <1>4, <2>1, <3>4 DEF K
    <3>6. Windowed(cache'[t], pushed'[t], K(t) + 1)
      BY <1>1, <1>4a, <1>4, <2>1, <3>1
    <3>7. cache'[t] \in Seq(Entries) /\ pushed'[t] \in Seq(Entries)
      BY <1>4a, <2>1, <3>1
    <3> QED  BY <1>1, <3>5, <3>6, <3>7
  <2>4. CASE Task(p) # t
    <3>1. cache'[t] = cache[t] /\ pushed'[t] = pushed[t]
      BY <1>9, <2>4 DEF Push, ValuesInv
    <3>2. Cardinality(Trimming(t)) <= Cardinality(Trimming(t)')
      BY <1>3, <2>2, FS_Subset
    <3> HIDE DEF K
    <3>3. K(t)' \in Nat /\ K(t) <= K(t)'
      BY <1>3, <1>4, <2>1, <3>2 DEF K
    <3> QED  BY <1>1, <1>4a, <1>4, <3>1, <3>3
  <2> QED  BY <2>3, <2>4
<1>10. ASSUME NEW p \in Procs, Trim(p) PROVE Windowed(cache'[t], pushed'[t], K(t)')
  <2>1. /\ UNCHANGED <<deployed, aborts, pushed>> /\ Moved(p) /\ Task(p) \in Tasks
    BY <1>10, AtACall DEF Trim, Doing
  <2>2. CASE Task(p) = t
    <3>1. cache'[t] = SubSeq(cache[t], Larger(1, Len(cache[t]) - Window + 1), Len(cache[t]))
      BY <1>10, <2>2 DEF Trim, ValuesInv
    <3>2. Windowed(cache'[t], pushed[t], 0)
      BY <1>1, <1>4a, <1>4, <3>1
    <3>3. K(t)' \in Nat
      BY <1>3, <1>4, <2>1
    <3>4. cache'[t] \in Seq(Entries)
      BY <1>4a, <3>1, StoreAssumption DEF Larger
    <3> HIDE DEF K
    <3> QED  BY <1>1, <1>4a, <2>1, <3>2, <3>3, <3>4
  <2>3. CASE Task(p) # t
    <3>1. cache'[t] = cache[t] /\ p \notin Trimming(t)
      BY <1>10, <2>3 DEF Trim, ValuesInv, Trimming
    <3>2. Trimming(t) \subseteq Trimming(t)'
      BY <1>5, <2>1, <3>1 DEF Moved
    <3>3. Cardinality(Trimming(t)) <= Cardinality(Trimming(t)')
      BY <1>3, <3>2, FS_Subset
    <3> HIDE DEF K
    <3>4. K(t)' \in Nat /\ K(t) <= K(t)'
      BY <1>3, <1>4, <2>1, <3>3 DEF K
    <3> QED  BY <1>1, <1>4a, <1>4, <2>1, <3>1, <3>4
  <2> QED  BY <2>2, <2>3
<1>11. ASSUME NEW p \in Procs, Abort(p) PROVE Windowed(cache'[t], pushed'[t], K(t)')
  <2>1. /\ UNCHANGED <<deployed, cache, pushed>> /\ aborts' = aborts + 1
        /\ \A r \in Procs \ {p} : UNCHANGED step[r]
    BY <1>11 DEF Abort, StepInv
  <2>2. Trimming(t) \ {p} \subseteq Trimming(t)'
    BY <1>5, <2>1
  <2>3. Cardinality(Trimming(t)) <= Cardinality(Trimming(t)') + 1
    <3>1. Cardinality(Trimming(t)) <= Cardinality(Trimming(t) \ {p}) + 1
      <4>1. Cardinality(Trimming(t) \ {p}) \in
                {Cardinality(Trimming(t)), Cardinality(Trimming(t)) - 1}
        BY <1>3, FS_RemoveElement
      <4> QED  BY <1>3, <4>1
    <3>2. /\ Cardinality(Trimming(t) \ {p}) <= Cardinality(Trimming(t)')
          /\ Cardinality(Trimming(t) \ {p}) \in Nat
      BY <1>3, <2>2, FS_Subset, FS_CardinalityType
    <3> QED  BY <1>3, <3>1, <3>2
  <2> HIDE DEF K
  <2>4. K(t)' \in Nat /\ K(t) <= K(t)'
    BY <1>3, <1>4, <2>1, <2>3 DEF K
  <2> QED  BY <1>1, <1>4a, <1>4, <2>1, <2>4
<1>12. ASSUME NEW p \in Procs, Load(p) \/ Subscribe(p) \/ IgnoreMessage(p)
       PROVE  Windowed(cache'[t], pushed'[t], K(t)')
  BY <1>7, <1>12 DEF Load, Subscribe, IgnoreMessage
<1> HIDE DEF K
<1> QED  BY <1>7, <1>8, <1>9, <1>10, <1>11, <1>12 DEF Next, Continue

(* What a coder reads from log and cache, in this order, tells its history.*)
LEMMA PromptStep ==
  ASSUME TypeInv, WrittenInv, SoleInv, CacheIsWindow, PromptTellsHistory, [Next]_vars
  PROVE  PromptTellsHistory'
<1> USE DEF TypeInv
<1> DEFINE Pushed(q, u) == \E i \in 1..Len(u) : u[i][1] = q
           Told(q) == /\ Sole(q) => shown[q] = appended[Task(q)]
                      /\ Pushed(q, pushed[Task(q)]) => shown[q] # {}
<1>1. UNCHANGED deployed
  BY DEF Next, Continue, Load, UpdateRegister, AppendIteration, PublishForSync, Subscribe,
         IgnoreMessage, MergeRemote, ReadLog, ReadCache, Push, Trim, Abort
<1>2. ValuesInv'
  BY TypeStep
<1> SUFFICES ASSUME NEW q \in Procs, Prompting(q)' PROVE Told(q)'
  <2>1. \A q \in Procs : Task(q)' \in Tasks
    BY <1>1, AtACall DEF Task
  <2>2. \A q \in Procs : DOMAIN pushed'[Task(q)'] = 1..Len(pushed'[Task(q)'])
    BY <1>2, <2>1, LenProperties DEF ValuesInv
  <2> QED  BY <2>2 DEF PromptTellsHistory
<1>3. /\ Task(q)' = Task(q) /\ Task(q) \in Tasks /\ (Sole(q)' => Sole(q))
      /\ InOrder(Calls(q), step[q].visit) /\ step[q].call \in 1 .. Len(Calls(q))
      /\ step[q] \in [visit: Nat, call: Nat] /\ pushed[Task(q)] \in Seq(Entries)
      /\ cache[Task(q)] \in Seq(Entries)
  BY <1>1, AtACall DEF Task, Sole, ValuesInv
<1>4. Prompting(q) => Told(q)
  BY <1>3, LenProperties DEF PromptTellsHistory
<1>5. loaded'[q] = None /\ ~Ended(q)'
  BY DEF Prompting, Doing
<1>6. Moved(q) => Call(q).op = "readcache"
  <2> SUFFICES ASSUME Moved(q), Call(q).op # "readcache" PROVE FALSE
    OBVIOUS
  <2>1. CASE /\ step[q].call + 1 \in 1 .. Len(Calls(q))
             /\ step'[q] = [visit |-> step[q].visit, call |-> step[q].call + 1]
    <3>1. ~(/\ Calls(q)[step[q].call + 1].op = "set"
            /\ Calls(q)[step[q].call + 1].field = "strategy_source")
      BY <1>3, <2>1 DEF InOrder, Call
    <3> QED  BY <1>1, <2>1, <3>1 DEF Prompting, Doing, Call, Calls
  <2>2. CASE step'[q] = [visit |-> step[q].visit + 1, call |-> 1]
    <3> DEFINE sync == q \in deployed.sync
               v == step[q].visit + 1
    <3>1. v \in Nat /\ sync \in BOOLEAN
      BY <1>3
    <3>2. Calls(q)' = NodeCalls(v, sync) /\ step'[q].call = 1
      BY <1>1, <2>2 DEF Calls
    <3> HIDE DEF sync, v
    <3>3. InOrder(NodeCalls(v, sync), v)
      BY <3>1, CallsOfVisit, Zenon
    <3> QED  BY <3>2, <3>3 DEF InOrder, Prompting, Doing, Call
  <2> QED  BY <2>1, <2>2 DEF Moved
(* what was said stays true as long as nobody writes on the task of q      *)
<1>7. ASSUME UNCHANGED <<step[q], loaded[q], shown[q]>>,
             Sole(q) => UNCHANGED appended[Task(q)],
             Pushed(q, pushed'[Task(q)]) => Pushed(q, pushed[Task(q)])
      PROVE  Told(q)'
  <2>1. Prompting(q)
    BY <1>1, <1>7 DEF Prompting, Doing, Call, Calls, Ended, LastVisit
  <2> HIDE DEF Pushed
  <2> QED  BY <1>3, <1>4, <1>7, <2>1
<1>8. ASSUME NEW p \in Procs, p # q, Moved(p) \/ Abort(p) \/ ReadLog(p)
      PROVE  UNCHANGED step[q]
  BY <1>8 DEF Moved, Abort, ReadLog, Skip, StepInv
<1>9. CASE UNCHANGED vars
  <2> HIDE DEF Pushed
  <2> QED  BY <1>3, <1>7, <1>9
<1>10. ASSUME NEW p \in Procs, Load(p) \/ Subscribe(p) \/ IgnoreMessage(p) PROVE Told(q)'
  <2>1. UNCHANGED <<step, appended, pushed>>
    BY <1>10 DEF Load, Subscribe, IgnoreMessage
  <2>2. UNCHANGED <<loaded[q], shown[q]>>
    <3>1. CASE Load(p)
      <4>1. store[Task(p)] # None
        BY AtACall, StoreAssumption DEF ValuesInv
      <4>2. p # q
        BY <1>3, <1>5, <3>1, <4>1 DEF Load, Key, ValuesInv
      <4> QED  BY <3>1, <4>2 DEF Load, ValuesInv
    <3>2. CASE ~Load(p)
      BY <1>10, <3>2 DEF Subscribe, IgnoreMessage
    <3> QED  BY <3>1, <3>2
  <2> HIDE DEF Pushed
  <2> QED  BY <1>3, <1>7, <2>1, <2>2
<1>11. ASSUME NEW p \in Procs,
             \/ UpdateRegister(p) \/ AppendIteration(p) \/ PublishForSync(p)
             \/ MergeRemote(p) \/ Trim(p)
       PROVE  Told(q)'
  <2>1. /\ Moved(p) /\ UNCHANGED <<pushed, shown>> /\ Call(p).op # "readcache"
        /\ loaded' \in {loaded, [loaded EXCEPT ![p] = None]}
    BY <1>1, <1>11, AtACall DEF UpdateRegister, AppendIteration, PublishForSync, MergeRemote,
                                Trim, Save, Doing
  <2>2. p # q
    BY <1>6, <2>1
  <2>3. Sole(q) => UNCHANGED appended[Task(q)]
    <3>1. CASE AppendIteration(p)
      BY <1>3, <2>2, <3>1 DEF AppendIteration, Sole, ValuesInv
    <3>2. CASE ~AppendIteration(p)
      BY <1>3, <1>11, <3>2 DEF UpdateRegister, PublishForSync, MergeRemote, Trim
    <3> QED  BY <3>1, <3>2
  <2>4. UNCHANGED <<step[q], loaded[q]>>
    BY <1>8, <2>1, <2>2 DEF ValuesInv
  <2> HIDE DEF Pushed
  <2> QED  BY <1>3, <1>7, <2>1, <2>3, <2>4
<1>12. ASSUME NEW p \in Procs, Abort(p) PROVE Told(q)'
  <2>1. p # q
    BY <1>1, <1>5, <1>12, AtACall DEF Abort, Ended, LastVisit, StepInv
  <2>2. UNCHANGED <<appended, pushed, shown>> /\ UNCHANGED <<step[q], loaded[q]>>
    BY <1>8, <1>12, <2>1 DEF Abort, ValuesInv
  <2> HIDE DEF Pushed
  <2> QED  BY <1>3, <1>7, <2>2
<1>13. ASSUME NEW p \in Procs, Push(p) PROVE Told(q)'
  <2>1. /\ Moved(p) /\ UNCHANGED <<appended, loaded, shown>> /\ Call(p).op = "push"
        /\ Task(p) \in Tasks /\ Entry(p) \in Entries
        /\ pushed' = [pushed EXCEPT ![Task(p)] = Append(@, Entry(p))]
    BY <1>1, <1>13, AtACall DEF Push, Doing
  <2>2. p # q /\ Entry(p)[1] = p
    BY <1>6, <2>1 DEF Entry
  <2>3. ASSUME NEW i \in 1..Len(pushed'[Task(q)]), pushed'[Task(q)][i][1] = q
        PROVE  i \in 1..Len(pushed[Task(q)]) /\ pushed[Task(q)][i][1] = q
    <3>1. CASE Task(p) = Task(q)
      <4>1. pushed'[Task(q)] = Append(pushed[Task(q)], Entry(p))
        BY <1>3, <2>1, <3>1 DEF ValuesInv
      <4>2. i # Len(pushed[Task(q)]) + 1
        BY <1>3, <2>1, <2>2, <2>3, <4>1
      <4> QED  BY <1>3, <2>1, <2>3, <4>1, <4>2
    <3>2. CASE Task(p) # Task(q)
      BY <1>3, <2>1, <2>3, <3>2 DEF ValuesInv
    <3> QED  BY <3>1, <3>2
  <2>4. Pushed(q, pushed'[Task(q)]) => Pushed(q, pushed[Task(q)])
    BY <2>3
  <2>5. UNCHANGED step[q]
    BY <1>8, <2>1, <2>2
  <2> HIDE DEF Pushed
  <2> QED  BY <1>3, <1>7, <2>1, <2>4, <2>5
<1>14. ASSUME NEW p \in Procs, ReadLog(p) PROVE Told(q)'
  <2>1. UNCHANGED <<loaded, appended, pushed>>
    BY <1>14 DEF ReadLog
  <2>2. CASE p # q
    <3>1. UNCHANGED <<step[q], shown[q]>>
      BY <1>8, <1>14, <2>2 DEF ReadLog, ValuesInv
    <3> HIDE DEF Pushed
    <3> QED  BY <1>3, <1>7, <2>1, <3>1
  <2>3. CASE p = q
    <3> DEFINE entries == DOMAIN store[Task(q)].log.elements
    <3>1. /\ shown' = [shown EXCEPT ![q] = entries] /\ Call(q).op = "readlog"
          /\ Skip(q, IF entries = {} THEN 1 ELSE 2)
      BY <1>14, <2>3 DEF ReadLog, Key, Doing
    <3>2. entries # {}
      <4> SUFFICES ASSUME Skip(q, 1) PROVE FALSE
        BY <3>1
      <4>1. step'[q] = [visit |-> step[q].visit, call |-> step[q].call + 1]
        BY <1>3 DEF Skip, StepInv
      <4>2. Calls(q)[step[q].call + 1].op = "readcache"
        BY <1>3, <3>1 DEF InOrder, Call
      <4> QED  BY <1>1, <4>1, <4>2 DEF Prompting, Doing, Call, Calls
    <3>3. shown'[q] = entries /\ (Sole(q) => entries = appended[Task(q)])
      BY <3>1 DEF ValuesInv, SoleInv, Exact
    <3> HIDE DEF entries, Pushed
    <3> QED  BY <1>3, <2>1, <3>2, <3>3
  <2> QED  BY <2>2, <2>3
<1>15. ASSUME NEW p \in Procs, ReadCache(p) PROVE Told(q)'
  <2>1. /\ UNCHANGED <<loaded, appended, pushed>> /\ Moved(p) /\ Doing(p, {"readcache"})
        /\ shown' = [shown EXCEPT ![p] = {cache[Task(p)][i] : i \in DOMAIN cache[Task(p)]}]
    BY <1>1, <1>15, AtACall DEF ReadCache, Doing
  <2>2. CASE p # q
    <3>1. UNCHANGED <<step[q], shown[q]>>
      BY <1>8, <2>1, <2>2 DEF ValuesInv
    <3> HIDE DEF Pushed
    <3> QED  BY <1>3, <1>7, <2>1, <3>1
  <2>3. CASE p = q
    <3> DEFINE c == cache[Task(q)]
               u == pushed[Task(q)]
    <3>1. /\ Len(c) \in Nat /\ Len(u) \in Nat /\ Len(c) <= Len(u)
          /\ Len(u) # 0 => Len(c) # 0
          /\ DOMAIN c = 1..Len(c)
      <4>1. Len(c) \in Nat /\ Len(u) \in Nat /\ DOMAIN c = 1..Len(c)
        BY <1>3, LenProperties
      <4>2. Len(c) <= Len(u) /\ (Len(c) >= Window \/ Len(c) = Len(u))
        BY <1>3 DEF CacheIsWindow
      <4> HIDE DEF c, u
      <4> QED  BY <4>1, <4>2, StoreAssumption
    <3>2. shown'[q] = {c[i] : i \in 1..Len(c)}
      <4>1. shown'[q] = {c[i] : i \in DOMAIN c}
        BY <2>1, <2>3 DEF ValuesInv
      <4> HIDE DEF c
      <4> QED  BY <3>1, <4>1
    <3>3. ASSUME Sole(q) PROVE appended[Task(q)] = {} /\ Len(c) = 0
      <4>1. appended[Task(q)] = {}
        BY <2>1, <2>3, <3>3 DEF SoleInv, Exact
      <4>2. ASSUME Len(c) # 0 PROVE FALSE
        <5>1. u[1] \in Entries /\ 1 \in 1..Len(u)
          BY <1>3, <3>1, <4>2, ElementOfSeq
        <5>2. PICK r \in Procs, k \in 1 .. 2 * Iterations : u[1] = <<r, k>>
          BY <5>1 DEF Entries
        <5>3. k \in Nat
          BY StoreAssumption
        <5>4. Task(q) = Task(r) /\ Past(r, "push", k)
          BY <1>3, <5>1, <5>2, <5>3 DEF WrittenInv, Written
        <5>5. r = q
          BY <3>3, <5>4 DEF Sole
        <5>6. Ahead(q, "push")
          BY <1>3, <2>1, <2>3 DEF Doing, Call, InOrder, Ahead
        <5>7. Past(q, "append", k)
          BY <5>4, <5>5, <5>6 DEF Past
        <5>8. <<q, k>> \in appended[Task(q)]
          BY <2>1, <2>3, <5>3, <5>7 DEF WrittenInv, Written, Doing
        <5> QED  BY <4>1, <5>8
      <4> QED  BY <4>1, <4>2
    <3>4. Pushed(q, u) => Len(u) # 0
      BY <3>1
    <3>5. Len(c) = 0 => shown'[q] = {}
      BY <3>2
    <3>6. Len(c) # 0 => shown'[q] # {}
      <4> SUFFICES ASSUME Len(c) # 0 PROVE c[1] \in shown'[q]
        OBVIOUS
      <4>1. 1 \in 1..Len(c)
        BY <3>1
      <4> QED  BY <3>2, <4>1
    <3> HIDE DEF c
    <3>7. Sole(q) => shown'[q] = appended[Task(q)]
      BY <3>3, <3>5
    <3>8. Pushed(q, u) => shown'[q] # {}
      BY <3>1, <3>4, <3>6
    <3> HIDE DEF Pushed
    <3> QED  BY <1>3, <2>1, <3>7, <3>8
  <2> QED  BY <2>2, <2>3
<1> HIDE DEF Told
<1> QED  BY <1>9, <1>10, <1>11, <1>12, <1>13, <1>14, <1>15 DEF Next, Continue

StoreInv == /\ TypeInv /\ WrittenInv /\ SoundInv /\ SoleInv
            /\ CacheIsWindow /\ PromptTellsHistory

(* What a run finds in Redis: the state of a task only it works on is      *)
(* exact; no iteration count exceeds the entries in the log, and no log    *)
(* has entries of other tasks, however many runs share them; the cache is  *)
(* a window on what was written; and a coder is shown what has been tried. *)
THEOREM StoreSafe ==
  Spec => [](/\ TypeOK /\ SoleWriterExact /\ LogCoversCounter /\ LogsKeptApart
             /\ CacheIsWindow /\ PromptTellsHistory)
<1>1. Init => StoreInv
  <2> SUFFICES ASSUME Init PROVE StoreInv
    OBVIOUS
  <2>1. StepInv
    <3>1. ASSUME NEW p \in Procs
          PROVE  /\ LastVisit(p) \in Nat
                 /\ step[p] = [visit |-> 0, call |-> 1]
                 /\ 1 \in 1 .. Len(Calls(p))
      <4> DEFINE sync == p \in deployed.sync
      <4>1. sync \in BOOLEAN /\ 0 \in Nat
        OBVIOUS
      <4>2. LastVisit(p) \in Nat
        BY StoreAssumption DEF Init, LastVisit
      <4>3. step[p] = [visit |-> 0, call |-> 1]
        BY DEF Init
      <4>4. Calls(p) = NodeCalls(0, sync)
        BY <4>3 DEF Calls
      <4> HIDE DEF sync
      <4>5. InOrder(NodeCalls(0, sync), 0)
        BY <4>1, CallsOfVisit, Zenon
      <4> QED  BY <4>2, <4>3, <4>4, <4>5 DEF InOrder
    <3>2. step \in [Procs -> [visit: Nat, call: Nat]] /\ deployed \in Deployments
      BY DEF Init
    <3> QED  BY <3>1, <3>2 DEF StepInv
  <2>2. ValuesInv
    <3>1. EmptyState \in States
      <4>1. Unset \in Register
        BY MergeAssumption DEF Unset, Register
      <4>2. EmptySet \in Logs
        <5>1. [u \in {} |-> {}] \in [{} -> Payloads]
          OBVIOUS
        <5> QED  BY <5>1 DEF EmptySet, Logs
      <4>3. EmptyCounter \in Counters
        <5>1. EmptyCounter \in [{} -> Nat]
          BY DEF EmptyCounter
        <5> QED  BY <5>1 DEF Counters
      <4> QED  BY <4>1, <4>2, <4>3 DEF EmptyState, States
    <3>2. Unset \in Register
      BY MergeAssumption DEF Unset, Register
    <3>3. <<>> \in Seq(Entries) /\ IsFiniteSet({})
      BY EmptySeq, FS_EmptySet
    <3> QED  BY <3>1, <3>2, <3>3, StoreAssumption DEF Init, ValuesInv
  <2>3. BusyInv
    BY DEF Init, BusyInv, Busy
  <2>4. WrittenInv
    BY <2>1, EmptySeq DEF Init, WrittenInv, Written, Past
  <2>5. ASSUME NEW t \in Tasks, NEW n
        PROVE  /\ DOMAIN store[t].log.elements = {} /\ appended[t] = {}
               /\ Count(store[t].counter, n) = 0
               /\ OfNode(store[t], deployed.node, n) = {} /\ Cardinality({}) = 0
    <3>1. store[t] = EmptyState /\ appended[t] = {}
      BY DEF Init
    <3> QED  BY <3>1, FS_EmptySet DEF EmptyState, EmptySet, EmptyCounter, Count, OfNode
  <2>6. SoundInv
    <3>1. \A t \in Tasks : Sound(store[t], appended[t], deployed.node)
      BY <2>5 DEF Sound
    <3> QED  BY <3>1 DEF Init, SoundInv
  <2>7. SoleInv
    <3>1. ASSUME NEW p \in Procs PROVE Exact(p)
      <4>1. Task(p) \in Tasks
        BY <2>1, AtACall
      <4>2. store[Task(p)].registers = latest[Task(p)]
        BY <4>1 DEF Init, EmptyState
      <4>3. loaded[p] = None
        BY DEF Init
      <4> QED  BY <2>5, <4>1, <4>2, <4>3 DEF Exact
    <3> QED  BY <3>1 DEF SoleInv
  <2>8. CacheIsWindow
    <3>1. ASSUME NEW t \in Tasks PROVE Cardinality(Trimming(t)) \in Nat
      BY StoreAssumption, FS_Subset, FS_CardinalityType DEF Trimming
    <3>2. ASSUME NEW t \in Tasks
          PROVE  /\ cache[t] = <<>> /\ pushed[t] = <<>> /\ Len(<<>>) = 0
                 /\ <<>> = SubSeq(<<>>, 0 - 0 + 1, 0)
      BY SubSeqEmpty, EmptySeq DEF Init
    <3>3. aborts = 0 /\ Window \in Nat
      BY StoreAssumption DEF Init
    <3>4. ASSUME NEW t \in Tasks
          PROVE  LET n == Len(cache[t])
                     m == Len(pushed[t])
                 IN  /\ n <= m /\ cache[t] = SubSeq(pushed[t], m - n + 1, m)
                     /\ n >= Window \/ n = m
                     /\ n <= Window + Cardinality(Trimming(t)) + aborts
      <4>1. Len(cache[t]) = 0 /\ Len(pushed[t]) = 0
        BY <3>2
      <4>2. cache[t] = SubSeq(pushed[t], 0 - 0 + 1, 0)
        BY <3>2
      <4> QED  BY <3>1, <3>3, <4>1, <4>2
    <3> QED  BY <3>4 DEF CacheIsWindow
  <2>9. PromptTellsHistory
    <3>1. ASSUME NEW p \in Procs
          PROVE  shown[p] = {} /\ appended[Task(p)] = {} /\ DOMAIN pushed[Task(p)] = {}
      <4>1. Task(p) \in Tasks
        BY <2>1, AtACall
      <4> QED  BY <4>1 DEF Init
    <3> QED  BY <3>1 DEF PromptTellsHistory
  <2> QED  BY <2>1, <2>2, <2>3, <2>4, <2>6, <2>7, <2>8, <2>9 DEF StoreInv, TypeInv
<1>2. StoreInv /\ [Next]_vars => StoreInv'
  BY TypeStep, WrittenStep, SoundStep, SoleStep, WindowStep, PromptStep DEF StoreInv
<1>3. ASSUME StoreInv
      PROVE  /\ TypeOK /\ SoleWriterExact /\ LogCoversCounter /\ LogsKeptApart
             /\ CacheIsWindow /\ PromptTellsHistory
  <2>1. TypeOK
    <3>1. \A p \in Procs : Busy(p)
      BY <1>3 DEF StoreInv, TypeInv, BusyInv
    <3>2. \A p \in Procs : inbox[p] # None => Doing(p, {"sync"})
      BY <3>1 DEF Busy
    <3>3. \A p \in Procs : loaded[p] # None => ~Ended(p)
      BY <3>1 DEF Busy, Doing
    <3> QED  BY <1>3, <3>2, <3>3 DEF StoreInv, TypeInv, StepInv, ValuesInv, TypeOK
  <2>2. \A t \in Tasks, n \in Nodes : By(t, n) = OfNode(store[t], deployed.node, n)
    BY DEF By, OfNode
  <2>3. SoleWriterExact
    <3>1. \A p \in Procs : Task(p) \in Tasks
      BY <1>3, AtACall DEF StoreInv, TypeInv
    <3> QED  BY <1>3, <2>2, <3>1 DEF StoreInv, SoleInv, Exact, SoleWriterExact
  <2>4. LogCoversCounter /\ LogsKeptApart
    BY <1>3, <2>2 DEF StoreInv, SoundInv, Sound, LogCoversCounter, LogsKeptApart
  <2> QED  BY <1>3, <2>1, <2>3, <2>4 DEF StoreInv
<1> QED  BY <1>1, <1>2, <1>3, PTL DEF Spec
================================================================================
