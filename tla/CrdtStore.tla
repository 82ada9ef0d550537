------------------------------- MODULE CrdtStore -------------------------------
(***************************************************************************)
(* The memory of a run in Redis, as its three nodes use it: SwarmStateCRDT *)
(* (broker/crdt_state.py), the task states that all orchestrators keep in  *)
(* one Redis, each read with GET, changed, and written back with SET, and  *)
(* the pub/sub channel on which they are published when ENABLE_CRDT_SYNC   *)
(* is set; and AgentMemoryCache (broker/redis_cache.py), a window on the   *)
(* entries of a task, which the coder reads when the log shows nothing.    *)
(*                                                                         *)
(* A run visits the researcher, then coder and evaluator once per          *)
(* iteration, and makes the calls of each, one after the other.            *)
(* A command to Redis and the receipt of a message are atomic; other       *)
(* processes may do anything between two of them.                          *)
(*                                                                         *)
(* Redis is external: a message goes to those subscribed when it is        *)
(* published and is then forgotten.  That states expire after a day is not *)
(* modelled.                                                               *)
(***************************************************************************)
EXTENDS CrdtMerge, Sequences, FiniteSets

CONSTANTS Procs,       \* orchestrator processes, each at one run
          Tasks,       \* task ids
          Deployments, \* who works on which task, under which settings
          Iterations,  \* bound: rounds of coder and evaluator of a run
          Window,      \* window_size
          MaxAborts    \* bound: runs that raise or are killed

(* A visit of a run writes one entry; an entry's uid in the log names both.*)
Entries  == Procs \X (1 .. 2 * Iterations)
Logs     == [elements: UNION {[E -> Payloads] : E \in SUBSET Entries}, tombstones: {{}}]
States   == [registers: [Fields -> Register], log: Logs, counter: Counters]
Messages == [task: Tasks, node: Nodes, state: States]

(* task[p]: the task of p's run; node[p]: the node id of each visit, which *)
(* is CRDT_NODE_ID, the same for all in the compose files, or drawn anew by*)
(* every visit when that is empty, the default of Settings; sync: those    *)
(* with ENABLE_CRDT_SYNC; rounds[p]: the iterations p's run comes to       *)
ASSUME StoreAssumption ==
    /\ Deployments \subseteq [task: [Procs -> Tasks],
                              node: [Procs -> [0 .. 2 * Iterations -> Nodes \ {0}]],
                              sync: SUBSET Procs,
                              rounds: [Procs -> 0..Iterations]]
    /\ Iterations \in Nat /\ MaxAborts \in Nat /\ Window \in Nat \ {0}
    /\ {"hypothesis", "strategy_source", "reflection_notes"} \subseteq Fields
    /\ IsFiniteSet(Procs)
    /\ None \notin States \cup Seq(Messages)

VARIABLES deployed,  \* the deployment
          store,     \* the task states in Redis
          step,      \* the visit of each run, and how far it is in its calls
          loaded,    \* the state a process has read and is working on, or None
          inbox,     \* messages a subscriber has not read; None: not subscribed
          cache,     \* the lists of AgentMemoryCache, per task
          shown,     \* the history in a coder's prompt, until it is sent
          now,       \* the clock
          appended,  \* history: entries saved, per task
          pushed,    \* history: entries pushed to the cache, per task
          latest,    \* history: the last register saved, per task and field
          aborts     \* number of runs aborted

memory == <<cache, shown, pushed>>
vars   == <<deployed, store, step, loaded, inbox, now, appended, latest, aborts, memory>>

Task(p)   == deployed.task[p]
NodeId(p) == deployed.node[p][step[p].visit]

KeyWithoutTask(p) == CHOOSE t \in Tasks : TRUE
Key(p) == Task(p)
-----------------------------------------------------------------------------
(* The calls of a visit, in order                                          *)
Set(f)  == [op |-> "set", field |-> f]
Do(op)  == [op |-> op]

ResearcherCalls(sync) ==
    IF sync THEN <<Set("hypothesis"), Do("publish")>> ELSE <<Set("hypothesis")>>

CoderCalls(sync) ==
    IF sync THEN <<Do("sync"), Do("readlog"), Do("readcache"), Set("strategy_source"),
                   Do("append"), Do("publish"), Do("push"), Do("trim")>>
            ELSE <<Do("readlog"), Do("readcache"), Set("strategy_source"),
                   Do("append"), Do("push"), Do("trim")>>

EvaluatorCalls(sync) ==
    IF sync THEN <<Do("push"), Do("trim"), Set("reflection_notes"), Do("append"),
                   Do("publish")>>
            ELSE <<Do("push"), Do("trim"), Set("reflection_notes"), Do("append")>>

(* Visit 0 is the researcher's, then coder and evaluator take turns.       *)
NodeCalls(visit, sync) ==
    IF visit = 0 THEN ResearcherCalls(sync)
    ELSE IF visit % 2 = 1 THEN CoderCalls(sync) ELSE EvaluatorCalls(sync)

LastVisit(p) == 2 * deployed.rounds[p]
Calls(p) == NodeCalls(step[p].visit, p \in deployed.sync)

Ended(p) == step[p].visit > LastVisit(p)
Call(p) == Calls(p)[step[p].call]
Doing(p, ops) == ~Ended(p) /\ Call(p).op \in ops

(* The entry of a visit, the same for log and cache                        *)
Entry(p) == <<p, step[p].visit>>

Skip(p, n) == step' = [step EXCEPT ![p].call = @ + n]

Advance(p) ==
    IF step[p].call < Len(Calls(p))
    THEN Skip(p, 1)
    ELSE step' = [step EXCEPT ![p] = [visit |-> @.visit + 1, call |-> 1]]

Init ==
    /\ deployed \in Deployments
    /\ store = [t \in Tasks |-> EmptyState]
    /\ step = [p \in Procs |-> [visit |-> 0, call |-> 1]]
    /\ loaded = [p \in Procs |-> None]
    /\ inbox = [p \in Procs |-> None]
    /\ cache = [t \in Tasks |-> <<>>]
    /\ shown = [p \in Procs |-> {}]
    /\ pushed = [t \in Tasks |-> <<>>]
    /\ now = 0
    /\ appended = [t \in Tasks |-> {}]
    /\ latest = [t \in Tasks |-> [f \in Fields |-> Unset]]
    /\ aborts = 0
-----------------------------------------------------------------------------
(* load, the first half of every operation.  merge_remote loads only when  *)
(* the message at hand is of its task and from another node.               *)
AcceptsAnyTask(p, m) == m.node # NodeId(p)
Accepts(p, m) == m.task = Task(p) /\ m.node # NodeId(p)

Load(p) ==
    /\ loaded[p] = None
    /\ \/ Doing(p, {"set", "append", "publish"})
       \/ /\ Doing(p, {"sync"})
          /\ inbox[p] \notin {None, <<>>}
          /\ Accepts(p, Head(inbox[p]))
    /\ loaded' = [loaded EXCEPT ![p] = store[Key(p)]]
    /\ shown' = [shown EXCEPT ![p] = {}]
    /\ UNCHANGED <<deployed, store, step, inbox, now, appended, latest, aborts, cache, pushed>>

Save(p, state) ==
    /\ store' = [store EXCEPT ![Key(p)] = state]
    /\ loaded' = [loaded EXCEPT ![p] = None]
    /\ Advance(p)

(* update_register: the new value is stamped with the time, then saved     *)
UpdateRegister(p) ==
    /\ Doing(p, {"set"}) /\ loaded[p] # None
    /\ now' = now + 1
    /\ \E v \in Values :
           LET f == Call(p).field
               r == LWWSet(v, now + 1, NodeId(p))
           IN  /\ Save(p, [loaded[p] EXCEPT !.registers[f] = r])
               /\ latest' = [latest EXCEPT ![Task(p)][f] = r]
    /\ UNCHANGED <<deployed, inbox, appended, aborts, memory>>

AppendCountedOnly(p) ==
    /\ Doing(p, {"append"}) /\ loaded[p] # None
    /\ \E e \in Payloads :
           Save(p, [loaded[p] EXCEPT !.counter = GCounterIncrement(@, NodeId(p))])
    /\ UNCHANGED <<deployed, inbox, now, appended, latest, aborts, memory>>

(* append_iteration: the entry has a fresh uid; log and counter are saved  *)
(* together                                                                *)
AppendIteration(p) ==
    /\ Doing(p, {"append"}) /\ loaded[p] # None
    /\ \E e \in Payloads :
           Save(p, [loaded[p] EXCEPT !.log = ORSetAdd(@, Entry(p), e),
                                     !.counter = GCounterIncrement(@, NodeId(p))])
    /\ appended' = [appended EXCEPT ![Task(p)] = @ \cup {Entry(p)}]
    /\ UNCHANGED <<deployed, inbox, now, latest, aborts, memory>>

(* publish_for_sync: to everyone who is subscribed now                     *)
PublishForSync(p) ==
    /\ Doing(p, {"publish"}) /\ loaded[p] # None
    /\ LET m == [task |-> Task(p), node |-> NodeId(p), state |-> loaded[p]]
       IN  inbox' = [q \in Procs |-> IF inbox[q] = None THEN None ELSE Append(inbox[q], m)]
    /\ loaded' = [loaded EXCEPT ![p] = None]
    /\ Advance(p)
    /\ UNCHANGED <<deployed, store, now, appended, latest, aborts, memory>>

(* subscribe_sync: subscribe ...                                           *)
Subscribe(p) ==
    /\ Doing(p, {"sync"})
    /\ inbox[p] = None
    /\ inbox' = [inbox EXCEPT ![p] = <<>>]
    /\ UNCHANGED <<deployed, store, step, loaded, now, appended, latest, aborts, memory>>

(* ... ignore messages on other tasks and of the own node ...              *)
IgnoreMessage(p) ==
    /\ Doing(p, {"sync"})
    /\ inbox[p] \notin {None, <<>>}
    /\ ~Accepts(p, Head(inbox[p]))
    /\ inbox' = [inbox EXCEPT ![p] = Tail(@)]
    /\ UNCHANGED <<deployed, store, step, loaded, now, appended, latest, aborts, memory>>

MergeStayingSubscribed(p) ==
    /\ Doing(p, {"sync"}) /\ loaded[p] # None
    /\ Save(p, StateMerge(loaded[p], Head(inbox[p]).state))
    /\ UNCHANGED <<deployed, inbox, now, appended, latest, aborts, memory>>

(* ... save the merge of the first other one, and unsubscribe              *)
MergeRemote(p) ==
    /\ Doing(p, {"sync"}) /\ loaded[p] # None
    /\ Save(p, StateMerge(loaded[p], Head(inbox[p]).state))
    /\ inbox' = [inbox EXCEPT ![p] = None]
    /\ UNCHANGED <<deployed, now, appended, latest, aborts, memory>>

(* The run raises, or its process dies, wherever it is                     *)
Abort(p) ==
    /\ ~Ended(p)
    /\ aborts < MaxAborts
    /\ aborts' = aborts + 1
    /\ step' = [step EXCEPT ![p] = [visit |-> LastVisit(p) + 1, call |-> 1]]
    /\ loaded' = [loaded EXCEPT ![p] = None]
    /\ inbox' = [inbox EXCEPT ![p] = None]
    /\ UNCHANGED <<deployed, store, now, appended, latest, memory>>

(* format_iteration_log: the entries of the log, if there are any ...      *)
ReadLog(p) ==
    /\ Doing(p, {"readlog"})
    /\ LET entries == DOMAIN store[Key(p)].log.elements
       IN  /\ shown' = [shown EXCEPT ![p] = entries]
           /\ Skip(p, IF entries = {} THEN 1 ELSE 2)
    /\ UNCHANGED <<deployed, store, loaded, inbox, now, appended, latest, aborts, cache, pushed>>

ForgetCache(p) ==
    /\ Doing(p, {"readcache"})
    /\ Advance(p)
    /\ UNCHANGED <<deployed, store, loaded, inbox, now, appended, latest, aborts, memory>>

(* ... or else format_for_prompt: those of the cache                       *)
ReadCache(p) ==
    /\ Doing(p, {"readcache"})
    /\ shown' = [shown EXCEPT ![p] = {cache[Task(p)][i] : i \in DOMAIN cache[Task(p)]}]
    /\ Advance(p)
    /\ UNCHANGED <<deployed, store, loaded, inbox, now, appended, latest, aborts, cache, pushed>>

(* AgentMemoryCache.append_iteration: rpush ...                            *)
Push(p) ==
    /\ Doing(p, {"push"})
    /\ cache' = [cache EXCEPT ![Task(p)] = Append(@, Entry(p))]
    /\ pushed' = [pushed EXCEPT ![Task(p)] = Append(@, Entry(p))]
    /\ Advance(p)
    /\ UNCHANGED <<deployed, store, loaded, inbox, now, appended, latest, aborts, shown>>

TrimTheNewest(p) ==
    /\ Doing(p, {"trim"})
    /\ cache' = [cache EXCEPT ![Task(p)] = SubSeq(@, 1, IF Len(@) < Window THEN Len(@) ELSE Window)]
    /\ Advance(p)
    /\ UNCHANGED <<deployed, store, loaded, inbox, now, appended, latest, aborts, shown, pushed>>

(* ... and ltrim                                                           *)
Trim(p) ==
    /\ Doing(p, {"trim"})
    /\ cache' = [cache EXCEPT ![Task(p)] = SubSeq(@, Larger(1, Len(@) - Window + 1), Len(@))]
    /\ Advance(p)
    /\ UNCHANGED <<deployed, store, loaded, inbox, now, appended, latest, aborts, shown, pushed>>

Continue(p) == \/ Load(p) \/ UpdateRegister(p) \/ AppendIteration(p)
               \/ PublishForSync(p) \/ Subscribe(p) \/ IgnoreMessage(p)
               \/ MergeRemote(p) \/ ReadLog(p) \/ ReadCache(p)
               \/ Push(p) \/ Trim(p)

Next == \E p \in Procs : Continue(p) \/ Abort(p)

Spec == Init /\ [][Next]_vars /\ \A p \in Procs : WF_vars(Continue(p))
-----------------------------------------------------------------------------
(* A run that has not ended is at a call, only a coder in its sync call is *)
(* subscribed, and a state that is being worked on is the state of an      *)
(* operation in progress.                                                  *)
TypeOK ==
    /\ DOMAIN store = Tasks
    /\ deployed \in Deployments
    /\ \A p \in Procs : /\ step[p].visit \in 0 .. LastVisit(p) + 1
                         /\ step[p].call \in 1 .. Len(Calls(p))
    /\ \A p \in Procs : inbox[p] # None => Doing(p, {"sync"})
    /\ \A p \in Procs : loaded[p] # None => ~Ended(p)
    /\ now \in Nat
    /\ aborts \in 0..MaxAborts

By(t, n) == {u \in DOMAIN store[t].log.elements : deployed.node[u[1]][u[2]] = n}

Sole(p) == \A q \in Procs : Task(q) = Task(p) => q = p

(* The state of a task that only one run works on is exact, whatever other *)
(* runs do to theirs: its log has every entry the run has saved, the       *)
(* counter counts them, each for the node id under which it was saved, and *)
(* each register has the value written last, whether processes share one   *)
(* node id or every visit draws its own, and also after the run has been   *)
(* aborted.                                                                *)
SoleWriterExact ==
    \A p \in Procs : Sole(p) =>
        LET s == store[Task(p)]
        IN  /\ DOMAIN s.log.elements = appended[Task(p)]
            /\ \A n \in Nodes : Count(s.counter, n) = Cardinality(By(Task(p), n))
            /\ s.registers = latest[Task(p)]

(* When several runs work on a task, updates may be lost, but the iteration*)
(* count of a node never exceeds the entries of that node in the log: both *)
(* are saved together, and merging keeps the union of the one and the      *)
(* larger of the other.                                                    *)
LogCoversCounter ==
    \A t \in Tasks, n \in Nodes : Count(store[t].counter, n) <= Cardinality(By(t, n))

(* A log holds entries of its own task only: what is published on the      *)
(* channel about other tasks does not get in.                              *)
LogsKeptApart ==
    \A t \in Tasks : DOMAIN store[t].log.elements \subseteq appended[t]

Trimming(t) == {p \in Procs : Task(p) = t /\ Doing(p, {"trim"})}

(* The cache of a task holds the entries written last, in order, whoever   *)
(* wrote them: all or at least Window of them, and no more than Window but *)
(* for what somebody is about to trim, or died before trimming.            *)
CacheIsWindow ==
    \A t \in Tasks :
        LET n == Len(cache[t])
            m == Len(pushed[t])
        IN  /\ n <= m /\ cache[t] = SubSeq(pushed[t], m - n + 1, m)
            /\ n >= Window \/ n = m
            /\ n <= Window + Cardinality(Trimming(t)) + aborts

Prompting(p) == Doing(p, {"set"}) /\ Call(p).field = "strategy_source" /\ loaded[p] = None

(* A coder that tries again sees what has been tried: all of it when its   *)
(* run is the only one on the task, and something even when another one has*)
(* overwritten the log of the run.                                         *)
PromptTellsHistory ==
    \A p \in Procs : Prompting(p) =>
        /\ Sole(p) => shown[p] = appended[Task(p)]
        /\ (\E i \in DOMAIN pushed[Task(p)] : pushed[Task(p)][i][1] = p) => shown[p] # {}

(* A run with a bounded number of iterations does not go on forever        *)
(* (docs/sections/section_5.html:439).                                     *)
RunsEnd == \A p \in Procs : <>Ended(p)
================================================================================
