---------------------------- MODULE SwarmPipeline ----------------------------
(***************************************************************************)
(* The backtesting pipeline: orchestrator processes, the two RabbitMQ      *)
(* queues, the consumers that execute backtests, and the MongoDB catalog.  *)
(*                                                                         *)
(*   coder -> evaluator --backtest_tasks--> consumer (sandbox)             *)
(*              ^   \                           |                          *)
(*              |    +--> catalog (MongoDB)     |                          *)
(*              +-------backtest_results--------+                          *)
(*                                                                         *)
(* Source: orchestrator/src/swarm_orchestrator (graph, nodes, broker, api) *)
(* and consumer/src/swarm_consumer/main.py.  The broker is external: tasks *)
(* are delivered in order, at most Prefetch of them unacknowledged per     *)
(* consumer; those of a consumer whose connection ends are queued again at *)
(* the front.  Results are fetched with auto_ack, so a result leaves the   *)
(* queue when it is fetched.                                               *)
(*                                                                         *)
(* Each action is one call that another process can observe, with the      *)
(* local computation around it.  Time is not modelled: the wait for a      *)
(* result may time out at any moment.                                      *)
(***************************************************************************)
EXTENDS Integers, Sequences

CONSTANTS Orchestrators,  \* API or CLI processes
          Consumers,      \* consumer processes
          Sources,        \* strategies the coder may write, the fallback included
          Backtests,      \* Backtests[s]: the outcomes the sandbox may report for s
          Limits,         \* values of max_iterations callers ask for
          Prefetch,       \* rabbitmq_prefetch
          MaxDrawdown, MaxLatency, MinSharpe,  \* the KPI settings
          None,           \* no value
          MaxRuns,        \* bound: runs per orchestrator
          MaxCrashes      \* bound: consumer crashes

Metrics  == [drawdown: Int, latency: Int, sharpe: Int]
Statuses == {"success", "compile_error", "runtime_error", "timeout", "segfault"}
Outcomes == [status: Statuses, metrics: Metrics \cup {None}]

(* task_id is a fresh uuid for every run, whoever makes it.                *)
TaskIds     == Orchestrators \X (1..MaxRuns)
Submissions == [task: TaskIds, iteration: Nat, source: Sources]

(* A result names its task but not the iteration.  "of", the submission    *)
(* that was executed, is history: no guard depends on it.                  *)
Replies == [task: TaskIds, outcome: Outcomes, of: Submissions]

ASSUME PipelineAssumption ==
    /\ Limits \subseteq Int
    /\ Prefetch \in Nat \ {0}
    /\ MaxDrawdown \in Int /\ MaxLatency \in Int /\ MinSharpe \in Int
    /\ None \notin Metrics \cup Sources \cup Submissions
    /\ Backtests \in [Sources -> SUBSET Outcomes]
    /\ MaxRuns \in Nat
    /\ MaxCrashes \in Nat

VARIABLES
    pc,         \* where each orchestrator's current run stands
    runs,       \* runs made so far by each orchestrator
    iteration, limit, source, approved,    \* SwarmState of the current run
    outcome,    \* SwarmState.outcome
    executed,   \* history: the submission that outcome was measured for
    cached,     \* entries appended to AgentMemoryCache, per task
    logged,     \* entries appended to the CRDT iteration log, per task
    catalog,    \* db.strategies
    taskQueue, resultQueue,                \* the two durable queues
    held,       \* tasks delivered to a consumer and not acknowledged
    stage,      \* where each consumer's handler stands
    answer,     \* the result a consumer is about to publish
    submitted, answered, dropped,          \* history: what became of the tasks
    late,       \* history: the runs that gave up waiting for a result
    crashes     \* number of consumer crashes so far

stateVars    == <<runs, iteration, limit, source, approved, outcome, executed>>
memoryVars   == <<cached, logged>>
runVars      == <<pc, stateVars, memoryVars, catalog, late>>
consumerVars == <<held, stage, answer, answered, dropped, crashes>>
brokerVars   == <<taskQueue, resultQueue, submitted>>
vars == <<runVars, brokerVars, consumerVars>>

TaskOf(o) == <<o, runs[o]>>

InQueue(x, q) == \E i \in 1..Len(q) : q[i] = x

(* What submit_and_evaluate_node makes of a wait that ended without result *)
TimedOut == [status |-> "timeout", metrics |-> None]

Init ==
    /\ pc = [o \in Orchestrators |-> "idle"]
    /\ runs = [o \in Orchestrators |-> 0]
    /\ iteration = [o \in Orchestrators |-> 0]
    /\ limit = [o \in Orchestrators |-> 0]
    /\ source = [o \in Orchestrators |-> None]
    /\ approved = [o \in Orchestrators |-> FALSE]
    /\ outcome = [o \in Orchestrators |-> None]
    /\ executed = [o \in Orchestrators |-> None]
    /\ cached = [t \in TaskIds |-> 0]
    /\ logged = [t \in TaskIds |-> 0]
    /\ catalog = {}
    /\ taskQueue = <<>>
    /\ resultQueue = <<>>
    /\ held = [c \in Consumers |-> <<>>]
    /\ stage = [c \in Consumers |-> "idle"]
    /\ answer = [c \in Consumers |-> None]
    /\ submitted = {}
    /\ answered = {}
    /\ dropped = {}
    /\ late = {}
    /\ crashes = 0
-----------------------------------------------------------------------------
(* Decisions of the nodes, each preceded by mutants: plausible mistakes in *)
(* the same code, none of which the specification uses.                    *)

WritesWithoutFallback == Sources \cup {None}

(* What coder_node may return: a strategy, since an answer of the model    *)
(* that is none is replaced by FALLBACK_STRATEGY.                          *)
Writes == Sources

(* _wait_for_result returns this result; any other is forgotten            *)
Awaits(o, r) == r.task = TaskOf(o)

ApprovesAnyLatency(out) ==
    /\ out.status = "success"
    /\ out.metrics # None
    /\ out.metrics.drawdown <= MaxDrawdown
    /\ out.metrics.sharpe >= MinSharpe

(* The KPI checks of submit_and_evaluate_node                              *)
Approves(out) ==
    /\ out.status = "success"
    /\ out.metrics # None
    /\ out.metrics.drawdown <= MaxDrawdown
    /\ out.metrics.latency <= MaxLatency
    /\ out.metrics.sharpe >= MinSharpe

ReflectsOnceMore(o) == ~approved[o] /\ iteration[o] <= limit[o]
ReflectsAnyway(o) == iteration[o] < limit[o]

(* should_reflect answers "coder"                                          *)
Reflects(o) == ~approved[o] /\ iteration[o] < limit[o]
-----------------------------------------------------------------------------
(* The orchestrator.                                                       *)

Goto(o, from, to) == pc[o] = from /\ pc' = [pc EXCEPT ![o] = to]

(* graph.invoke with a state that holds the prompt, the dataset and        *)
(* max_iterations only.                                                    *)
Invoke(o) ==
    /\ Goto(o, "idle", "researcher")
    /\ runs[o] < MaxRuns
    /\ runs' = [runs EXCEPT ![o] = @ + 1]
    /\ \E n \in Limits : limit' = [limit EXCEPT ![o] = n]
    /\ iteration' = [iteration EXCEPT ![o] = 0]
    /\ source' = [source EXCEPT ![o] = None]
    /\ approved' = [approved EXCEPT ![o] = FALSE]
    /\ outcome' = [outcome EXCEPT ![o] = None]
    /\ executed' = [executed EXCEPT ![o] = None]
    /\ UNCHANGED <<memoryVars, catalog, late, brokerVars, consumerVars>>

(* researcher_node: a hypothesis, from the model or the fallback one.      *)
Research(o) ==
    /\ Goto(o, "researcher", "coder")
    /\ UNCHANGED <<stateVars, memoryVars, catalog, late, brokerVars, consumerVars>>

(* coder_node up to its entry in the CRDT log                              *)
Synthesize(o) ==
    /\ Goto(o, "coder", "coded")
    /\ \E s \in Writes : source' = [source EXCEPT ![o] = s]
    /\ logged' = [logged EXCEPT ![TaskOf(o)] = @ + 1]
    /\ UNCHANGED <<runs, iteration, limit, approved, outcome, executed, cached,
                   catalog, late, brokerVars, consumerVars>>

ReturnCodeUncached(o) ==
    /\ Goto(o, "coded", "evaluator")
    /\ iteration' = [iteration EXCEPT ![o] = @ + 1]
    /\ UNCHANGED <<runs, limit, source, approved, outcome, executed, memoryVars,
                   catalog, late, brokerVars, consumerVars>>

(* The rest of coder_node: the cache entry and the returned iteration      *)
ReturnCode(o) ==
    /\ Goto(o, "coded", "evaluator")
    /\ cached' = [cached EXCEPT ![TaskOf(o)] = @ + 1]
    /\ iteration' = [iteration EXCEPT ![o] = @ + 1]
    /\ UNCHANGED <<runs, limit, source, approved, outcome, executed, logged,
                   catalog, late, brokerVars, consumerVars>>

(* publish_task                                                            *)
PublishTask(o) ==
    LET s == [task |-> TaskOf(o), iteration |-> iteration[o], source |-> source[o]]
    IN  /\ Goto(o, "evaluator", "wait")
        /\ taskQueue' = Append(taskQueue, s)
        /\ submitted' = submitted \cup {s}
        /\ UNCHANGED <<stateVars, memoryVars, catalog, late, resultQueue, consumerVars>>

(* One basic_get of _wait_for_result that finds a message.  The fetch      *)
(* acknowledges it, whichever task it is for.                              *)
PollResult(o) ==
    /\ pc[o] = "wait"
    /\ resultQueue # <<>>
    /\ resultQueue' = Tail(resultQueue)
    /\ IF Awaits(o, Head(resultQueue))
         THEN /\ pc' = [pc EXCEPT ![o] = "evaluate"]
              /\ outcome'  = [outcome  EXCEPT ![o] = Head(resultQueue).outcome]
              /\ executed' = [executed EXCEPT ![o] = Head(resultQueue).of]
         ELSE UNCHANGED <<pc, outcome, executed>>
    /\ UNCHANGED <<runs, iteration, limit, source, approved, memoryVars,
                   catalog, late, taskQueue, submitted, consumerVars>>

GiveUpAfterAMessage(o) ==
    /\ Goto(o, "wait", "evaluate")
    /\ resultQueue # <<>>
    /\ outcome'  = [outcome  EXCEPT ![o] = TimedOut]
    /\ executed' = [executed EXCEPT ![o] = None]
    /\ late' = late \cup {TaskOf(o)}
    /\ UNCHANGED <<runs, iteration, limit, source, approved, memoryVars,
                   catalog, brokerVars, consumerVars>>

(* The deadline passes: _wait_for_result returns None                      *)
GiveUp(o) ==
    /\ Goto(o, "wait", "evaluate")
    /\ outcome'  = [outcome  EXCEPT ![o] = TimedOut]
    /\ executed' = [executed EXCEPT ![o] = None]
    /\ late' = late \cup {TaskOf(o)}
    /\ UNCHANGED <<runs, iteration, limit, source, approved, memoryVars,
                   catalog, brokerVars, consumerVars>>

(* The evaluation enters the cache, then the CRDT log ...                  *)
CacheEvaluation(o) ==
    /\ Goto(o, "evaluate", "cached")
    /\ cached' = [cached EXCEPT ![TaskOf(o)] = @ + 1]
    /\ UNCHANGED <<stateVars, logged, catalog, late, brokerVars, consumerVars>>

LogEvaluation(o) ==
    /\ Goto(o, "cached", "logged")
    /\ logged' = [logged EXCEPT ![TaskOf(o)] = @ + 1]
    /\ UNCHANGED <<stateVars, cached, catalog, late, brokerVars, consumerVars>>

(* ... and an approved strategy enters the catalog, with the metrics of    *)
(* the outcome.  An exception of the insertion is swallowed.               *)
ReturnEvaluation(o) ==
    LET entry == [task |-> TaskOf(o), source |-> source[o],
                  iteration |-> iteration[o], metrics |-> outcome[o].metrics,
                  of |-> executed[o]]
    IN  /\ Goto(o, "logged", "edge")
        /\ approved' = [approved EXCEPT ![o] = Approves(outcome[o])]
        /\ \/ Approves(outcome[o]) /\ catalog' = catalog \cup {entry}
           \/ UNCHANGED catalog
        /\ UNCHANGED <<runs, iteration, limit, source, outcome, executed, memoryVars,
                       late, brokerVars, consumerVars>>

Reflect(o) ==
    /\ Goto(o, "edge", "coder")
    /\ Reflects(o)
    /\ UNCHANGED <<stateVars, memoryVars, catalog, late, brokerVars, consumerVars>>

Finish(o) ==
    /\ Goto(o, "edge", "idle")
    /\ ~Reflects(o)
    /\ UNCHANGED <<stateVars, memoryVars, catalog, late, brokerVars, consumerVars>>

(* A node raises (broker, Redis or validation error): invoke raises, the   *)
(* API answers 500, and whatever the run has published stays published.    *)
Abort(o) ==
    /\ pc[o] \notin {"idle", "edge"}
    /\ pc' = [pc EXCEPT ![o] = "idle"]
    /\ UNCHANGED <<stateVars, memoryVars, catalog, late, brokerVars, consumerVars>>
-----------------------------------------------------------------------------
(* The consumer.  stage: "idle" (no handler runs, or the sandbox is at     *)
(* work), "ran", "published", "down".                                      *)

(* The broker delivers (basic_qos limits what is unacknowledged).          *)
Deliver(c) ==
    /\ stage[c] # "down"
    /\ Len(held[c]) < Prefetch
    /\ taskQueue # <<>>
    /\ held' = [held EXCEPT ![c] = Append(@, Head(taskQueue))]
    /\ taskQueue' = Tail(taskQueue)
    /\ UNCHANGED <<runVars, resultQueue, submitted, stage, answer, answered,
                   dropped, crashes>>

(* handle_task: the sandbox returns a result                               *)
Execute(c) ==
    /\ stage[c] = "idle"
    /\ held[c] # <<>>
    /\ \E out \in Backtests[Head(held[c]).source] :
           answer' = [answer EXCEPT ![c] = [task |-> Head(held[c]).task,
                                            outcome |-> out,
                                            of |-> Head(held[c])]]
    /\ stage' = [stage EXCEPT ![c] = "ran"]
    /\ UNCHANGED <<runVars, brokerVars, held, answered, dropped, crashes>>

(* handle_task: basic_publish                                              *)
PublishResult(c) ==
    /\ stage[c] = "ran"
    /\ resultQueue' = Append(resultQueue, answer[c])
    /\ answered' = answered \cup {Head(held[c])}
    /\ stage' = [stage EXCEPT ![c] = "published"]
    /\ UNCHANGED <<runVars, taskQueue, submitted, held, answer, dropped, crashes>>

AckForgotten(c) ==
    /\ stage[c] = "published"
    /\ stage' = [stage EXCEPT ![c] = "idle"]
    /\ answer' = [answer EXCEPT ![c] = None]
    /\ UNCHANGED <<runVars, brokerVars, held, answered, dropped, crashes>>

(* callback: basic_ack                                                     *)
Ack(c) ==
    /\ stage[c] = "published"
    /\ held' = [held EXCEPT ![c] = Tail(@)]
    /\ stage' = [stage EXCEPT ![c] = "idle"]
    /\ answer' = [answer EXCEPT ![c] = None]
    /\ UNCHANGED <<runVars, brokerVars, answered, dropped, crashes>>

(* callback: handle_task raises, in the sandbox or while publishing; the   *)
(* task is rejected with requeue=False.                                    *)
Nack(c) ==
    /\ stage[c] \in {"idle", "ran"}
    /\ held[c] # <<>>
    /\ dropped' = dropped \cup {Head(held[c])}
    /\ held' = [held EXCEPT ![c] = Tail(@)]
    /\ stage' = [stage EXCEPT ![c] = "idle"]
    /\ answer' = [answer EXCEPT ![c] = None]
    /\ UNCHANGED <<runVars, brokerVars, answered, crashes>>

CrashAfterAutoAck(c) ==
    /\ stage[c] # "down"
    /\ crashes < MaxCrashes
    /\ crashes' = crashes + 1
    /\ held' = [held EXCEPT ![c] = <<>>]
    /\ stage' = [stage EXCEPT ![c] = "down"]
    /\ answer' = [answer EXCEPT ![c] = None]
    /\ UNCHANGED <<runVars, brokerVars, answered, dropped>>

(* The process or its connection dies; the broker queues again what the    *)
(* consumer had not acknowledged.                                          *)
Crash(c) ==
    /\ stage[c] # "down"
    /\ crashes < MaxCrashes
    /\ crashes' = crashes + 1
    /\ taskQueue' = held[c] \o taskQueue
    /\ held' = [held EXCEPT ![c] = <<>>]
    /\ stage' = [stage EXCEPT ![c] = "down"]
    /\ answer' = [answer EXCEPT ![c] = None]
    /\ UNCHANGED <<runVars, resultQueue, submitted, answered, dropped>>

(* restart_policy of the cluster's compose file                            *)
Restart(c) ==
    /\ stage[c] = "down"
    /\ stage' = [stage EXCEPT ![c] = "idle"]
    /\ UNCHANGED <<runVars, brokerVars, held, answer, answered, dropped, crashes>>
-----------------------------------------------------------------------------
Evaluation(o) == CacheEvaluation(o) \/ LogEvaluation(o) \/ ReturnEvaluation(o)

(* What a run does by itself.  PollResult is not among them: whether a     *)
(* result is there does not depend on the run.                             *)
Advance(o) == \/ Research(o) \/ Synthesize(o) \/ ReturnCode(o)
              \/ PublishTask(o) \/ GiveUp(o) \/ Evaluation(o)
              \/ Reflect(o) \/ Finish(o)

Orchestrate(o) == Invoke(o) \/ Advance(o) \/ PollResult(o) \/ Abort(o)

Handle(c) == Execute(c) \/ PublishResult(c) \/ Ack(c) \/ Nack(c)

Consume(c) == Deliver(c) \/ Handle(c) \/ Crash(c) \/ Restart(c)

Next == \/ \E o \in Orchestrators : Orchestrate(o)
        \/ \E c \in Consumers : Consume(c)

Safe == Init /\ [][Next]_vars

(* A run that has begun goes on, and every wait has a deadline.            *)
Spec == Safe /\ \A o \in Orchestrators : WF_vars(Advance(o))

(* Besides, the broker delivers, the sandbox returns (its worker is killed *)
(* after worker_timeout_sec), and dead consumers are restarted.            *)
ClusterSpec == Spec /\ \A c \in Consumers : /\ WF_vars(Deliver(c))
                                            /\ WF_vars(Handle(c))
                                            /\ WF_vars(Restart(c))
-----------------------------------------------------------------------------
(* What the pipeline implements: each orchestrator is a SwarmGraph.        *)
Phase(o) == CASE pc[o] \in {"idle", "researcher", "coder", "edge"} -> pc[o]
              [] pc[o] = "coded" -> "coder"
              [] OTHER -> "evaluator"

Graph(o) == INSTANCE SwarmGraph WITH phase <- Phase(o), iteration <- iteration[o],
                limit <- limit[o], approved <- approved[o], runs <- runs[o]
-----------------------------------------------------------------------------
Locations == {"idle", "researcher", "coder", "coded", "evaluator", "wait",
              "evaluate", "cached", "logged", "edge"}

Entries == [task: TaskIds, source: Sources, iteration: Nat, metrics: Metrics,
            of: Submissions]

RunTypes ==
    /\ pc \in [Orchestrators -> Locations]
    /\ runs \in [Orchestrators -> 0..MaxRuns]
    /\ iteration \in [Orchestrators -> Nat]
    /\ limit \in [Orchestrators -> Limits \cup {0}]
    /\ source \in [Orchestrators -> Sources \cup {None}]
    /\ approved \in [Orchestrators -> BOOLEAN]
    /\ outcome \in [Orchestrators -> Outcomes \cup {None}]
    /\ executed \in [Orchestrators -> Submissions \cup {None}]

StoreTypes ==
    /\ cached \in [TaskIds -> Nat]
    /\ logged \in [TaskIds -> Nat]
    /\ catalog \subseteq Entries
    /\ late \subseteq TaskIds

BrokerTypes ==
    /\ taskQueue \in Seq(Submissions)
    /\ resultQueue \in Seq(Replies)
    /\ submitted \subseteq Submissions

ConsumerTypes ==
    /\ held \in [Consumers -> Seq(Submissions)]
    /\ stage \in [Consumers -> {"idle", "ran", "published", "down"}]
    /\ answer \in [Consumers -> Replies \cup {None}]
    /\ answered \subseteq Submissions
    /\ dropped \subseteq Submissions
    /\ crashes \in 0..MaxCrashes

(* Every variable has values of its type; in particular what is catalogued *)
(* has metrics, and what is sent is a strategy of a run that has started.  *)
TypeOK == RunTypes /\ StoreTypes /\ BrokerTypes /\ ConsumerTypes

(* No task disappears while the pipeline is responsible for it: what an    *)
(* orchestrator has published waits in the queue, is held by a consumer,   *)
(* has been answered, or was rejected by a handler that raised.  This is   *)
(* the point of acknowledging after the result is published (callback in   *)
(* consumer/main.py) under crashes of the consumer.                        *)
NoTaskLost ==
    \A s \in submitted : \/ InQueue(s, taskQueue)
                         \/ \E c \in Consumers : InQueue(s, held[c])
                         \/ s \in answered
                         \/ s \in dropped

(* The catalog holds measured facts only: each entry's metrics satisfy the *)
(* three KPIs and are what the sandbox reported for some strategy that the *)
(* same run submitted, at this or at an earlier iteration.                 *)
CatalogSound ==
    \A e \in catalog :
        /\ e.of \in submitted
        /\ e.of.task = e.task
        /\ e.of.iteration <= e.iteration
        /\ [status |-> "success", metrics |-> e.metrics] \in Backtests[e.of.source]
        /\ e.metrics.drawdown <= MaxDrawdown
        /\ e.metrics.latency <= MaxLatency
        /\ e.metrics.sharpe >= MinSharpe

(* A run catalogs at most one strategy, since approval ends it.            *)
OneEntryPerRun == \A e, f \in catalog : e.task = f.task => e = f

(* The outcome a run evaluates is the one of the strategy it has just      *)
(* submitted, unless this run once gave up waiting or a consumer crashed:  *)
(* only a late answer or a repeated one can be taken for the current one,  *)
(* whatever the interleaving with the other runs.                          *)
FreshUnlessLate ==
    \A o \in Orchestrators :
        /\ pc[o] \in {"evaluate", "cached", "logged", "edge"}
        /\ executed[o] # None
        => \/ executed[o].iteration = iteration[o]
           \/ TaskOf(o) \in late
           \/ crashes > 0

(* Cache and CRDT log describe the same history: they differ by at most    *)
(* the entry being written, also after a run that was aborted between the  *)
(* two, and whenever the coder starts they hold two entries per iteration. *)
MemoriesAgree ==
    /\ \A t \in TaskIds : cached[t] - logged[t] \in -1..1
    /\ \A o \in Orchestrators :
           pc[o] \in {"coder", "edge"} =>
               /\ cached[TaskOf(o)] = 2 * iteration[o]
               /\ logged[TaskOf(o)] = 2 * iteration[o]

(* A result that leaves the queue while its run waits for it is received   *)
(* by that run.                                                            *)
ResultReachesItsRun ==
    [][\A o \in Orchestrators :
           /\ pc[o] = "wait"
           /\ resultQueue # <<>>
           /\ Head(resultQueue).task = TaskOf(o)
           /\ resultQueue' = Tail(resultQueue)
           => pc'[o] = "evaluate"]_vars

(* The control loop of every orchestrator is the one of SwarmGraph ...     *)
ImplementsGraph ==
    /\ \A o \in Orchestrators : Graph(o)!Init
    /\ [][\A o \in Orchestrators : Graph(o)!Next \/ UNCHANGED Graph(o)!vars]_vars

(* ... and it keeps the promises made there: a run codes no more often     *)
(* than it was asked to, also when results of earlier iterations arrive,   *)
LoopBounded == \A o \in Orchestrators : Graph(o)!IterationBound

(* it is over once a strategy has been approved,                           *)
ApprovalEndsRun == [][\A o \in Orchestrators : Graph(o)!ApprovalKept]_vars

(* ... and it ends, also when its task was rejected or no consumer *)
(* answers, because the wait for a result has a deadline.                  *)
RunsEnd == \A o \in Orchestrators : Graph(o)!RunEnds

Rounds == 1..(CHOOSE m \in Limits \cup {1} : \A n \in Limits \cup {1} : n <= m)

(* Every submitted task is eventually answered or rejected, whatever       *)
(* becomes of the run that submitted it.                                   *)
EventuallySettled ==
    \A t \in TaskIds, n \in Rounds, s \in Sources :
        LET x == [task |-> t, iteration |-> n, source |-> s]
        IN  x \in submitted ~> x \in answered \cup dropped

(* The code and the metrics saved together belong together                 *)
(* (docs/sections/section_5.html:435).                                     *)
CatalogPairsSourceWithItsMetrics ==
    \A e \in catalog : e.of.source = e.source /\ e.of.iteration = e.iteration

=============================================================================
