---------------------------- MODULE ConsumerSandbox ----------------------------
(***************************************************************************)
(* A consumer process (consumer/src/swarm_consumer/main.py) and its        *)
(* sandbox: tasks are delivered by the broker, handle_task runs each in    *)
(* the Sandbox and publishes what it returned, and the callback around it  *)
(* acknowledges the task, or rejects it when an exception comes out.       *)
(*                                                                         *)
(* A handler does not notice that the connection to the broker is lost     *)
(* before it uses it again: the sandbox works on, while the broker has put *)
(* the task back into the queue.  Then publish or ack raises, and so does  *)
(* the nack of the except clause: the exception leaves start_consuming,    *)
(* and the process ends.                                                   *)
(*                                                                         *)
(* SwarmPipeline takes Backtests, what the sandbox may report for a        *)
(* strategy, as given, and each handler as a few atomic steps; this module *)
(* implements it.                                                          *)
(***************************************************************************)
EXTENDS Sandbox, Sequences

CONSTANTS Strategies,  \* the strategies in the tasks
          Compiles,    \* those that compile
          ExitsWith,   \* ExitsWith[s]: the exit codes its worker may have
          Tasks,       \* the tasks published, in order
          Prefetch,    \* rabbitmq_prefetch
          MaxCrashes   \* bound: losses of the connection

ASSUME ConsumerAssumption ==
    /\ Compiles \subseteq Strategies
    /\ ExitsWith \in [Strategies -> SUBSET ExitCodes]
    /\ Tasks \in Seq([task: {<<1, 1>>}, iteration: Nat, source: Strategies])
    /\ Prefetch \in Nat \ {0} /\ MaxCrashes \in Nat

VARIABLES queue,       \* backtest_tasks
          published,   \* backtest_results
          held,        \* tasks delivered and not acknowledged
          stage,       \* where the callback stands
          body,        \* the task in the callback
          connected,   \* whether the connection to the broker is up
          answered, dropped,  \* history: tasks answered and rejected
          crashes      \* connections lost so far

brokerVars == <<queue, published, held, connected, answered, dropped, crashes>>
cvars == <<vars, brokerVars, stage, body>>

ConsumerInit ==
    /\ Init
    /\ queue = Tasks
    /\ published = <<>>
    /\ held = <<>>
    /\ stage = "idle"
    /\ body = None
    /\ connected = TRUE
    /\ answered = {}
    /\ dropped = {}
    /\ crashes = 0
-----------------------------------------------------------------------------
(* The broker delivers, also while a handler runs.                         *)
Deliver ==
    /\ stage # "down" /\ connected
    /\ Len(held) < Prefetch
    /\ queue # <<>>
    /\ held' = Append(held, Head(queue))
    /\ queue' = Tail(queue)
    /\ UNCHANGED <<vars, published, connected, answered, dropped, crashes, stage, body>>

(* handle_task: run_backtest begins ...                                    *)
BeginTask ==
    /\ stage = "idle"
    /\ held # <<>>
    /\ body' = Head(held)
    /\ stage' = "running"
    /\ Begin
    /\ UNCHANGED brokerVars

(* ... or something raises before: the payload, mkdtemp                    *)
TaskRaises ==
    /\ stage = "idle"
    /\ held # <<>>
    /\ body' = Head(held)
    /\ stage' = "raised"
    /\ UNCHANGED <<vars, brokerVars>>

(* What the containers of a run do is up to its strategy.                  *)
StrategyExits ==
    /\ stage = "running"
    /\ \/ Exit(Compiler) /\ (code'[Compiler] = 0 => body.source \in Compiles)
       \/ Exit(Worker) /\ code'[Worker] \in ExitsWith[body.source]
    /\ UNCHANGED <<brokerVars, stage, body>>

(* Containers that earlier runs have left behind end, too.                 *)
LeftoverExits ==
    /\ \E b \in Boxes : (b[1] # runs \/ stage # "running") /\ Exit(b)
    /\ UNCHANGED <<brokerVars, stage, body>>

Work == /\ stage = "running"
        /\ \/ DatasetMissing \/ StartCompiler \/ Compiled \/ StartWorker \/ WaitReturns
           \/ WaitExpires \/ Kill \/ KillConflicts \/ Discard \/ Collect
        /\ UNCHANGED <<brokerVars, stage, body>>

WorkFails == /\ stage = "running"
             /\ CompileRaises \/ StartRaises \/ WaitRaises \/ CallRaises
             /\ UNCHANGED <<brokerVars, stage, body>>

(* run_backtest returns, or raises                                         *)
EndTask ==
    /\ stage = "running"
    /\ Cleanup
    /\ stage' = IF result = None THEN "raised" ELSE "ran"
    /\ UNCHANGED <<brokerVars, body>>

(* What the published message says of a run                                *)
Measured == [drawdown |-> 0, latency |-> 0, sharpe |-> 0]
OutcomeOf(r) == [status |-> r.status, metrics |-> IF r.measured THEN Measured ELSE None]
Answer(task, r) == [task |-> task.task, outcome |-> OutcomeOf(r), of |-> task]

Publish ==
    /\ stage = "ran" /\ connected
    /\ published' = Append(published, Answer(body, result))
    /\ answered' = answered \cup {body}
    /\ stage' = "published"
    /\ UNCHANGED <<vars, queue, held, connected, dropped, crashes, body>>

(* callback: basic_ack                                                     *)
Ack ==
    /\ stage = "published" /\ connected
    /\ held' = Tail(held)
    /\ stage' = "idle"
    /\ body' = None
    /\ UNCHANGED <<vars, queue, published, connected, answered, dropped, crashes>>

NackRequeued ==
    /\ stage = "raised" /\ connected
    /\ held' = Tail(held)
    /\ queue' = <<body>> \o queue
    /\ stage' = "idle"
    /\ body' = None
    /\ UNCHANGED <<vars, published, connected, answered, dropped, crashes>>

(* callback: basic_nack with requeue=False                                 *)
Nack ==
    /\ stage = "raised" /\ connected
    /\ held' = Tail(held)
    /\ dropped' = dropped \cup {body}
    /\ stage' = "idle"
    /\ body' = None
    /\ UNCHANGED <<vars, queue, published, connected, answered, crashes>>

(* The broker loses the consumer and queues again what it had not          *)
(* acknowledged.  A handler goes on.                                       *)
Requeue ==
    /\ connected
    /\ crashes < MaxCrashes
    /\ crashes' = crashes + 1
    /\ connected' = FALSE
    /\ queue' = held \o queue
    /\ held' = <<>>
    /\ UNCHANGED <<published, answered, dropped>>

ConnectionLost ==
    /\ stage # "down"
    /\ Requeue
    /\ UNCHANGED <<vars, stage, body>>

(* publish, ack or nack raises for want of a connection, and then the nack *)
(* does; an idle consumer notices at once.                                 *)
GiveUp ==
    /\ stage \in {"idle", "ran", "published", "raised"} /\ ~connected
    /\ stage' = "down"
    /\ body' = None
    /\ UNCHANGED <<vars, brokerVars>>

(* The process is killed, inside run_backtest or elsewhere.                *)
Die ==
    /\ stage # "down"
    /\ Requeue \/ (~connected /\ UNCHANGED brokerVars)
    /\ IF stage = "running" THEN Crash ELSE UNCHANGED vars
    /\ stage' = "down"
    /\ body' = None

Restart ==
    /\ stage = "down"
    /\ stage' = "idle"
    /\ connected' = TRUE
    /\ UNCHANGED <<vars, queue, published, held, answered, dropped, crashes, body>>

Handle == BeginTask \/ TaskRaises \/ Work \/ EndTask \/ Publish \/ Ack \/ Nack \/ GiveUp

ConsumerNext == \/ Deliver \/ Handle \/ WorkFails \/ ConnectionLost \/ Die \/ Restart
                \/ StrategyExits \/ LeftoverExits

(* The handler goes on and waits expire; a container need not ever exit.   *)
ConsumerSpec == ConsumerInit /\ [][ConsumerNext]_cvars /\ WF_cvars(Handle)
-----------------------------------------------------------------------------
(* What SwarmPipeline assumes the sandbox to report for a strategy         *)
MayReport(s) ==
    {OutcomeOf(Result(status, FALSE)) : status \in {"compile_error", "runtime_error"}} \cup
    (IF s \notin Compiles THEN {} ELSE {OutcomeOf(Result("timeout", FALSE))} \cup
        {OutcomeOf(Result("success", m)) : m \in IF 0 \in ExitsWith[s] THEN BOOLEAN ELSE {}} \cup
        {OutcomeOf(Result("segfault", m)) : m \in IF 139 \in ExitsWith[s] THEN {FALSE} ELSE {}})

(* The consumer of SwarmPipeline that this one is.  A process without      *)
(* connection counts as down, one that works on a task as idle.            *)
me == "consumer"
Mine(x) == [c \in {me} |-> x]

Stage == IF ~connected THEN "down" ELSE IF stage \in {"running", "raised"} THEN "idle" ELSE stage

P == INSTANCE SwarmPipeline WITH
         Orchestrators <- {1}, Consumers <- {me}, Sources <- Strategies,
         Backtests <- [s \in Strategies |-> MayReport(s)], Limits <- {1}, MaxRuns <- 1,
         MaxDrawdown <- 0, MaxLatency <- 0, MinSharpe <- 0,
         pc <- <<"wait">>, runs <- <<1>>, iteration <- <<1>>, limit <- <<1>>,
         source <- <<None>>, approved <- <<FALSE>>, outcome <- <<None>>,
         executed <- <<None>>, cached <- <<>>, logged <- <<>>, catalog <- {}, late <- {},
         taskQueue <- queue, resultQueue <- published, submitted <- {},
         held <- Mine(held), stage <- Mine(Stage),
         answer <- Mine(IF connected /\ stage \in {"ran", "published"}
                            THEN Answer(body, result) ELSE None)

(* Every step of a consumer and its sandbox is one that SwarmPipeline      *)
(* allows a consumer, or none there: a task is acknowledged only when the  *)
(* answer to it has been published, the answer is one that its own         *)
(* strategy may get, rejected tasks do not come back and those of a lost   *)
(* connection do.                                                          *)
ImplementsConsumer == [][P!Consume(me) \/ UNCHANGED P!vars]_cvars
================================================================================
