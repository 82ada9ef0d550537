# HyperTick in TLA+

Specifications of the backtesting swarm in this repository: the control loop of
the orchestrator, the message pipeline between orchestrators and consumers, the
consumer and the sandbox in which it compiles and runs strategies, the memory
shared through Redis, the C++ worker from tick store to metrics, and the
ingestion of datasets. TLC checks them on small
instances; TLAPS proves the invariants and action properties, and both
refinements, for all values of the constants.
`PROJECT.json` maps every definition to the lines it models.

    cd tla
    tlc -config PipelineLoop.cfg MCSwarmPipeline    # a run
    tlapm SwarmPipelineProofs.tla                   # a proof

## The system

| Component | State | Operations | Interacts with |
|---|---|---|---|
| LangGraph loop (`graph.py`, `api.py`, `cli.py`) | `SwarmState` of the run | invoke, conditional edge | calls the nodes |
| Nodes (`nodes/*.py`) | none of their own | research, code, submit and evaluate | Redis, RabbitMQ, MongoDB, language model |
| RabbitMQ (`broker/rabbitmq.py`, `consumer/main.py`) | `backtest_tasks`, `backtest_results` | publish, deliver, get, ack, nack | orchestrators, consumers |
| Consumer (`consumer/main.py`) | the unacknowledged task | `handle_task`, `callback` | broker, sandbox |
| Sandbox (`consumer/sandbox.py`) | scratch directory, two containers | `run_backtest` | Docker daemon |
| CRDT state (`broker/crdt_state.py`) | one JSON value per task in Redis, a pub/sub channel | load, save, update, append, merge, publish, subscribe | researcher, coder, evaluator |
| Memory cache (`broker/redis_cache.py`) | a list per task, at most ten entries | append, format | coder, evaluator |
| Catalog (MongoDB) | `strategies` | insert | evaluator |
| Worker engine (`BacktestEngine.cpp`, `SimdMetrics.hpp`) | loop indices, latency samples | load, run, finalize | tick store, simulator, strategy |
| Tick store (`ColumnarTickStore.cpp`) | views of record batches | construct, `tick_at` | Arrow file |
| Order matching (`OrderMatchingSimulator.cpp`) | book, cash, position, equity curve | `process_signals` | engine |
| Ingestion (`scripts/ingest_ticks.py`, `generate_sample_data.py`) | Arrow files and `index.json` of the data directory | ingest, generate | the worker reads the files |

A run goes researcher → coder → evaluator and back to the coder until the
evaluator approves or the iteration limit is reached. The evaluator publishes
the strategy as a task, polls the shared result queue until a deadline, compares
the metrics with three KPI limits and saves what it approves. Consumers execute
tasks in containers and acknowledge a task after they have published its result.

What is hard here, and what makes each part correct:

* **Pipeline** – several orchestrators and consumers share two queues; consumers
  die and tasks are delivered again; waits time out and their answers come
  later; all iterations of a run share one `task_id`. It is correct if no task
  disappears, the catalog holds measured facts, a run catalogs one strategy, and
  every run ends.
* **Memory** – merges must give one state in any order. The store, however,
  is one Redis value read and written without a lock, stamped by wall clocks,
  and the coder waits for peers without timeout. Beside it stands a window of
  the last entries, pushed and cut by separate commands. It is correct if a
  run's memory is exact as long as nobody else works on its task, and a coder
  that tries again is shown what has been tried.
* **Consumer and sandbox** – every Docker call may fail, a strategy may never
  end, a container may exit between a timeout and the kill, and the broker may
  be gone while a handler works. It is correct if nothing runs or stays behind,
  the report is what happened, and a task is acknowledged only when answered.
* **Worker** – orders rest over many ticks; quotes may be missing; batches of
  the file and of the loop end at different rows, blocks of the metric kernels
  at others again. It is correct if each tick and each order is handled exactly
  once, in order, trades create no money, and the metrics are those of the run.
* **Ingestion** – the unit of time stamps is guessed, files and index are
  written in place, and nothing keeps two processes apart. It is correct if
  rows stay in the order of time and the index says what the files hold.

`PROJECT.json` lists the hazards one by one, each with the properties for it.

## Modules

    SwarmGraph  <--implements--  SwarmPipeline
                                      ^
                                      | implements its consumer
    Sandbox  <--extends--  ConsumerSandbox
    CrdtMerge  <--extends--  CrdtCopies, CrdtStore
    Loops  <--extends--  OrderMatching, SimdMetrics  <--extends--  BacktestEngine
    Ingestion

Theorems stand in modules of their own, which extend the module they are about:
`SwarmPipelineProofs`, `SandboxProofs`, `ConsumerSandboxProofs`,
`CrdtMergeProofs`, `CrdtCopiesProofs`, `CrdtStoreProofs`, `BacktestEngineProofs`
and `IngestionProofs`.

**SwarmGraph** is the abstract loop: phase, iteration, limit, approval. What
nodes do is open: an evaluation approves or not, any node may raise.

**SwarmPipeline** composes orchestrators (`pc`, `runs` and the fields of
`SwarmState`), the two queues, consumers (`held`, `stage`, `answer`) and the
catalog. One action is one call another process can observe, with the local
computation around it: `Synthesize` and `ReturnCode` are `coder_node`,
`PublishTask`, `PollResult`, `GiveUp`, `CacheEvaluation`, `LogEvaluation`,
`ReturnEvaluation` are `submit_and_evaluate_node`, `Execute` and `PublishResult`
are `handle_task`, `Ack` and `Nack` the callback. `Deliver` and the requeueing
in `Crash` are the broker's. `Abort` is any exception in a node. `executed`,
`submitted`, `answered`, `dropped` and `late` are history that no guard reads.
The module describes the default setting in which CRDT sync is off; what sync
does to a run is `CrdtStore`'s subject.

**CrdtMerge** has the data types as operators and the order of knowledge they
should respect. **CrdtCopies** lets nodes with copies of their own write,
publish and merge in any order. **CrdtStore** is how the program really uses
them, together with the cache: a run visits the researcher and then, once per
iteration, coder and evaluator, and makes the calls of each (`NodeCalls`);
`step` says at which call of which visit it is. Each visit builds its own
`SwarmStateCRDT`, whose node id is `CRDT_NODE_ID`, one for all orchestrators in
the compose files and `.env.example`, or, where that is empty as it is by default
(`config.py:18`), a fresh one: a deployment gives a node id to each visit of each
process. An operation on the CRDT state is
a `Load` and an update that saves; an entry of the cache is a `Push` and a
`Trim`; `ReadLog` and `ReadCache` are what the coder puts into its prompt. Other
processes may act between any two of them. `appended`, `pushed` and `latest` are
history.

**Sandbox** follows `run_backtest` call by call (`pc`), with the state of each
container and each scratch directory, and the daemon failing any call.
`disturbed` are the runs in which it did, or the consumer died, `crashed` those
of the latter kind: only they may leave a directory behind.
**ConsumerSandbox** puts it between the broker and the callback: `BeginTask` to
`EndTask` is the call of `run_backtest` in `handle_task`, `Publish` its end,
`Ack` and `Nack` the callback. A handler whose connection is lost works on; the
broker has queued the task again (`ConnectionLost`), the next use of the
connection raises, the nack of the except clause does too, and the process ends
(`GiveUp`) and is restarted. `ImplementsConsumer` maps all of this to the
consumer of SwarmPipeline: what the sandbox does is hidden until `EndTask` makes
it an `Execute`, and a consumer without connection counts as crashed.

**Loops** has two loops that the worker's code repeats, as functions of the
step: `Selected`, which keeps some elements in their order (the simulator's
`remaining` and its fills, the tick store's batches), and `Total`, a running
total. **OrderMatching** is one operator, `ProcessSignals`, over the book and the
account, with exact integers for doubles. **SimdMetrics** has the metric kernels
as operators: returns are multiples of 1/`Precision`, a Sharpe ratio is kept as
the numbers it is computed from, a drawdown as a fraction. **BacktestEngine**
drives the matching with the rows of a tick store built from record batches and
takes the metrics of the equity curve (`Measured`).

**Ingestion** lets processes ingest sources or generate samples: `Load` is
everything up to `sort_by` and changes nothing others see; `OpenFile` and
`CloseFile`, `ReadIndex`, `OpenIndex` and `WriteIndex` are the steps between
which others act. A file that is open for writing is `Torn`. Of the record that
`ingest` writes into the index, `Meta` has the source and the `Extent` of the
table; the id is its key. `registered`, `overlap` and `shared` are history.

Definitions called mutants stand before the definition they alter. They are
plausible mistakes in the same code and used by no specification; substituting
one violates the property `PROJECT.json` names, which shows that the property
depends on the code.

## Runs

| Run | Instance | Shows |
|---|---|---|
| `PipelineLoop` | 1 orchestrator, limits 0 and 2, 2 consumers, 1 crash; strategies that pass, fail a limit, or end without metrics | all safety properties of the pipeline under redelivery, rejection, timeouts, aborts; it implements SwarmGraph; every run ends, every task is eventually answered or rejected |
| `CrdtCopies` | 3 nodes, 3 updates, 3 published states | convergence, latest write, exact log and counter |
| `CrdtStore` | 2 processes of up to 2 iterations under 12 deployments: one task or two; node ids configured, the same or not, or drawn by every visit; sync of none, one, both; window of 2; 1 abort | a task with one writer is exact; counter within log; logs apart; the cache is a window; the prompt tells the history |
| `ConsumerSandbox` | 2 tasks, 3 backtests, 2 failures of the daemon, 2 losses of the connection, 3 exit codes | nothing left or unattended, reports true, worker phase ends; implements the consumer of SwarmPipeline |
| `BacktestEngine` | all 64 markets of 3 ticks with both quotes or none, 4 other files with 4 batch sizes and 3 strides, markets of 6 and 7 ticks, ticks without a bid; up to 3 orders of 7 kinds, quantities of zero and below among them; the benchmark | each row once, in order, timed at the stride; each order once, in order, at its first chance; no free lunch; metrics of the whole run; termination |
| `Ingestion` | 3 processes, 9 jobs on 8 sources, two of them with one id, and 1 sample, 1 killed | the index is true of rows and times of the files, and of their source when those with one id take turns; it keeps its entries; order in time |

Six more runs show a statement of the documentation to fail; each is a finding
in `PROJECT.json`:

| Run | What happens |
|---|---|
| `PipelineStaleResult` | a late answer is taken for the current iteration's; source and metrics of different strategies are saved together |
| `PipelineStolenResult` | one orchestrator fetches and forgets the other's result |
| `CrdtSyncWaits` | with sync on, as in the cluster overlay, the coder waits for ever |
| `SandboxLeftover` | a worker that exits just before the kill is not removed |
| `LimitSlippage` | a limit order fills beyond its limit |
| `IngestedTime` | time stamps that are in nanoseconds already, such as those of the repository's own sample, are taken for seconds |

The properties are stated so as to leave room for what the code does not
promise, and a reader should know the gaps:

* `FreshUnlessLate` exempts runs that gave up once, and everything after a
  consumer crash: a redelivered task is answered twice, and the second answer is
  taken for the next iteration's.
* `NoTaskLost` and `EventuallySettled` count a rejected task as settled. It is
  rejected without requeue and not retried; its run waits until the deadline.
* `SoleWriterExact` speaks of tasks with one writer, which may count under
  several node ids. Of two concurrent appends to
  one task the first is overwritten. Several writers exist only if a caller of
  the graph passes `task_id`; API and CLI pass none.
* `LatestWriteWins` is checked with `Skewed = FALSE`: clocks are not behind the
  stamps they replace. `LWWRegister.set` does not compare timestamps, so a clock
  that is behind replaces a later write, and with `Skewed = TRUE` the property fails.
* `WorkerPhaseEnds` begins when the worker has started. The compiler container
  is waited for without a limit.
* `PromptTellsHistory` says "something" where two runs share a task. The log is
  read before the cache and is not cut, so the window of ten entries
  (docs/sections/section_6.html:120) limits a prompt only when the log is empty.
  In which order the log shows its entries is left to their random uids.
* `CacheIsWindow` lets the list exceed the window by one entry for each run that
  is about to cut it, or died there; the next `ltrim` cuts them all.
* `SharpeIsMeasured` speaks of two ticks or more and an account that begins with
  money; else the metrics are those that the strategy claims.
* `DrawdownIsWorstLoss` is about the equity curve, whose first point comes after
  the first tick: what that tick costs is in the total return and in no
  drawdown. It excludes overdrawn accounts, whose losses are relative to nothing.
* `NoFreeLunch` excludes ticks that fill an order of negative quantity. Nobody
  checks the quantity of a signal (`StrategyInterface.hpp:28`): buying less than
  nothing sells at the ask plus slippage, which makes money out of nothing. It
  also excludes ticks whose selling price, quoted or last, is below zero or
  above the buying price; with one quote missing, the last price may be on its
  wrong side.
* `IndexDescribesFiles` speaks of the number of rows and the first and last time,
  and excludes datasets named with `--dataset-id`, which any process may write
  without registering. It does not speak of the source: two files of one name
  that differ only in the middle have one id, and the entry may name the one
  while the file has the rows of the other. `IndexNamesSource` says when it may
  not, for both kinds of id: when all that wrote the file registered, one after
  the other, and no registrations overlapped.
* `IndexKeepsEntries` excludes registrations that overlap, which lose an entry,
  and a process that dies while it writes, which leaves an index no later
  ingestion can read.
* `TimeOrderKept` excludes sources whose time stamps overflow.

`CHECK_DEADLOCK FALSE` is used throughout: runs, ticks and updates are finite
in number and an instance stops when they are used up.

### Bounds

`MaxRuns`, `MaxCrashes`, `MaxFailures`, `MaxAborts`, `MaxUpdates`, `MaxSent`,
`MaxTime`, `Iterations`, `MaxTicks` and `MaxOrders` bound what would otherwise
grow for ever; each stands in the guard of the action it limits, or in the
assumption on the constant that does. They suffice for the cases of interest.
Two iterations allow an answer to the first to be taken for the second's, one
crash gives one redelivery, two consumers let it overtake the original. Three
updates on three nodes give concurrent writes and a third node that sees them in
either order. A run of two iterations pushes four entries into a window of two,
and its second coder has something to be shown. Two tasks, one of which does not
compile, and three runs of the sandbox let a backtest follow one that was
abandoned, and its container meet another's; two daemon failures hit two runs or
one run twice. Three ticks let an order rest and a later one pass it; six
returns are a block of four lanes and a remainder. Three ingestions are one that
disturbs two, and `Width`, `Second`, `Threshold`, `Sample` and `Shown` are the
numbers of the code made small enough for time stamps below, at and above each.

The theorems below hold for all values of these constants, and for any sets of
processes, strategies, tasks, deployments, sources and values. `Symmetry` of Ingestion permutes processes, which nothing
distinguishes; its run has safety properties only.

### Fairness

* `SwarmGraph!Spec`, `SwarmPipeline!Spec`: a run that has begun goes on (weak
  fairness of `Advance`). The code is sequential and every wait has a deadline;
  `GiveUp` is part of `Advance`, `PollResult` is not, because it depends on a
  consumer.
* `ClusterSpec`: besides, the broker delivers, handlers go on, and dead
  consumers restart (`restart_policy` of `docker-compose.cluster.yml`; five
  attempts there, one crash here). That a handler goes on presumes that
  compilation ends, for which the code has no limit.
* `CrdtStore!Spec`: each process goes on while it can; it cannot while it waits
  for a message in `subscribe_sync`.
* `Sandbox!Spec`, `ConsumerSpec`: the consumer goes on and `wait` expires. No
  container is assumed ever to exit, nor the broker to deliver.
* `BacktestEngine!EngineSpec`: the strategy's functions return.
* Ingestion states none: its properties are safety properties, and an ingestion
  may be killed anywhere.

## Proofs

The theorems need no assumptions but those the modules state of their constants.
Most only say what the constants are; those that say more are named below. Every
invariant that a proof introduces was checked by TLC on the instance of the run
before it was proved.

### SwarmPipelineProofs

About `Safe`, from `PipelineAssumption` (`Prefetch` is positive).

* `PipelineSafe`: `TypeOK`, `NoTaskLost` and `CatalogSound`. None of the three
  is inductive alone.
  `IInv` adds that everything on its way is accounted for: tasks in the queue
  and in consumers' hands were submitted; a consumer past its execution holds
  the task it answers; every reply, in the queue or about to be sent, names the
  run whose submission was executed and an outcome the sandbox may report for
  it; the outcome a run evaluates is such an outcome of a submission of that
  run, of this iteration or an earlier one. `OrchestratorStep` and
  `ConsumerStep` have one step per action; lemmas on queues say what membership
  becomes under append, tail and concatenation.
* `Refinement`: `Safe => ImplementsGraph`. Each action of an orchestrator maps
  to a step of its `SwarmGraph`, or to a stutter; those of others to a stutter.
* `Bounded` and `ApprovalEnds`, from the refinement: `Safe => []LoopBounded`,
  inductive with the fact that an iteration is left whenever the coder is still
  to run, and `Safe => ApprovalEndsRun`, since an approved run is at its edge.
* `OneEntry`: `Safe => []OneEntryPerRun`, with the additional invariant that a
  run still under way has no entry in the catalog unless it is at its last edge,
  approved.
* `MemoriesAgreeAlways`: how long cache and log are follows from the iteration
  and the place of a run in its loop (`MemoryInv`); what an abort leaves behind
  differs by one.
* `FreshUnlessLateAlways`: while no consumer has crashed, a task that has not
  been given up has at most one copy, over queue, hands and results together,
  and it is of the current iteration; a run that does not wait has none
  (`CurrentInv`). So the answer it takes is the answer to what it published.
  Consumers move copies and make none (`CopiesMove`), orchestrators touch only
  their own (`CopiesStay`, `OwnCopy`).

### SandboxProofs and ConsumerSandboxProofs

From `SandboxAssumption` (`None` is no exit code, a kill is told from exits) and
`ConsumerAssumption`.

* `SandboxSafe`: `TypeOK`, `DirectoriesRemoved`, `NothingRunsUnattended` and
  `ReportIsTrue`. `SandboxInv` says besides in which states the two containers
  are at each place of `run_backtest` (`CompilerAt`, `WorkerAt`), that only an
  exited container has an exit code (`BoxInv`), and that when a result is
  reported nothing is left that could change it (`ResultInv`).
* `ConsumerSafe`: the same for a sandbox inside a consumer that loses its
  connection, dies and restarts. Each of its steps is a step of the sandbox or
  leaves the sandbox alone.
* `ConsumerRefinement`: `ConsumerSpec => ImplementsConsumer`. `HandlerInv` says
  that the handler works on the first delivered task unless the broker took it
  back, and `StrategyInv` that how far a run got, and with which exit code, its
  strategy allows; so what `EndTask` reports is an outcome which SwarmPipeline
  lets `Execute` choose. Nothing else about the sandbox matters to the pipeline.

### CrdtMergeProofs and CrdtCopiesProofs

* `MergeOrderIrrelevant` (commutative, associative, idempotent) and
  `MergeIsLeastUpperBound`, on states that are `Compatible`: same stamp means
  same write, same uid same entry. That is what makes the CRDTs converge, and
  clocks that repeat or node ids that are shared take it away.
* `CopiesExact`: `Spec => []LogAndCounterExact`. By `CopiesInv` every state,
  copied or published, is a function of the updates it contains. For the
  counter this needs that a state with an author's entry has all of the author's
  earlier ones: then the maximum of two counts counts the union.
* `EventuallyConsistent`, under `~Skewed`, as in the run: `Convergence` and
  `LatestWriteWins`. Stamps are unique, and no register precedes a write that
  its copy has seen.

### CrdtStoreProofs

`StoreSafe`, from `StoreAssumption` (finitely many processes; `None` is no state
and no queue of messages), for any deployment, whatever node ids its visits
have: `TypeOK`, `SoleWriterExact`,
`LogCoversCounter`, `LogsKeptApart`, `CacheIsWindow`, `PromptTellsHistory`. The
parts of `StoreInv` build on each other:

* `TypeInv`: every run is at a call, and a process has a state in hand only
  where an operation has loaded one.
* `WrittenInv`: log and cache have an entry of exactly those visits that are
  past their append or push, once and under the run's own task. A uid is thus
  fresh when it is appended.
* `SoundInv`: wherever a state is (stored, in hand, on the channel), its log has
  entries of its task only, and its counter at most as many per node as its log.
  Both survive lost updates and merges (`Soundness`).
* `SoleInv`: a process alone on its task has in hand what is stored, which is
  exact.
* `CacheIsWindow` is inductive with `TypeInv`: the processes between push and
  trim, and those that died there, pay for what exceeds the window.
  `PromptTellsHistory` follows from all of these, since a coder that found no
  log reads a cache in which its entries still are.

In what order the nodes make their calls enters through one lemma,
`CallsOfVisit`.

### IngestionProofs

`IngestionSafe`, from `IngestionAssumption` (a source's rows are told apart) and
`MarksAssumption` (`None` and `Torn` are told from tables and indexes):
`TypeOK`, `IndexDescribesFiles`, `IndexNamesSource`, `IndexKeepsEntries`,
`TimeOrderKept`.

* A content hash shows the length and both ends of a table, hence all that the
  index says of its rows (`ContentTellsExtent`). So files and entries agree through
  their name, whoever wrote them and in whatever order; and a torn file has
  somebody who tore it (`FilesInv`, `IndexInv`).
* Unless two overlapped or one died writing the index, at most one process is
  registering and has loaded what is registered (`KeptInv`).
* Who alone has had a dataset in hand since opening its file is the one that
  wrote it (`HolderInv`), and enters its own source. Of what others have entered
  nothing comes back, since an index that is loaded is still the index when it is
  written, unless registrations overlap (`SourceInv`).
* What is written is in the order of time (`SourceInOrder`): multiplying all
  time stamps or none keeps their order, and `Ordered` sorts, since ranks are an
  injection of a finite set into itself, hence a permutation.

### BacktestEngineProofs

`EngineSafe`, from `MatchingAssumption` (slippage and commission are at most 1
and not negative), `EngineAssumption` (configurations have a data set, a batch
size and a stride, zero included), `PrecisionAssumption` and `ClaimedAssumption`
(the mark for claimed metrics is no measured ones): `TypeOK`, `EveryOrderOnce`,
`FirstComeFirstServed`, `FilledAtFirstChance`, `EveryTickOnceInOrder`,
`SharpeIsMeasured`, `DrawdownIsWorstLoss` and the action property `NoFreeLunch`,
for any dataset, strategy and batch size.

What a loop computes is proved by induction over its steps. `StepByStep` states
it for a set of steps (a set that has 0 and with every step the next has all up
to n), from the well-foundedness of `<`, so that no operator is passed.

* `SelectedInOrder`: what `Selected` keeps stands at the selected positions, in
  their order and each once (`Places`). `RunningTotal`: a total is the only
  function its loop defines, and grows by one element a step.
* `Matching` says with these which orders a tick fills and which it leaves.
  `MatchingInv` adds to the properties when orders were placed and filled; the
  properties alone do not say that a fill's tick is one that has been seen.
  `MatchingStep` shows that it is inductive.
* `ViewIsHistory`: `TickAt` of an index, which searches for a batch and counts
  from its offset, is that row of the history, whatever batches are empty or
  unusable.
* `LoopInv` ties both loops to the history: `index` is where the simulator is,
  also when a batch ends beyond the data, and the last tick timed is less than a
  stride away (`Strides`).
* `TradesCost`: the cash that a fill of no negative quantity costs is at least
  what the position it buys is worth at any mark between the prices of the tick,
  because slippage and commission are never negative, and a total of such fills
  costs as much (`Account`). Signals are otherwise arbitrary.

* `SumIsPlain`: four lanes that advance a block at a time have, after b blocks,
  added up the first 4b elements, and the rest follows one by one. `SharpeOf`:
  no square is negative, so a spread of zero means that no return deviates from
  the mean, and two different returns have a spread.
* `WorstLoss`: every prefix of a curve has a highest point and, since fractions
  are ordered by their cross products, every run a worst loss; relative to an
  earlier point other than the peak a loss is smaller. `Untraded`, a part of
  `MatchingInv`, is why a worker without fills measures neither gain nor loss.

### Only model-checked

* Liveness (`RunsEnd`, `EventuallySettled`, `WorkerPhaseEnds`, `WorkerEnds`),
  which under fairness is out of the prover's reach.
* The statements the six violated runs refute.

## Not modelled

The Arrow reader that the engine does not use, the example strategy, language
model clients and prompts, the frontend, images and networks: they keep no state
that others depend on. Of the data: source text is one of a few strategies,
metrics in the pipeline are three small integers, prices are integers, and the
rounding of doubles is left out. Time: deadlines may pass at any moment. Redis
keys' expiry after a day, and connection failures other than as an `Abort`, a
`Crash` or a `ConnectionLost`, are left out. No property speaks of the requests
that wait while the API's event loop is blocked by a run (`api.py:51`). Of
ingestion: null time stamps, for which `ingest` may raise after it
has written the file, and
files that two processes have written at a time and that can still be read.

## Plan

Done, the model: SwarmGraph, SwarmPipeline, Sandbox and ConsumerSandbox,
CrdtMerge, CrdtCopies and CrdtStore, OrderMatching, SimdMetrics and
BacktestEngine, Ingestion. Done, the proofs: every invariant and every action
property that a passing run checks, both refinements, and the algebra of merges.

Next, in this order:

1. An abstract worker that hands the history to a simulator in one loop, and the
   proof that `EngineSpec`, with its record batches and two loops, implements it.
2. A store whose tasks have one writer each, as an abstract specification of
   `CrdtStore` where no two runs share a task; `SoleInv` has what the refinement
   needs.
