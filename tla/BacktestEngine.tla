---------------------------- MODULE BacktestEngine ----------------------------
(***************************************************************************)
(* The worker process: BacktestEngine::run (worker/src/BacktestEngine.cpp) *)
(* over a ColumnarTickStore (worker/src/ColumnarTickStore.cpp) and the     *)
(* OrderMatchingSimulator, which module OrderMatching describes.           *)
(*                                                                         *)
(* A strategy is external: it answers each tick with any signals, or takes *)
(* the process down.  The metrics of the equity curve are those of module  *)
(* SimdMetrics; times are not modelled, only which ticks are timed.        *)
(***************************************************************************)
EXTENDS OrderMatching, SimdMetrics

CONSTANTS Configs,   \* what a worker is started with
          Claimed    \* in place of metrics: those the strategy claims

(* A dataset is a sequence of record batches; columns: whether a batch can *)
(* be read and has the five columns.  batch, stride and noop are           *)
(* batch_size, latency_sample_stride and use_builtin_noop of EngineConfig; *)
(* signals and orders bound what the strategy does.                        *)
ASSUME EngineAssumption ==
    \A c \in Configs :
        /\ c.dataset \in Seq([columns: BOOLEAN, rows: Seq(Ticks)])
        /\ c.batch \in Nat /\ c.stride \in Nat /\ c.noop \in BOOLEAN
        /\ c.signals \subseteq Signals /\ c.orders \in 0..MaxOrders

(* A claim stands for any figures, and is told from measured ones.         *)
ASSUME ClaimedAssumption ==
    Claimed \notin [sharpe: [n: Int, sum: Int, spread: Int],
                    drawdown: [drop: Int, of: Int], gain: Int]

VARIABLES config,      \* the configuration of this worker
          phase,       \* "load", "strategy", "run", "done", "failed", "died"
          view,        \* batches_ of the tick store
          batchStart, index,   \* the two loops
          latencies    \* the indices of the ticks that were timed

engineVars == <<config, phase, view, batchStart, index, latencies>>

EngineInit ==
    /\ Init
    /\ config \in Configs
    /\ phase = "load"
    /\ view = <<>>
    /\ batchStart = 0 /\ index = 0
    /\ latencies = <<>>
-----------------------------------------------------------------------------
RowsOf(b) == Len(b.rows)
Rows(s) == Total(RowsOf, s)

Usable(b) == b.columns /\ b.rows # <<>>

EndToEnd(good) == [b \in DOMAIN good |-> [rows |-> good[b].rows,
                                          offset |-> Rows(SubSeq(good, 1, b - 1))]]

Gaps(d) == {i \in DOMAIN d : ~Usable(d[i])}

ViewsUpToAGap(d) ==
    EndToEnd(SubSeq(d, 1, IF Gaps(d) = {} THEN Len(d)
                        ELSE (CHOOSE i \in Gaps(d) : \A j \in Gaps(d) : i <= j) - 1))

(* The constructor of ColumnarTickStore: usable batches and their offsets  *)
Views(d) == EndToEnd(Selected(d, DOMAIN d \ Gaps(d)))

Size == Rows(view)

(* locate: the first batch that ends behind the index                      *)
Locate(i) ==
    CHOOSE b \in DOMAIN view :
        /\ i < view[b].offset + Len(view[b].rows)
        /\ \A c \in 1 .. b - 1 : i >= view[c].offset + Len(view[c].rows)

TickAt(i) == view[Locate(i)].rows[i - view[Locate(i)].offset + 1]

Larger(x, y)  == IF x >= y THEN x ELSE y
Smaller(x, y) == IF x <= y THEN x ELSE y

BatchAsGiven == config.batch
Batch    == Larger(1, config.batch)
BatchEnd == Smaller(batchStart + Batch, Size)

SampledWithinBatch == config.stride > 0 /\ (index - batchStart) % config.stride = 0

(* Whether the next tick is timed                                          *)
Sampled == config.stride > 0 /\ index % config.stride = 0

(* What the strategy may answer to a tick; NoOpStrategy answers nothing    *)
Answer == IF config.noop THEN {<<>>}
          ELSE UNION {[1..n -> config.signals] : n \in 0..(config.orders - seq)}

(* finalize_result: without a return the metrics are those the strategy    *)
(* claims.  gain: total_return_pct, as the difference in equity            *)
Measured ==
    LET returns == BuildReturns(curve)
    IN  IF returns = <<>> THEN Claimed
        ELSE [sharpe |-> ComputeSharpe(returns), drawdown |-> MaxDrawdown(curve),
              gain |-> Last(curve) - 2 * Capital]
-----------------------------------------------------------------------------
LoadDataset ==
    /\ phase = "load"
    /\ \/ view' = Views(config.dataset)
       \/ view' = <<>>              \* the file cannot be opened
    /\ phase' = IF view' # <<>> THEN "strategy" ELSE "failed"
    /\ UNCHANGED <<vars, config, batchStart, index, latencies>>

(* dlopen, dlsym and on_init; the built-in strategy is always there        *)
LoadStrategy ==
    /\ phase = "strategy"
    /\ phase' \in IF config.noop THEN {"run"} ELSE {"run", "failed"}
    /\ UNCHANGED <<vars, config, view, batchStart, index, latencies>>

(* One iteration of the inner loop: on_market, process_signals, on_fill    *)
ProcessTick ==
    /\ phase = "run"
    /\ index < BatchEnd
    /\ \E signals \in Answer : ProcessSignals(signals, TickAt(index))
    /\ latencies' = IF Sampled THEN Append(latencies, index) ELSE latencies
    /\ index' = index + 1
    /\ UNCHANGED <<config, phase, view, batchStart>>

(* One iteration of the outer loop: batch_start += batch                   *)
NextBatch ==
    /\ phase = "run"
    /\ batchStart < Size
    /\ index = BatchEnd
    /\ batchStart' = batchStart + Batch
    /\ index' = batchStart + Batch
    /\ UNCHANGED <<vars, config, phase, view, latencies>>

(* finalize_result, whose metrics are Measured                             *)
Finalize ==
    /\ phase = "run"
    /\ batchStart >= Size
    /\ phase' = "done"
    /\ UNCHANGED <<vars, config, view, batchStart, index, latencies>>

(* The strategy takes the process down                                     *)
Die ==
    /\ phase = "run" /\ ~config.noop
    /\ phase' = "died"
    /\ UNCHANGED <<vars, config, view, batchStart, index, latencies>>

Run == LoadDataset \/ LoadStrategy \/ ProcessTick \/ NextBatch \/ Finalize

EngineNext == Run \/ Die

(* The strategy's functions return.                                        *)
EngineSpec == /\ EngineInit
              /\ [][EngineNext]_<<vars, engineVars>>
              /\ WF_<<vars, engineVars>>(Run)
-----------------------------------------------------------------------------
(* The columns of all usable batches, end to end                           *)
History == FlattenSeq([i \in DOMAIN config.dataset |->
    IF config.dataset[i].columns THEN config.dataset[i].rows ELSE <<>>])

(* The strategy sees every usable row of the file once and in order,       *)
(* however rows are divided into record batches and into the batches of    *)
(* the engine's loop, which need not end where those do; and the first row *)
(* and every stride-th one are timed, so that the 99th percentile exists.  *)
EveryTickOnceInOrder ==
    /\ tick = SubSeq(History, 1, Len(tick))
    /\ phase = "run"  => Len(tick) = Smaller(index, Size)
    /\ phase = "done" => tick = History
    /\ phase = "done" /\ config.stride > 0 =>
           /\ Len(latencies) = (Size + config.stride - 1) \div config.stride
           /\ \A k \in DOMAIN latencies : latencies[k] = (k - 1) * config.stride

(* The Sharpe ratio is the one of all returns of the run, whatever their   *)
(* number leaves over of the lanes: measured, not claimed by the strategy, *)
(* as soon as there are two ticks and the account begins with money after  *)
(* the first; and defined, also when there is one return or none varies.   *)
SharpeIsMeasured ==
    phase = "done" /\ Size >= 2 /\ curve[1] > 0 =>
        LET returns == BuildReturns(curve)
            n    == Len(returns)
            mean == PlainSum(returns)
        IN  /\ Measured # Claimed
            /\ Measured.sharpe.spread > 0 /\ Measured.sharpe.n > 0
            /\ IF \A i, j \in DOMAIN returns : returns[i] = returns[j]
                 THEN Measured.sharpe = NoSharpe
                 ELSE /\ Measured.sharpe.sum = mean
                      /\ Measured.sharpe.spread =
                             PlainSum([i \in DOMAIN returns |->
                                 (n * returns[i] - mean) * (n * returns[i] - mean)])

(* The drawdown is the largest loss, relative to what the account was      *)
(* worth, between any two ticks of the run of an account that is never     *)
(* overdrawn; an account that does not trade neither gains nor loses.      *)
DrawdownIsWorstLoss ==
    phase = "done" /\ Measured # Claimed /\ (\A i \in DOMAIN curve : curve[i] > 0) =>
        LET Loss(i, j) == [drop |-> curve[i] - curve[j], of |-> curve[i]]
            pairs == {p \in (DOMAIN curve) \X (DOMAIN curve) : p[1] <= p[2]}
        IN  /\ \A p \in pairs : ~Exceeds(Loss(p[1], p[2]), Measured.drawdown)
            /\ \E p \in pairs : ~Exceeds(Measured.drawdown, Loss(p[1], p[2]))
            /\ fills = <<>> => Measured.gain = 0 /\ Measured.drawdown.drop = 0

(* The loop over the ticks ends for every batch size, 0 included.          *)
WorkerEnds == <>(phase \in {"done", "failed", "died"})
================================================================================
