--------------------------- MODULE MCBacktestEngine ---------------------------
(***************************************************************************)
(* Every market of three ticks, cut 1 + 2 in the file and 2 + 1 in the     *)
(* loop; a few files of other shapes with several batch sizes and strides; *)
(* markets of up to seven ticks, whose six returns are a block of four and *)
(* two more, for a strategy that buys at will or far beyond its means; one *)
(* that orders nothing or less than nothing; and the benchmark             *)
(* (run_benchmark).                                                        *)
(***************************************************************************)
EXTENDS BacktestEngine

Quote(b, a, l) == [bid |-> b, ask |-> a, last |-> l]
A == Quote(3, 3, 3)   \* a narrow and a wide market
B == Quote(2, 4, 3)
C == Quote(4, 5, 0)   \* no last price
D == Quote(0, 0, 2)   \* no quotes
E == Quote(0, 4, 3)   \* no bid

MCTicks == {A, B, C, D, E}
MCSignals ==
    [side: Sides, quantity: {1}, limit: {0}, type: {"market"}] \cup
    {[side |-> "buy",  quantity |-> 50, limit |-> 0, type |-> "market"],
     [side |-> "buy",  quantity |-> 2, limit |-> 3, type |-> "limit"],
     [side |-> "sell", quantity |-> 2, limit |-> 4, type |-> "limit"],
     [side |-> "sell", quantity |-> 0, limit |-> 4, type |-> "limit"],
     [side |-> "buy",  quantity |-> -2, limit |-> 3, type |-> "limit"]}

Good(rows) == [columns |-> TRUE, rows |-> rows]
Bad(rows)  == [columns |-> FALSE, rows |-> rows]

Markets == {<<Good(<<t>>), Good(<<u, v>>)>> : t, u, v \in {A, B, C, D}}

(* no rows, one tick, three ticks between unusable batches                 *)
Shapes == {<<>>, <<Good(<<>>)>>, <<Good(<<A>>)>>,
           <<Good(<<A>>), Bad(<<C>>), Good(<<>>), Good(<<E, C>>)>>}

Long == {<<Good(<<A, B, A, C, D, A, B>>)>>, <<Good(<<C, B>>), Good(<<D, A, E, A>>)>>}

Few      == {s \in MCSignals : s.quantity \in 1..2}
Reckless == {s \in MCSignals : s.type = "market"}
Odd      == {s \in MCSignals : s.quantity <= 0 \/ (s.side = "buy" /\ s.type = "limit")}

MCConfigs ==
    [dataset: Markets, batch: {2}, stride: {2}, noop: {FALSE}, signals: {Few}, orders: {3}] \cup
    [dataset: Shapes, batch: {0, 1, 2, 5}, stride: {0, 1, 2}, noop: {FALSE},
     signals: {Few}, orders: {3}] \cup
    [dataset: Long, batch: {3}, stride: {3}, noop: {FALSE}, signals: {Reckless}, orders: {2}] \cup
    [dataset: Long, batch: {3}, stride: {3}, noop: {FALSE}, signals: {Odd}, orders: {2}] \cup
    [dataset: Long, batch: {3}, stride: {0}, noop: {TRUE}, signals: {{}}, orders: {0}]
================================================================================
