------------------------------ MODULE SimdMetrics ------------------------------
(***************************************************************************)
(* The metric kernels of the worker (worker/include/SimdMetrics.hpp) and   *)
(* the returns they are given, over integers.                              *)
(*                                                                         *)
(* A return is a multiple of 1/Precision, rounded down.  A Sharpe ratio    *)
(* sqrt(252 * 390) * mean / stddev is kept as what it is computed from:    *)
(* the number n and the sum of the returns, and spread, the sum of the     *)
(* squared deviations from the mean times n^2.                             *)
(***************************************************************************)
EXTENDS Integers, Sequences, Loops

CONSTANT Precision
ASSUME PrecisionAssumption == Precision \in Nat \ {0}

Itself(x) == x
PlainSum(data) == Total(Itself, data)

Lanes == 4

(* sum_avx2: four lanes, added up at the end, and what is left over        *)
LaneSums(data) ==
    [k \in 1..Lanes |->
        PlainSum([b \in 1 .. Len(data) \div Lanes |-> data[Lanes * (b - 1) + k]])]

SumWithoutTail(data) == PlainSum(LaneSums(data))

Sum(data) ==
    PlainSum(LaneSums(data) \o
             SubSeq(data, Lanes * (Len(data) \div Lanes) + 1, Len(data)))

(* variance, times n^2 (n - 1)                                             *)
Spread(data, sum) ==
    Sum([i \in DOMAIN data |-> (Len(data) * data[i] - sum) * (Len(data) * data[i] - sum)])

NoSharpe == [n |-> 1, sum |-> 0, spread |-> 1]     \* 0.0

(* compute_sharpe: zero for a single return and for returns that do not    *)
(* vary                                                                    *)
ComputeSharpe(returns) ==
    LET sum    == Sum(returns)
        spread == Spread(returns, sum)
    IN  IF Len(returns) < 2 \/ spread = 0 THEN NoSharpe
        ELSE [n |-> Len(returns), sum |-> sum, spread |-> spread]

(* A loss is a fraction of a positive number.                              *)
NoLoss == [drop |-> 0, of |-> 1]
Exceeds(x, y) == x.drop * y.of > y.drop * x.of

PreviousValue(equity, j) == IF j = 1 THEN equity[1] ELSE equity[j - 1]

(* The running peak at the j-th point                                      *)
Peak(equity, j) == CHOOSE p \in {equity[i] : i \in 1..j} : \A i \in 1..j : equity[i] <= p

(* compute_max_drawdown: the largest loss against the running peak, where  *)
(* that is positive                                                        *)
MaxDrawdown(equity) ==
    LET losses == {NoLoss} \cup {[drop |-> Peak(equity, j) - equity[j], of |-> Peak(equity, j)] :
                                     j \in {k \in DOMAIN equity : Peak(equity, k) > 0}}
    IN  CHOOSE x \in losses : \A y \in losses : ~Exceeds(y, x)

(* build_returns: a return for every point that follows a positive equity  *)
BuildReturns(equity) ==
    LET after == Selected([i \in 1..Len(equity) |-> i],
                          {i \in 2..Len(equity) : equity[i - 1] > 0})
    IN  [k \in DOMAIN after |->
            ((equity[after[k]] - equity[after[k] - 1]) * Precision) \div equity[after[k] - 1]]
================================================================================
