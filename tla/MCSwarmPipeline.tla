--------------------------- MODULE MCSwarmPipeline ---------------------------
(***************************************************************************)
(* Small pipelines.  The KPI limits are 1 each; a good strategy passes     *)
(* them or exceeds the latency on a busy host, a poor one fails the other  *)
(* limits, crashes, or succeeds without printing metrics.                  *)
(***************************************************************************)
EXTENDS SwarmPipeline, TLC

CONSTANTS good, poor

Measured(d, l, s) == [status |-> "success",
                      metrics |-> [drawdown |-> d, latency |-> l, sharpe |-> s]]
Unmeasured(status) == [status |-> status, metrics |-> None]

MCSources == {good, poor}
OneLimit == {1}
TwoLimits == {0, 2}
LimitOfTwo == {2}

FewBacktests == good :> {Measured(1, 1, 1), Measured(1, 2, 1)}
             @@ poor :> {Unmeasured("segfault")}

SomeBacktests == good :> {Measured(1, 1, 1), Measured(1, 2, 1)}
              @@ poor :> {Measured(2, 1, 0), Unmeasured("success")}
==============================================================================
