SPECIFICATION EngineSpec
CONSTANTS
    Ticks <- MCTicks
    Signals <- MCSignals
    Scale = 10
    Slippage = 1
    Commission = 1
    Capital = 4000
    MaxTicks = 7
    MaxOrders = 3
    Precision = 100
    Claimed = Claimed
    Configs <- MCConfigs
INVARIANTS TypeOK EveryOrderOnce FirstComeFirstServed FilledAtFirstChance
           EveryTickOnceInOrder SharpeIsMeasured DrawdownIsWorstLoss
PROPERTIES NoFreeLunch WorkerEnds
CHECK_DEADLOCK FALSE
