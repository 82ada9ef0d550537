SPECIFICATION Spec
CONSTANTS
    Ticks <- MCTicks
    Signals <- MCSignals
    Scale = 10
    Slippage = 1
    Commission = 1
    Capital = 1000
    MaxTicks = 2
    MaxOrders = 1
INVARIANT LimitGuaranteesPrice
CHECK_DEADLOCK FALSE
