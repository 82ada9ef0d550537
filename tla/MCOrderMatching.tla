---------------------------- MODULE MCOrderMatching ----------------------------
EXTENDS OrderMatching

Quote(b, a, l) == [bid |-> b, ask |-> a, last |-> l]

(* a narrow and a wide market, one without last price, one without quotes  *)
MCTicks == {Quote(3, 3, 3), Quote(2, 4, 3), Quote(4, 5, 0), Quote(0, 0, 2)}

MCSignals ==
    [side: Sides, quantity: {1}, limit: {0}, type: {"market"}] \cup
    [side: Sides, quantity: {2}, limit: {3, 4}, type: {"limit"}]
================================================================================
