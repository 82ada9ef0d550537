----------------------------- MODULE OrderMatching -----------------------------
(***************************************************************************)
(* OrderMatchingSimulator (worker/src/OrderMatchingSimulator.cpp): the     *)
(* book of resting orders, the fills of each tick, and the account.        *)
(*                                                                         *)
(* Doubles are exact integers here.  Prices are in price units, fill       *)
(* prices in 1/Scale of a unit, money in 1/Scale^2 of a unit, and equity,  *)
(* which may be marked at the middle of two quotes, in half of that.       *)
(* Scale is 10000 in the code, where slippage and commission are in bps.   *)
(* Nobody checks the quantity of a signal: it may be zero or negative.     *)
(***************************************************************************)
EXTENDS Integers, Sequences, FiniteSets, SequencesExt, Loops

CONSTANTS Ticks,         \* the market: records with bid, ask and last
          Signals,       \* what a strategy may ask for
          Scale, Slippage, Commission,
          Capital,       \* initial_capital, in money
          MaxTicks,      \* bound: ticks processed
          MaxOrders      \* bound: orders placed

Sides == {"buy", "sell"}
Types == {"market", "limit"}

ASSUME MatchingAssumption ==
    /\ Ticks \subseteq [bid: Int, ask: Int, last: Int]
    /\ Signals \subseteq [side: Sides, quantity: Int, limit: Int, type: Types]
    /\ Scale \in Nat \ {0}
    /\ Slippage \in 0..Scale /\ Commission \in 0..Scale
    /\ Capital \in Int
    /\ MaxTicks \in Nat /\ MaxOrders \in Nat

VARIABLES book,      \* the resting orders
          seq,       \* order_seq_
          position, cash,
          curve,     \* equity_curve_
          tick,      \* history: the ticks processed
          fills      \* history: all fills, each with its order

vars == <<book, seq, position, cash, curve, tick, fills>>

Orders == [side: Sides, quantity: Int, limit: Int, type: Types,
            id: Nat, born: Nat]

Init ==
    /\ book = <<>>
    /\ seq = 0
    /\ position = 0 /\ cash = Capital
    /\ curve = <<>>
    /\ tick = <<>>
    /\ fills = <<>>
-----------------------------------------------------------------------------
(* An order is matched against the ask or the bid, or against the last     *)
(* price when that quote is missing.                                       *)
RefPrice(o, t) ==
    LET quote == IF o.side = "buy" THEN t.ask ELSE t.bid
    IN  IF quote <= 0 THEN t.last ELSE quote

(* Whether a tick fills an order                                           *)
Marketable(o, t) ==
    \/ o.type = "market"
    \/ o.side = "buy"  /\ RefPrice(o, t) <= o.limit
    \/ o.side = "sell" /\ RefPrice(o, t) >= o.limit

SlippageForTheTrader(side, price) ==
    IF side = "buy" THEN price * (Scale - Slippage) ELSE price * (Scale + Slippage)

(* apply_slippage                                                          *)
ApplySlippage(side, price) ==
    IF side = "buy" THEN price * (Scale + Slippage) ELSE price * (Scale - Slippage)

Abs(x) == IF x < 0 THEN -x ELSE x

(* commission_for                                                          *)
CommissionFor(notional) == Abs(notional) * Commission

Fill(o, t) ==
    LET price == ApplySlippage(o.side, RefPrice(o, t))
    IN  [order |-> o, price |-> price, at |-> Len(tick) + 1,
         commission |-> CommissionFor(price * o.quantity)]

(* What a fill does to the cash and to the position                        *)
Notional(f) == f.price * f.order.quantity * Scale
Paid(f) == IF f.order.side = "buy" THEN -(Notional(f) + f.commission)
                                   ELSE Notional(f) - f.commission
Bought(f) == IF f.order.side = "buy" THEN f.order.quantity ELSE -f.order.quantity

(* Twice the price at which the position is marked, and twice the equity   *)
Mark(t) == IF t.last > 0 THEN 2 * t.last ELSE t.bid + t.ask
Equity(c, p, mark) == 2 * c + p * mark * Scale * Scale

(* The new orders, with their queue positions (and, as history, the number *)
(* of the tick at which they were placed)                                  *)
Placed(signals) ==
    [i \in DOMAIN signals |->
        [side |-> signals[i].side, quantity |-> signals[i].quantity,
         limit |-> signals[i].limit, type |-> signals[i].type,
         id |-> seq + i - 1, born |-> Len(tick) + 1]]

NewOrdersFirst(old, new) == new \o old
Queue(old, new) == old \o new

Matched(orders, t) == {i \in DOMAIN orders : Marketable(orders[i], t)}

RemainingAll(orders, t) == Selected(orders, {i \in DOMAIN orders : orders[i].type = "limit"})
Remaining(orders, t) == Selected(orders, DOMAIN orders \ Matched(orders, t))

Filled(orders, t) ==
    Selected([i \in DOMAIN orders |-> Fill(orders[i], t)], Matched(orders, t))

ProcessWhenSignalled(signals, t) ==
    LET orders == Queue(book, Placed(signals))
        new    == Filled(orders, t)
    IN  /\ tick' = Append(tick, t)
        /\ IF signals = <<>> THEN UNCHANGED <<book, seq, cash, position, curve, fills>>
           ELSE /\ book' = Remaining(orders, t)
                /\ seq' = seq + Len(signals)
                /\ cash' = cash + Total(Paid, new)
                /\ position' = position + Total(Bought, new)
                /\ curve' = Append(curve, Equity(cash', position', Mark(t)))
                /\ fills' = fills \o new

(* process_signals                                                         *)
ProcessSignals(signals, t) ==
    LET orders == Queue(book, Placed(signals))
        new    == Filled(orders, t)
    IN  /\ book' = Remaining(orders, t)
        /\ seq' = seq + Len(signals)
        /\ cash' = cash + Total(Paid, new)
        /\ position' = position + Total(Bought, new)
        /\ curve' = Append(curve, Equity(cash', position', Mark(t)))
        /\ fills' = fills \o new
        /\ tick' = Append(tick, t)

(* A strategy may answer a tick with any signals                           *)
Answers == UNION {[1..n -> Signals] : n \in 0..(MaxOrders - seq)}

Next == /\ Len(tick) < MaxTicks
        /\ \E t \in Ticks : \E signals \in Answers : ProcessSignals(signals, t)

Spec == Init /\ [][Next]_vars
-----------------------------------------------------------------------------
(* Orders, fills and the account have their types, and there is one point  *)
(* on the equity curve for each tick.                                      *)
TypeOK ==
    /\ book \in Seq(Orders)
    /\ seq \in Nat
    /\ position \in Int /\ cash \in Int
    /\ curve \in Seq(Int) /\ Len(curve) = Len(tick)
    /\ tick \in Seq(Ticks)
    /\ \A i \in DOMAIN fills : fills[i].order \in Orders

(* Every order placed is either resting or filled, once: none is lost and  *)
(* none is filled twice, however long it rests.                            *)
EveryOrderOnce ==
    LET resting == {book[i].id : i \in DOMAIN book}
        filled  == {fills[i].order.id : i \in DOMAIN fills}
    IN  /\ resting \cap filled = {}
        /\ resting \cup filled = 0 .. seq - 1
        /\ Len(book) + Len(fills) = seq

(* Queue priority: the book is kept in order of arrival, and orders filled *)
(* by the same tick are filled in order of arrival.                        *)
FirstComeFirstServed ==
    /\ \A i, j \in DOMAIN book : i < j => book[i].id < book[j].id
    /\ \A i, j \in DOMAIN fills :
           i < j /\ fills[i].at = fills[j].at => fills[i].order.id < fills[j].order.id

(* An order is filled by the first tick that can fill it, not before and   *)
(* not later: market orders at once, limit orders when the price is right. *)
FilledAtFirstChance ==
    /\ \A i \in DOMAIN book : \A k \in book[i].born .. Len(tick) :
           ~Marketable(book[i], tick[k])
    /\ \A i \in DOMAIN fills :
           LET o == fills[i].order
           IN  /\ Marketable(o, tick[fills[i].at])
               /\ \A k \in o.born .. fills[i].at - 1 : ~Marketable(o, tick[k])

(* Trading costs money: marked anywhere between the prices at which a tick *)
(* matches sellers and buyers, quotes or the last price for those that are *)
(* missing, the account is worth no more after the tick's trades than      *)
(* before, with any mixture of new and resting orders.  Not so when one of *)
(* them has a negative quantity, which trades on the other side's terms.   *)
NoFreeLunch ==
    [][tick' # tick =>
       LET t    == Last(tick')
           sell == RefPrice([side |-> "sell"], t)
           buy  == RefPrice([side |-> "buy"], t)
       IN  /\ 0 <= sell /\ sell <= buy
           /\ \A i \in Len(fills) + 1 .. Len(fills') : fills'[i].order.quantity >= 0
           => \A mark \in 2 * sell .. 2 * buy :
                  Equity(cash', position', mark) <= Equity(cash, position, mark)]_vars

(* A limit order guarantees the price                                      *)
(* (docs/sections/section_7.html:288).                                     *)
LimitGuaranteesPrice ==
    \A i \in DOMAIN fills : fills[i].order.type = "limit" =>
        IF fills[i].order.side = "buy" THEN fills[i].price <= fills[i].order.limit * Scale
                                       ELSE fills[i].price >= fills[i].order.limit * Scale
================================================================================
