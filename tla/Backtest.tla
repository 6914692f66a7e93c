------------------------------ MODULE Backtest ------------------------------
(***************************************************************************)
(* One run of the backtest engine: events in the order of their sort key   *)
(* move the simulated clock, each quote is offered to every open order in  *)
(* turn, and the ledger books the fills.                                   *)
(*                                                                         *)
(* Decimals are exact here: amounts of money and quantities are integers   *)
(* in a small enough unit, an average cost is a reduced fraction.  Only    *)
(* the leg the engine fills, the first, is in an order; all prices are in  *)
(* one currency.                                                           *)
(***************************************************************************)
EXTENDS Integers, Sequences, FiniteSetsExt, Functions

CONSTANTS
    Instruments,
    OrderBooks,       \* the sequences of orders a run may be given
    Quotes,           \* what the quotes may say, their times left aside
    RateNum, RateDen, \* max_participation_rate
    LastTime,         \* bound: time of the last event
    MaxDelay,         \* bound: from an event to its being available
    MaxEvents,        \* bound: events in a run
    None              \* no quote

Times == 0..LastTime

Orders == [instrument : Instruments, side : {"BUY", "SELL"}, quantity : Nat,
           limit : Nat, created : Times, expires : Times]

QuoteValues == [instrument : Instruments, bid : Nat, ask : Nat,
                bidSize : Nat, askSize : Nat, blocked : BOOLEAN]

ASSUME BacktestAssumption ==
    /\ IsFiniteSet(Instruments)
    /\ OrderBooks \subseteq Seq(Orders)
    /\ \A book \in OrderBooks :
          book # <<>> /\ \A i \in DOMAIN book : book[i].created < book[i].expires
    /\ Quotes \subseteq QuoteValues
    /\ RateNum \in Nat /\ RateDen \in Nat \ {0}
    /\ \A q \in Quotes : \A s \in {q.bidSize, q.askSize} : (s * RateNum) % RateDen = 0
    /\ LastTime \in Nat /\ MaxDelay \in Nat /\ MaxEvents \in Nat

VARIABLES
    orders,      \* order_intents: the order book of this run
    clock,       \* SimulationClock.now_utc
    latest,      \* event_time_utc of the last event, the second sort key
    events,      \* events processed
    quote,       \* the quote being offered to the orders, or None
    turn,        \* index of the order state it is offered to next
    remaining,   \* remaining_quantity of each order state
    position,    \* PortfolioLedger.positions
    avg,         \* PortfolioLedger.avg_cost
    cash,        \* PortfolioLedger.cash_by_currency
    realized,    \* PortfolioLedger.realized_pnl
    flipped      \* history: a fill turned a position into one no larger

engine == <<clock, latest, events, quote, turn>>
ledger == <<position, avg, cash, realized>>
vars == <<orders, remaining, flipped, engine, ledger>>

-----------------------------------------------------------------------------

\* Fractions <<numerator, denominator>> in lowest terms.

Zero == <<0, 1>>

Ratio(n, d) ==
    LET g == Max({k \in 1..d : n % k = 0 /\ d % k = 0}) IN <<n \div g, d \div g>>

Plus(a, b) == Ratio(a[1] * b[2] + b[1] * a[2], a[2] * b[2])

Scaled(a, k) == Ratio(a[1] * k, a[2])

Equal(a, b) == a[1] * b[2] = b[1] * a[2]

Abs(n) == IF n < 0 THEN -n ELSE n

-----------------------------------------------------------------------------

\* try_fill_leg: when quote q can fill order o of which m are left, how much
\* of it, and at which price.

\* Mutant: a quote of the moment of creation is taken.
InTimeAtCreation(o, q) == q.event >= o.created /\ q.event <= o.expires

InTime(o, q) == q.event > o.created /\ q.event <= o.expires

Price(o, q) == IF o.side = "BUY" THEN q.ask ELSE q.bid

\* Mutant: a purchase looks at the bid, a sale at the ask.
MarketableOwnSide(o, q) ==
    IF o.side = "BUY" THEN q.bid <= o.limit ELSE q.ask >= o.limit

Marketable(o, q) ==
    IF o.side = "BUY" THEN q.ask <= o.limit ELSE q.bid >= o.limit

\* Mutant: what remains of the order is no limit.
FillableUnlimited(o, q, m) ==
    ((IF o.side = "BUY" THEN q.askSize ELSE q.bidSize) * RateNum) \div RateDen

Fillable(o, q, m) ==
    LET size == IF o.side = "BUY" THEN q.askSize ELSE q.bidSize
    IN  Min({m, (size * RateNum) \div RateDen})

Executable(o, q, m) ==
    /\ m > 0
    /\ o.instrument = q.instrument
    /\ InTime(o, q)
    /\ ~q.blocked
    /\ Marketable(o, q)
    /\ Fillable(o, q, m) > 0

\* PortfolioLedger.apply_fill of n (negative for a sale) of x at price p.

SameDirection(prior, n) == prior = 0 \/ (prior > 0 <=> n > 0)

AvgAfter(prior, old, n, p) ==
    LET new == prior + n
    IN  IF SameDirection(prior, n)
        THEN LET cost == Plus(Scaled(old, Abs(prior)), <<p * Abs(n), 1>>)
             IN  Ratio(cost[1], cost[2] * Abs(new))
        ELSE IF new = 0 THEN Zero
        ELSE IF Abs(new) > Abs(prior) THEN <<p, 1>>
        ELSE old

\* Mutant: the whole fill counts as closed.
RealizedByWhole(prior, old, n, p) ==
    IF SameDirection(prior, n) THEN Zero ELSE Scaled(Plus(<<p, 1>>, Scaled(old, -1)), -n)

RealizedBy(prior, old, n, p) ==
    LET closed == Min({Abs(n), Abs(prior)})
    IN  IF SameDirection(prior, n) THEN Zero
        ELSE Scaled(Plus(<<p, 1>>, Scaled(old, -1)),
                    IF prior > 0 THEN closed ELSE -closed)

\* Mutant: an exit larger than the position leaves it flat.
ApplyFillToFlat(x, n, p) ==
    /\ cash' = cash - n * p
    /\ avg' = [avg EXCEPT ![x] = AvgAfter(position[x], avg[x], n, p)]
    /\ realized' = Plus(realized, RealizedBy(position[x], avg[x], n, p))
    /\ position' = [position EXCEPT ![x] = IF @ * (@ + n) < 0 THEN 0 ELSE @ + n]

ApplyFill(x, n, p) ==
    /\ cash' = cash - n * p
    /\ avg' = [avg EXCEPT ![x] = AvgAfter(position[x], avg[x], n, p)]
    /\ realized' = Plus(realized, RealizedBy(position[x], avg[x], n, p))
    /\ position' = [position EXCEPT ![x] = position[x] + n]

-----------------------------------------------------------------------------

Init ==
    /\ orders \in OrderBooks
    /\ clock = 0 /\ latest = 0 /\ events = 0
    /\ quote = None /\ turn = 1
    /\ remaining = [i \in DOMAIN orders |-> orders[i].quantity]
    /\ position = [x \in Instruments |-> 0]
    /\ avg = [x \in Instruments |-> Zero]
    /\ cash = 0
    /\ realized = Zero
    /\ flipped = FALSE

\* It raises for a time that has passed.
AdvanceTo(time) == time >= clock /\ clock' = time

\* The next event in the order of sort_events: later keys break the ties.
TakeEvent(event, available) ==
    /\ quote = None
    /\ events < MaxEvents
    /\ event <= available /\ available <= event + MaxDelay
    /\ available > clock \/ (available = clock /\ event >= latest)
    /\ AdvanceTo(available)
    /\ latest' = event
    /\ events' = events + 1

QuoteEvent ==
    \E event, available \in Times, q \in Quotes :
        /\ TakeEvent(event, available)
        /\ quote' = [instrument |-> q.instrument, bid |-> q.bid, ask |-> q.ask,
                     bidSize |-> q.bidSize, askSize |-> q.askSize,
                     blocked |-> q.blocked, event |-> event]
        /\ UNCHANGED <<orders, turn, remaining, flipped, ledger>>

\* A trade, a bar, a timer: the clock moves and the event is journaled.
OtherEvent ==
    /\ \E event, available \in Times : TakeEvent(event, available)
    /\ UNCHANGED <<orders, quote, turn, remaining, flipped, ledger>>

\* On to the next order state, or to the next event.
NextOrder ==
    /\ IF turn < Len(orders) THEN turn' = turn + 1 /\ UNCHANGED quote
                             ELSE turn' = 1 /\ quote' = None
    /\ UNCHANGED <<orders, clock, latest, events>>

FillOrder ==
    /\ quote # None
    /\ Executable(orders[turn], quote, remaining[turn])
    /\ LET o == orders[turn]
           m == Fillable(o, quote, remaining[turn])
           n == IF o.side = "BUY" THEN m ELSE -m
           prior == position[o.instrument]
       IN  /\ remaining' = [remaining EXCEPT ![turn] = @ - m]
           /\ ApplyFill(o.instrument, n, Price(o, quote))
           /\ flipped' = (flipped \/ (/\ prior * (prior + n) < 0
                                      /\ Abs(prior + n) <= Abs(prior)))
    /\ NextOrder

PassOrder ==
    /\ quote # None
    /\ ~Executable(orders[turn], quote, remaining[turn])
    /\ NextOrder
    /\ UNCHANGED <<remaining, flipped, ledger>>

Next == QuoteEvent \/ OtherEvent \/ FillOrder \/ PassOrder

Spec == Init /\ [][Next]_vars

-----------------------------------------------------------------------------

\* Every variable has its type; no order state owes less than nothing, the
\* average cost of a position is never negative.
TypeOK ==
    /\ orders \in OrderBooks
    /\ clock \in Times /\ latest \in Times /\ events \in 0..MaxEvents
    /\ quote = None \/ quote.event \in Times
    /\ turn \in DOMAIN orders
    /\ remaining \in [DOMAIN orders -> Nat]
    /\ position \in [Instruments -> Int]
    /\ avg \in [Instruments -> Nat \X Nat]
    /\ cash \in Int
    /\ realized \in Int \X Nat
    /\ flipped \in BOOLEAN

Filled(i) == orders[i].quantity - remaining[i]

Signed(i, n) == IF orders[i].side = "BUY" THEN n ELSE -n

\* The ledger's position in an instrument is what the orders on it have
\* bought less what they have sold: the fills the order states count and the
\* fills the portfolio booked are the same (backtest.py, fill then apply_fill).
PositionsMatchOrders ==
    \A x \in Instruments :
        position[x] =
            SumFunctionOnSet([i \in DOMAIN orders |-> Signed(i, Filled(i))],
                             {i \in DOMAIN orders : orders[i].instrument = x})

\* Realised profit is the cash earned plus what the open positions cost: no
\* sequence of partial fills, closings and re-openings gains or loses money in
\* the averages, as long as no fill turned a position into one no larger (the
\* case SwitchedPositionStartsAtFillPrice is about).
LedgerBalances ==
    ~flipped =>
        Equal(realized,
              FoldFunction(Plus, <<cash, 1>>,
                           [x \in Instruments |-> Scaled(avg[x], position[x])]))

\* Over a whole run the cash is never worse than the fills at their limits.
LimitsHonoured ==
    cash >= -SumFunction([i \in DOMAIN orders |-> Signed(i, Filled(i) * orders[i].limit)])

\* An order is filled only after the simulated clock has passed its creation,
\* so with a quote that was not known yet: the engine compares the quote's own
\* time, and quotes become available in another order than they were made.
FilledAfterCreation ==
    [][\A i \in DOMAIN orders : remaining'[i] # remaining[i] => clock > orders[i].created]_vars

\* "What exceeds the existing quantity when a position changes direction starts
\* with a new average" (portfolio.py:39): the average cost of a position whose
\* direction a fill has just switched is the price of that fill.
SwitchedPositionStartsAtFillPrice ==
    [][\A x \in Instruments :
        position[x] * position'[x] < 0 =>
            avg'[x] = <<Price(orders[turn], quote), 1>>]_vars

=============================================================================
