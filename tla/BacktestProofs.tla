--------------------------- MODULE BacktestProofs ---------------------------
(***************************************************************************)
(* For every order book, set of quotes, participation rate and number of   *)
(* events: no order is filled beyond its quantity or before the simulated  *)
(* clock has passed its creation, the positions of the ledger are what the *)
(* orders have filled, the cash is never worse than at their limits, and   *)
(* the profit is the cash and the cost of what is held.                    *)
(***************************************************************************)
EXTENDS Backtest, Sums

\* The quote on offer has happened, and the order states go with the orders.
QuoteInv ==
    /\ orders \in OrderBooks
    /\ clock \in Times /\ latest \in Times /\ events \in 0..MaxEvents
    /\ turn \in DOMAIN orders
    /\ quote # None =>
          /\ quote.event \in Times /\ quote.event <= clock
          /\ quote.bidSize \in Nat /\ quote.askSize \in Nat
          /\ quote.bid \in Nat /\ quote.ask \in Nat

\* No order state owes less than nothing: fills never exceed the quantity.
NeverOverfilled == remaining \in [DOMAIN orders -> Nat]

BacktestInv == QuoteInv /\ NeverOverfilled

-----------------------------------------------------------------------------

LEMMA OrderFields ==
    ASSUME NEW book \in OrderBooks, NEW i \in DOMAIN book
    PROVE  /\ book \in Seq(Orders)
           /\ book[i].instrument \in Instruments /\ book[i].side \in {"BUY", "SELL"}
           /\ book[i].quantity \in Nat /\ book[i].limit \in Nat
           /\ book[i].created \in Nat
<1>1. book \in Seq(Orders)
  BY BacktestAssumption
<1>2. book[i] \in Orders
  BY <1>1
<1> QED BY <1>1, <1>2 DEF Orders, Times

\* try_fill_leg never fills more than what is left.
LEMMA FillableBounds ==
    ASSUME NEW o, NEW q, NEW m \in Nat, q.bidSize \in Nat, q.askSize \in Nat
    PROVE  Fillable(o, q, m) \in Int /\ Fillable(o, q, m) <= m
<1> DEFINE size == IF o.side = "BUY" THEN q.askSize ELSE q.bidSize
           k == (size * RateNum) \div RateDen
<1>1. k \in Int
  <2>1. size \in Nat
    OBVIOUS
  <2>2. size * RateNum \in Nat
    BY <2>1, BacktestAssumption
  <2> QED BY <2>2, BacktestAssumption
<1>2. Fillable(o, q, m) = Min({m, k})
  BY DEF Fillable
<1>3. Min({m, k}) \in {m, k} /\ Min({m, k}) <= m
  <2> HIDE DEF k
  <2>1. PICK x \in {m, k} : \A y \in {m, k} : x =< y
    BY <1>1
  <2> QED BY <2>1 DEF Min
<1> QED BY <1>1, <1>2, <1>3

-----------------------------------------------------------------------------

LEMMA BacktestInvInit == Init => BacktestInv
<1> SUFFICES ASSUME Init PROVE BacktestInv
  OBVIOUS
<1>1. orders \in OrderBooks /\ orders \in Seq(Orders) /\ orders # <<>>
  BY BacktestAssumption DEF Init
<1>2. 1 \in DOMAIN orders
  BY <1>1
<1>3. NeverOverfilled
  BY <1>1, OrderFields DEF Init, NeverOverfilled
<1>4. 0 \in Times /\ 0 \in 0..MaxEvents
  BY BacktestAssumption DEF Times
<1> QED BY <1>1, <1>2, <1>3, <1>4 DEF BacktestInv, QuoteInv, Init

\* The loop over the order states stays inside them.
LEMMA NextOrderInside ==
    ASSUME BacktestInv, NextOrder
    PROVE  QuoteInv'
<1>1. orders \in Seq(Orders) /\ turn \in 1..Len(orders)
  BY BacktestAssumption DEF BacktestInv, QuoteInv
<1>2. turn' \in DOMAIN orders
  BY <1>1 DEF NextOrder
<1>3. quote' # None => quote' = quote
  BY DEF NextOrder
<1> QED BY <1>2, <1>3 DEF BacktestInv, QuoteInv, NextOrder

\* An event moves the clock and the keys of the order, within their bounds.
ClockMoves(event, available) ==
    /\ clock' = available /\ clock' \in Times
    /\ latest' = event /\ latest' \in Times
    /\ events' \in 0..MaxEvents

LEMMA TakeEventMoves ==
    ASSUME BacktestInv, NEW event \in Times, NEW available \in Times,
           TakeEvent(event, available)
    PROVE  ClockMoves(event, available)
<1>1. events \in 0..MaxEvents /\ events < MaxEvents /\ MaxEvents \in Nat
  BY BacktestAssumption DEF BacktestInv, QuoteInv, TakeEvent
<1>2. events' \in 0..MaxEvents
  BY <1>1 DEF TakeEvent
<1> QED BY <1>2 DEF TakeEvent, AdvanceTo, ClockMoves

LEMMA BacktestInvNext == BacktestInv /\ [Next]_vars => BacktestInv'
<1> SUFFICES ASSUME BacktestInv, [Next]_vars PROVE BacktestInv'
  OBVIOUS
<1>1. CASE QuoteEvent
  <2> PICK event \in Times, available \in Times, q \in Quotes :
          /\ TakeEvent(event, available)
          /\ quote' = [instrument |-> q.instrument, bid |-> q.bid, ask |-> q.ask,
                       bidSize |-> q.bidSize, askSize |-> q.askSize,
                       blocked |-> q.blocked, event |-> event]
          /\ UNCHANGED <<orders, turn, remaining, flipped, ledger>>
    BY <1>1 DEF QuoteEvent
  <2>1. event <= available /\ ClockMoves(event, available)
    BY TakeEventMoves DEF TakeEvent
  <2>2. q.bidSize \in Nat /\ q.askSize \in Nat /\ q.bid \in Nat /\ q.ask \in Nat
    BY BacktestAssumption DEF QuoteValues
  <2> QED BY <2>1, <2>2 DEF BacktestInv, QuoteInv, NeverOverfilled, ClockMoves
<1>2. CASE OtherEvent
  <2> PICK event \in Times, available \in Times : TakeEvent(event, available)
    BY <1>2 DEF OtherEvent
  <2>1. ClockMoves(event, available) /\ quote = None
    BY TakeEventMoves DEF TakeEvent
  <2> QED BY <1>2, <2>1 DEF OtherEvent, BacktestInv, QuoteInv, NeverOverfilled, ClockMoves
<1>3. CASE FillOrder
  <2> DEFINE m == Fillable(orders[turn], quote, remaining[turn])
  <2>1. QuoteInv'
    BY <1>3, NextOrderInside DEF FillOrder
  <2>2. remaining' = [remaining EXCEPT ![turn] = @ - m] /\ orders' = orders
    BY <1>3 DEF FillOrder, NextOrder
  <2>3. m \in Int /\ m > 0 /\ m <= remaining[turn] /\ remaining[turn] \in Nat
    BY <1>3, FillableBounds DEF FillOrder, Executable, BacktestInv, QuoteInv, NeverOverfilled
  <2> HIDE DEF m
  <2>4. remaining[turn] - m \in Nat
    BY <2>3
  <2>5. remaining \in [DOMAIN orders -> Nat]
    BY DEF BacktestInv, NeverOverfilled
  <2>6. remaining' \in [DOMAIN orders -> Nat]
    BY <2>2, <2>4, <2>5
  <2>7. NeverOverfilled'
    BY <2>2, <2>6 DEF NeverOverfilled
  <2> QED BY <2>1, <2>7 DEF BacktestInv
<1>4. CASE PassOrder
  <2>1. QuoteInv'
    BY <1>4, NextOrderInside DEF PassOrder
  <2> QED BY <1>4, <2>1 DEF PassOrder, NextOrder, BacktestInv, NeverOverfilled
<1>5. CASE UNCHANGED vars
  BY <1>5 DEF vars, engine, BacktestInv, QuoteInv, NeverOverfilled
<1> QED BY <1>1, <1>2, <1>3, <1>4, <1>5 DEF Next

\* Whatever the quotes and the number of orders that share them, the fills of an
\* order never exceed its quantity (fill_model.py, fillable).
THEOREM NeverOverfilledTheorem == Spec => []NeverOverfilled
<1>1. BacktestInv => NeverOverfilled
  BY DEF BacktestInv
<1> QED BY BacktestInvInit, BacktestInvNext, <1>1, PTL DEF Spec

\* A fill finds the clock past the creation of the order, although try_fill_leg
\* never looks at the clock and quotes may become available out of order.
THEOREM FilledAfterCreationTheorem == Spec => FilledAfterCreation
<1> DEFINE Late == \A i \in DOMAIN orders :
                      remaining'[i] # remaining[i] => clock > orders[i].created
<1>1. BacktestInv /\ [Next]_vars => [Late]_vars
  <2> SUFFICES ASSUME BacktestInv, Next, NEW i \in DOMAIN orders,
                      remaining'[i] # remaining[i]
               PROVE  clock > orders[i].created
    OBVIOUS
  <2>1. FillOrder
    BY DEF Next, QuoteEvent, OtherEvent, PassOrder
  <2>2. i = turn
    BY <2>1 DEF FillOrder, BacktestInv, NeverOverfilled
  <2>3. quote.event > orders[i].created /\ quote.event <= clock
    BY <2>1, <2>2 DEF FillOrder, Executable, InTime, BacktestInv, QuoteInv
  <2>4. quote.event \in Nat /\ clock \in Nat /\ orders[i].created \in Nat
    BY <2>1, OrderFields DEF FillOrder, BacktestInv, QuoteInv, Times
  <2> QED BY <2>3, <2>4
<1> QED BY BacktestInvInit, BacktestInvNext, <1>1, PTL DEF Spec, FilledAfterCreation

-----------------------------------------------------------------------------
(***************************************************************************)
(* The ledger and the order states.  What the orders have filled is a sum  *)
(* over the orders of an instrument, or over all of them; a fill changes   *)
(* one term of it, by what the ledger books.                               *)
(***************************************************************************)

\* What each order has bought, less what it has sold, and that at the limits.
Bought == [i \in DOMAIN orders |-> Signed(i, Filled(i))]
AtLimits == [i \in DOMAIN orders |-> Signed(i, Filled(i) * orders[i].limit)]

OrdersOn(x) == {i \in DOMAIN orders : orders[i].instrument = x}

LedgerInv ==
    /\ position \in [Instruments -> Int]
    /\ cash \in Int
    /\ \A x \in Instruments : position[x] = SumFunctionOnSet(Bought, OrdersOn(x))
    /\ cash >= -SumFunctionOnSet(AtLimits, DOMAIN orders)

LEMMA BookFinite ==
    ASSUME NEW book \in OrderBooks
    PROVE  IsFiniteSet(DOMAIN book)
<1>1. book \in Seq(Orders)
  BY BacktestAssumption
<1>2. DOMAIN book = 1..Len(book) /\ Len(book) \in Nat
  BY <1>1
<1> QED BY <1>2, FS_Interval

LEMMA Terms ==
    ASSUME BacktestInv, NEW i \in DOMAIN orders
    PROVE  /\ orders[i].limit \in Nat /\ Filled(i) \in Int
           /\ Filled(i) * orders[i].limit \in Int
           /\ Bought[i] \in Int /\ AtLimits[i] \in Int
<1>1. orders[i].quantity \in Nat /\ orders[i].limit \in Nat /\ remaining[i] \in Nat
  BY OrderFields DEF BacktestInv, QuoteInv, NeverOverfilled
<1>2. Filled(i) \in Int
  BY <1>1 DEF Filled
<1>3. Filled(i) * orders[i].limit \in Int
  BY <1>1, <1>2
<1> QED BY <1>1, <1>2, <1>3 DEF Bought, AtLimits, Signed

\* A fill that leaves a smaller position, or one of the same size, on the other
\* side.
TurnsSmaller(prior, n) == prior * (prior + n) < 0 /\ Abs(prior + n) <= Abs(prior)

\* A fill: m of what was left, signed by the side, at a price within the limit.
FillsOf(m, n, p) ==
    /\ m \in Nat \ {0} /\ m <= remaining[turn]
    /\ n = IF orders[turn].side = "BUY" THEN m ELSE -m
    /\ p \in Nat
    /\ IF orders[turn].side = "BUY" THEN p <= orders[turn].limit ELSE p >= orders[turn].limit
    /\ orders' = orders
    /\ remaining' = [remaining EXCEPT ![turn] = remaining[turn] - m]
    /\ ApplyFill(orders[turn].instrument, n, p)
    /\ flipped' = (flipped \/ TurnsSmaller(position[orders[turn].instrument], n))

LEMMA FillOrderFills ==
    ASSUME BacktestInv, FillOrder
    PROVE  \E m, n, p : FillsOf(m, n, p)
<1> DEFINE o == orders[turn]
           m == Fillable(o, quote, remaining[turn])
           n == IF o.side = "BUY" THEN m ELSE -m
           p == Price(o, quote)
<1>1. /\ quote.bidSize \in Nat /\ quote.askSize \in Nat
      /\ quote.bid \in Nat /\ quote.ask \in Nat
      /\ remaining[turn] \in Nat
  BY DEF FillOrder, BacktestInv, QuoteInv, NeverOverfilled
<1>2. m \in Nat \ {0} /\ m <= remaining[turn]
  BY <1>1, FillableBounds DEF FillOrder, Executable
<1>3. p \in Nat /\ IF o.side = "BUY" THEN p <= o.limit ELSE p >= o.limit
  BY <1>1 DEF FillOrder, Executable, Marketable, Price
<1>4. remaining' = [remaining EXCEPT ![turn] = remaining[turn] - m] /\ orders' = orders
  BY DEF FillOrder, NextOrder
<1>5. /\ ApplyFill(o.instrument, n, p)
      /\ flipped' = (flipped \/ TurnsSmaller(position[o.instrument], n))
  BY DEF FillOrder, TurnsSmaller
<1> HIDE DEF m, p
<1>6. FillsOf(m, n, p)
  BY <1>2, <1>3, <1>4, <1>5 DEF FillsOf
<1> QED BY <1>6

LEMMA LedgerInvInit == Init => LedgerInv
<1> SUFFICES ASSUME Init PROVE LedgerInv
  OBVIOUS
<1>1. BacktestInv
  BY BacktestInvInit
<1>2. \A i \in DOMAIN orders : Filled(i) = 0
  BY <1>1, OrderFields DEF Init, Filled, BacktestInv, QuoteInv
<1>3. ASSUME NEW i \in DOMAIN orders PROVE Bought[i] = 0 /\ AtLimits[i] = 0
  BY <1>1, <1>2, Terms DEF Bought, AtLimits, Signed
<1>4. IsFiniteSet(DOMAIN orders)
  BY <1>1, BookFinite DEF BacktestInv, QuoteInv
<1>5. \A x \in Instruments : IsFiniteSet(OrdersOn(x)) /\ OrdersOn(x) \subseteq DOMAIN orders
  BY <1>4, FS_Subset DEF OrdersOn
<1>6. \A x \in Instruments : SumFunctionOnSet(Bought, OrdersOn(x)) = 0
  BY <1>3, <1>5, SumZero
<1>7. SumFunctionOnSet(AtLimits, DOMAIN orders) = 0
  BY <1>3, <1>4, SumZero
<1> QED BY <1>6, <1>7 DEF Init, LedgerInv

\* The fill changes the terms of its order, and no others.
LEMMA FillChangesTerms ==
    ASSUME BacktestInv, NEW m, NEW n, NEW p, FillsOf(m, n, p)
    PROVE  /\ n \in Int
           /\ Bought'[turn] = Bought[turn] + n
           /\ AtLimits'[turn] = AtLimits[turn] + n * orders[turn].limit
           /\ \A i \in DOMAIN orders :
                i # turn => Bought'[i] = Bought[i] /\ AtLimits'[i] = AtLimits[i]
<1> DEFINE q == orders[turn].quantity
           r == remaining[turn]
           l == orders[turn].limit
<1>1. turn \in DOMAIN orders /\ remaining \in [DOMAIN orders -> Nat]
  BY DEF BacktestInv, QuoteInv, NeverOverfilled
<1>2. q \in Nat /\ r \in Nat /\ l \in Nat /\ m \in Nat
      /\ orders[turn].side \in {"BUY", "SELL"}
  BY <1>1, OrderFields DEF FillsOf, BacktestInv, QuoteInv
<1>3. orders' = orders /\ remaining'[turn] = r - m
      /\ n = IF orders[turn].side = "BUY" THEN m ELSE -m
  BY <1>1 DEF FillsOf
<1>4. \A i \in DOMAIN orders : i # turn => remaining'[i] = remaining[i]
  BY <1>1 DEF FillsOf
<1>5. \A i \in DOMAIN orders : i # turn => Bought'[i] = Bought[i] /\ AtLimits'[i] = AtLimits[i]
  BY <1>3, <1>4 DEF Bought, AtLimits, Signed, Filled
<1>6. Bought[turn] = (IF orders[turn].side = "BUY" THEN q - r ELSE -(q - r))
      /\ Bought'[turn] = (IF orders[turn].side = "BUY" THEN q - (r - m) ELSE -(q - (r - m)))
  BY <1>1, <1>3 DEF Bought, Signed, Filled
<1>7. AtLimits[turn] = (IF orders[turn].side = "BUY" THEN (q - r) * l ELSE -((q - r) * l))
      /\ AtLimits'[turn] =
            (IF orders[turn].side = "BUY" THEN (q - (r - m)) * l ELSE -((q - (r - m)) * l))
  BY <1>1, <1>3 DEF AtLimits, Signed, Filled
<1> HIDE DEF q, r, l
<1>8. (q - (r - m)) * l = (q - r) * l + m * l /\ (-m) * l = -(m * l)
      /\ (q - r) * l \in Int /\ m * l \in Int
  BY <1>2
<1>9. n \in Int
  BY <1>2, <1>3
<1>10. Bought'[turn] = Bought[turn] + n
  BY <1>2, <1>3, <1>6
<1>11. AtLimits'[turn] = AtLimits[turn] + n * l
  <2>1. CASE orders[turn].side = "BUY"
    BY <1>3, <1>7, <1>8, <2>1
  <2>2. CASE orders[turn].side # "BUY"
    BY <1>3, <1>7, <1>8, <2>2
  <2> QED BY <2>1, <2>2
<1> QED BY <1>5, <1>9, <1>10, <1>11 DEF l

LEMMA LedgerInvFill ==
    ASSUME BacktestInv, LedgerInv, FillOrder
    PROVE  LedgerInv'
<1> DEFINE o == orders[turn]
<1>1. PICK m, n, p : FillsOf(m, n, p)
  BY FillOrderFills
<1>2. /\ n \in Int /\ Bought'[turn] = Bought[turn] + n
      /\ AtLimits'[turn] = AtLimits[turn] + n * o.limit
      /\ \A i \in DOMAIN orders :
            i # turn => Bought'[i] = Bought[i] /\ AtLimits'[i] = AtLimits[i]
  BY <1>1, FillChangesTerms
<1>3. turn \in DOMAIN orders /\ orders \in OrderBooks
  BY DEF BacktestInv, QuoteInv
<1>4. o.instrument \in Instruments /\ o.limit \in Nat /\ p \in Nat
  BY <1>1, <1>3, OrderFields DEF FillsOf
<1>5. orders' = orders /\ cash' = cash - n * p
      /\ position' = [position EXCEPT ![o.instrument] = position[o.instrument] + n]
  BY <1>1 DEF FillsOf, ApplyFill
<1>6. IsFiniteSet(DOMAIN orders)
      /\ \A i \in DOMAIN orders : Bought[i] \in Int /\ AtLimits[i] \in Int
  BY <1>3, BookFinite, Terms
<1>7. ASSUME NEW x \in Instruments
      PROVE  position'[x] = SumFunctionOnSet(Bought', OrdersOn(x)')
  <2>1. OrdersOn(x)' = OrdersOn(x) /\ OrdersOn(x) \subseteq DOMAIN orders
    BY <1>5 DEF OrdersOn
  <2>2. IsFiniteSet(OrdersOn(x)) /\ \A i \in OrdersOn(x) : Bought[i] \in Int
    BY <1>6, <2>1, FS_Subset
  <2>3. position[x] = SumFunctionOnSet(Bought, OrdersOn(x)) /\ position[x] \in Int
    BY DEF LedgerInv
  <2>4. CASE x = o.instrument
    <3>1. turn \in OrdersOn(x)
      BY <1>3, <2>4 DEF OrdersOn
    <3>2. \A i \in OrdersOn(x) : i # turn => Bought'[i] = Bought[i]
      BY <1>2, <2>1
    <3> DEFINE F == Bought
               H == Bought'
    <3>3. H[turn] = F[turn] + n /\ \A i \in OrdersOn(x) : i # turn => H[i] = F[i]
      BY <1>2, <3>2
    <3>4. \A i \in OrdersOn(x) : F[i] \in Int
      BY <2>2
    <3> HIDE DEF F, H
    <3>5. SumFunctionOnSet(H, OrdersOn(x)) = SumFunctionOnSet(F, OrdersOn(x)) + n
      BY <1>2, <2>2, <3>1, <3>3, <3>4, SumAdds
    <3>6. position'[x] = position[x] + n
      BY <1>4, <1>5, <2>4 DEF LedgerInv
    <3> QED BY <2>1, <2>3, <3>5, <3>6 DEF F, H
  <2>5. CASE x # o.instrument
    <3>1. turn \notin OrdersOn(x)
      BY <2>5 DEF OrdersOn
    <3> DEFINE F == Bought
               H == Bought'
    <3>2. \A i \in OrdersOn(x) : F[i] \in Int /\ H[i] = F[i]
      BY <1>2, <2>1, <2>2, <3>1
    <3> HIDE DEF F, H
    <3>3. SumFunctionOnSet(H, OrdersOn(x)) = SumFunctionOnSet(F, OrdersOn(x))
      BY <2>2, <3>2, SumSame
    <3>4. position'[x] = position[x]
      BY <1>4, <1>5, <2>5 DEF LedgerInv
    <3> QED BY <2>1, <2>3, <3>3, <3>4 DEF F, H
  <2> QED BY <2>4, <2>5
<1>8. cash' >= -SumFunctionOnSet(AtLimits', DOMAIN orders')
  <2> DEFINE F == AtLimits
             H == AtLimits'
             S == DOMAIN orders
             d == n * o.limit
  <2>1. /\ H[turn] = F[turn] + d /\ \A i \in S : i # turn => H[i] = F[i]
        /\ \A i \in S : F[i] \in Int
    BY <1>2, <1>6
  <2>2. d \in Int
    BY <1>2, <1>4
  <2>3. cash \in Int /\ cash >= -SumFunctionOnSet(F, S)
    BY DEF LedgerInv
  <2>4. n * p <= d /\ n * p \in Int
    <3> DEFINE l == o.limit
    <3>1. m \in Nat /\ l \in Nat /\ p \in Nat
      BY <1>1, <1>4 DEF FillsOf
    <3>2. CASE o.side = "BUY"
      <4>1. n = m /\ p <= l
        BY <1>1, <3>2 DEF FillsOf
      <4> HIDE DEF l
      <4>2. m * p <= m * l /\ m * p \in Int
        BY <3>1, <4>1
      <4> QED BY <4>1, <4>2 DEF l
    <3>3. CASE o.side # "BUY"
      <4>1. n = -m /\ p >= l
        BY <1>1, <3>3 DEF FillsOf
      <4> HIDE DEF l
      <4>2. m * l <= m * p /\ m * p \in Int /\ m * l \in Int
        BY <3>1, <4>1
      <4>3. (-m) * p = -(m * p) /\ (-m) * l = -(m * l)
        BY <3>1
      <4> QED BY <4>1, <4>2, <4>3 DEF l
    <3> QED BY <3>2, <3>3
  <2>5. turn \in S /\ IsFiniteSet(S)
    BY <1>3, <1>6
  <2> HIDE DEF F, H, S, d
  <2>6. SumFunctionOnSet(H, S) = SumFunctionOnSet(F, S) + d
    BY <2>1, <2>2, <2>5, SumAdds
  <2>7. SumFunctionOnSet(F, S) \in Int
    BY <2>1, <2>5, SumInt
  <2>8. cash - n * p >= -(SumFunctionOnSet(F, S) + d)
    BY <2>2, <2>3, <2>4, <2>7
  <2> QED BY <1>5, <2>6, <2>8 DEF H, S
<1>9. cash' \in Int
  BY <1>2, <1>4, <1>5 DEF LedgerInv
<1>10. position' \in [Instruments -> Int]
  <2>1. position[o.instrument] + n \in Int
    BY <1>2, <1>4 DEF LedgerInv
  <2> QED BY <1>4, <1>5, <2>1 DEF LedgerInv
<1> QED BY <1>7, <1>8, <1>9, <1>10 DEF LedgerInv

LEMMA LedgerInvNext == BacktestInv /\ LedgerInv /\ [Next]_vars => LedgerInv'
<1> SUFFICES ASSUME BacktestInv, LedgerInv, [Next]_vars PROVE LedgerInv'
  OBVIOUS
<1>1. CASE FillOrder
  BY <1>1, LedgerInvFill
<1>2. CASE UNCHANGED <<orders, remaining, position, cash>>
  BY <1>2 DEF LedgerInv, Bought, AtLimits, OrdersOn, Signed, Filled
<1>3. CASE QuoteEvent
  BY <1>2, <1>3 DEF QuoteEvent, ledger
<1>4. CASE OtherEvent
  BY <1>2, <1>4 DEF OtherEvent, ledger
<1>5. CASE PassOrder
  BY <1>2, <1>5 DEF PassOrder, NextOrder, ledger
<1>6. CASE UNCHANGED vars
  BY <1>2, <1>6 DEF vars, ledger
<1> QED BY <1>1, <1>3, <1>4, <1>5, <1>6 DEF Next

\* The portfolio books every fill that the order states count, on the side and
\* the instrument of its order, and nothing else (backtest.py, fill then
\* apply_fill), whatever the number of orders on an instrument.
THEOREM PositionsMatchOrdersTheorem == Spec => []PositionsMatchOrders
<1>1. LedgerInv => PositionsMatchOrders
  BY DEF LedgerInv, PositionsMatchOrders, Bought, OrdersOn
<1> QED BY BacktestInvInit, BacktestInvNext, LedgerInvInit, LedgerInvNext, <1>1, PTL DEF Spec

\* No sequence of fills costs more than the limits of the orders allow: a
\* purchase is made at its limit or below, a sale at its limit or above.
THEOREM LimitsHonouredTheorem == Spec => []LimitsHonoured
<1>1. LedgerInv => LimitsHonoured
  <2>1. DOMAIN AtLimits = DOMAIN orders
    BY DEF AtLimits
  <2> QED BY <2>1 DEF LedgerInv, LimitsHonoured, SumFunction, AtLimits
<1> QED BY BacktestInvInit, BacktestInvNext, LedgerInvInit, LedgerInvNext, <1>1, PTL DEF Spec

-----------------------------------------------------------------------------
(***************************************************************************)
(* Types.  Averages and profits are fractions in lowest terms: their       *)
(* denominators stay positive through every way a fill can be booked.      *)
(***************************************************************************)

Averages == Nat \X (Nat \ {0})
Profits == Int \X (Nat \ {0})

MoneyInv ==
    /\ avg \in [Instruments -> Averages]
    /\ realized \in Profits
    /\ flipped \in BOOLEAN

\* A finite, bounded set of numbers that is not empty has a greatest one.
LEMMA CommonDivisor ==
    ASSUME NEW n \in Int, NEW d \in Nat \ {0}
    PROVE  Max({k \in 1..d : n % k = 0 /\ d % k = 0}) \in {k \in 1..d : n % k = 0 /\ d % k = 0}
<1> DEFINE S == {k \in 1..d : n % k = 0 /\ d % k = 0}
           T == {d - k : k \in S}
<1>1. 1 \in S
  <2>1. n % 1 = 0 /\ d % 1 = 0
    OBVIOUS
  <2>2. 1 \in 1..d
    OBVIOUS
  <2> QED BY <2>1, <2>2
<1>2. S \subseteq 1..d
  OBVIOUS
<1> HIDE DEF S
<1>3. T \subseteq Nat /\ T # {}
  <2>1. ASSUME NEW k \in S PROVE d - k \in Nat
    BY <1>2
  <2> QED BY <1>1, <2>1
<1>4. PICK t \in T : \A u \in T : <<u, t>> \notin OpToRel(<, Nat)
  BY <1>3, NatLessThanWellFounded, WFMin
<1>5. PICK k \in S : t = d - k
  BY <1>4
<1>6. \A j \in S : k >= j
  <2> SUFFICES ASSUME NEW j \in S, k < j PROVE FALSE
    BY <1>2
  <2>1. d - j \in T /\ d - j < t /\ d - j \in Nat /\ t \in Nat
    BY <1>2, <1>3, <1>5
  <2> QED BY <1>4, <2>1 DEF OpToRel
<1>7. Max(S) \in S
  BY <1>6 DEF Max
<1> QED BY <1>7 DEF S

LEMMA RatioType ==
    ASSUME NEW n \in Int, NEW d \in Nat \ {0}
    PROVE  /\ Ratio(n, d) \in Profits
           /\ n >= 0 => Ratio(n, d) \in Averages
<1> DEFINE g == Max({k \in 1..d : n % k = 0 /\ d % k = 0})
<1>1. g \in 1..d
  BY CommonDivisor
<1>2. Ratio(n, d) = <<n \div g, d \div g>>
  BY DEF Ratio
<1> HIDE DEF g
<1>3. d \div g \in Nat /\ d \div g # 0
  BY <1>1
<1>4. n \div g \in Int /\ (n >= 0 => n \div g >= 0)
  BY <1>1
<1> QED BY <1>2, <1>3, <1>4 DEF Profits, Averages

LEMMA PlusType ==
    ASSUME NEW a \in Profits, NEW b \in Profits
    PROVE  /\ Plus(a, b) \in Profits
           /\ a \in Averages /\ b \in Averages => Plus(a, b) \in Averages
<1>1. /\ a[1] \in Int /\ a[2] \in Nat /\ a[2] # 0 /\ b[1] \in Int /\ b[2] \in Nat /\ b[2] # 0
      /\ a \in Averages => a[1] >= 0
      /\ b \in Averages => b[1] >= 0
  BY DEF Profits, Averages
<1> DEFINE n == a[1] * b[2] + b[1] * a[2]
           d == a[2] * b[2]
<1>2. n \in Int /\ d \in Nat \ {0}
  BY <1>1
<1>3. a \in Averages /\ b \in Averages => n >= 0
  <2> SUFFICES ASSUME a[1] \in Nat, b[1] \in Nat PROVE n >= 0
    BY <1>1
  <2>1. a[1] * b[2] \in Nat /\ b[1] * a[2] \in Nat
    BY <1>1
  <2> QED BY <2>1
<1>4. Plus(a, b) = Ratio(n, d)
  BY DEF Plus
<1> HIDE DEF n, d
<1> QED BY <1>2, <1>3, <1>4, RatioType

LEMMA ScaledType ==
    ASSUME NEW a \in Profits, NEW k \in Int
    PROVE  /\ Scaled(a, k) \in Profits
           /\ a \in Averages /\ k >= 0 => Scaled(a, k) \in Averages
<1>1. /\ a[1] \in Int /\ a[2] \in Nat \ {0}
      /\ a \in Averages => a[1] >= 0
  BY DEF Profits, Averages
<1>2. a[1] * k \in Int /\ (a[1] >= 0 /\ k >= 0 => a[1] * k >= 0)
  BY <1>1
<1> QED BY <1>1, <1>2, RatioType DEF Scaled

LEMMA ZeroType == Zero \in Averages /\ Zero \in Profits
<1>1. 0 \in Nat /\ 0 \in Int /\ 1 \in Nat \ {0}
  OBVIOUS
<1> QED BY <1>1 DEF Zero, Averages, Profits

LEMMA AveragesAreProfits == Averages \subseteq Profits
BY DEF Averages, Profits

LEMMA AvgAfterType ==
    ASSUME NEW prior \in Int, NEW old \in Averages, NEW n \in Int, n # 0, NEW p \in Nat
    PROVE  AvgAfter(prior, old, n, p) \in Averages
<1>1. /\ Abs(prior) \in Nat /\ Abs(n) \in Nat /\ Abs(prior + n) \in Nat
      /\ prior + n # 0 => Abs(prior + n) # 0
  BY DEF Abs
<1>2. CASE SameDirection(prior, n)
  <2> DEFINE cost == Plus(Scaled(old, Abs(prior)), <<p * Abs(n), 1>>)
  <2>1. Scaled(old, Abs(prior)) \in Averages
    BY <1>1, ScaledType, AveragesAreProfits
  <2>2. p * Abs(n) \in Nat
    BY <1>1
  <2>3. <<p * Abs(n), 1>> \in Averages
    BY <2>2 DEF Averages
  <2>4. cost \in Averages
    BY <2>1, <2>3, PlusType, AveragesAreProfits
  <2>5. prior + n # 0
    BY <1>2 DEF SameDirection
  <2>6. AvgAfter(prior, old, n, p) = Ratio(cost[1], cost[2] * Abs(prior + n))
    BY <1>2 DEF AvgAfter
  <2> HIDE DEF cost
  <2>7. cost[1] \in Nat /\ cost[2] \in Nat \ {0}
    BY <2>4 DEF Averages
  <2>8. cost[2] * Abs(prior + n) \in Nat \ {0}
    BY <1>1, <2>5, <2>7
  <2> QED BY <2>6, <2>7, <2>8, RatioType
<1>3. CASE ~SameDirection(prior, n)
  BY <1>3 DEF AvgAfter, Averages, Zero
<1> QED BY <1>2, <1>3

LEMMA RealizedByType ==
    ASSUME NEW prior \in Int, NEW old \in Averages, NEW n \in Int, NEW p \in Nat
    PROVE  RealizedBy(prior, old, n, p) \in Profits
<1> DEFINE closed == Min({Abs(n), Abs(prior)})
           gain == Plus(<<p, 1>>, Scaled(old, -1))
           k == IF prior > 0 THEN closed ELSE -closed
<1>1. Abs(n) \in Int /\ Abs(prior) \in Int
  BY DEF Abs
<1>2. closed \in Int
  <2>1. PICK x \in {Abs(n), Abs(prior)} : \A y \in {Abs(n), Abs(prior)} : x =< y
    BY <1>1
  <2>2. closed \in {Abs(n), Abs(prior)}
    BY <2>1 DEF Min
  <2> QED BY <1>1, <2>2
<1>3. gain \in Profits
  <2>1. <<p, 1>> \in Profits
    BY DEF Profits
  <2>2. Scaled(old, -1) \in Profits
    BY ScaledType, AveragesAreProfits
  <2> QED BY <2>1, <2>2, PlusType
<1>4. RealizedBy(prior, old, n, p) = IF SameDirection(prior, n) THEN Zero ELSE Scaled(gain, k)
  BY DEF RealizedBy
<1> HIDE DEF closed, gain
<1>5. k \in Int
  BY <1>2
<1> HIDE DEF k
<1>6. Scaled(gain, k) \in Profits
  BY <1>3, <1>5, ScaledType
<1> QED BY <1>4, <1>6, ZeroType

LEMMA MoneyInvInit == Init => MoneyInv
BY ZeroType DEF Init, MoneyInv

LEMMA MoneyInvNext == BacktestInv /\ LedgerInv /\ MoneyInv /\ [Next]_vars => MoneyInv'
<1> SUFFICES ASSUME BacktestInv, LedgerInv, MoneyInv, [Next]_vars PROVE MoneyInv'
  OBVIOUS
<1>1. CASE FillOrder
  <2> DEFINE x == orders[turn].instrument
  <2>1. PICK m, n, p : FillsOf(m, n, p)
    BY <1>1, FillOrderFills
  <2>2. x \in Instruments /\ p \in Nat /\ n \in Int /\ n # 0
    BY <2>1, OrderFields, FillChangesTerms DEF FillsOf, BacktestInv, QuoteInv
  <2>3. avg' = [avg EXCEPT ![x] = AvgAfter(position[x], avg[x], n, p)]
        /\ realized' = Plus(realized, RealizedBy(position[x], avg[x], n, p))
    BY <2>1 DEF FillsOf, ApplyFill
  <2>4. flipped' \in BOOLEAN
    BY <1>1 DEF FillOrder, MoneyInv
  <2> HIDE DEF x
  <2>5. position[x] \in Int /\ avg[x] \in Averages /\ realized \in Profits
    BY <2>2 DEF LedgerInv, MoneyInv
  <2>6. AvgAfter(position[x], avg[x], n, p) \in Averages
    BY <2>2, <2>5, AvgAfterType
  <2>7. RealizedBy(position[x], avg[x], n, p) \in Profits
    BY <2>2, <2>5, RealizedByType
  <2>8. realized' \in Profits
    BY <2>3, <2>5, <2>7, PlusType
  <2>9. avg' \in [Instruments -> Averages]
    BY <2>2, <2>3, <2>6 DEF MoneyInv
  <2> QED BY <2>4, <2>8, <2>9 DEF MoneyInv
<1>2. CASE UNCHANGED <<avg, realized, flipped>>
  BY <1>2 DEF MoneyInv
<1>3. CASE QuoteEvent
  BY <1>2, <1>3 DEF QuoteEvent, ledger
<1>4. CASE OtherEvent
  BY <1>2, <1>4 DEF OtherEvent, ledger
<1>5. CASE PassOrder
  BY <1>2, <1>5 DEF PassOrder, ledger
<1>6. CASE UNCHANGED vars
  BY <1>2, <1>6 DEF vars, ledger
<1> QED BY <1>1, <1>3, <1>4, <1>5, <1>6 DEF Next

\* The type invariant of the engine and of its ledger.
THEOREM TypeCorrect == Spec => []TypeOK
<1>1. BacktestInv /\ LedgerInv /\ MoneyInv => TypeOK
  <2> SUFFICES ASSUME BacktestInv, LedgerInv, MoneyInv PROVE TypeOK
    OBVIOUS
  <2>1. avg \in [Instruments -> Nat \X Nat] /\ realized \in Int \X Nat
    BY DEF MoneyInv, Averages, Profits
  <2> QED BY <2>1 DEF TypeOK, BacktestInv, QuoteInv, NeverOverfilled, LedgerInv, MoneyInv
<1> QED BY BacktestInvInit, BacktestInvNext, LedgerInvInit, LedgerInvNext,
           MoneyInvInit, MoneyInvNext, <1>1, PTL DEF Spec

-----------------------------------------------------------------------------
(***************************************************************************)
(* The averages lose no money.  Fractions are compared by their products:  *)
(* a has the value n / d.                                                  *)
(***************************************************************************)

HasValue(a, n, d) == a[1] * d = n * a[2]

LEMMA RatioValue ==
    ASSUME NEW n \in Int, NEW d \in Nat \ {0}
    PROVE  HasValue(Ratio(n, d), n, d)
<1> DEFINE g == Max({k \in 1..d : n % k = 0 /\ d % k = 0})
<1>1. g \in 1..d /\ n % g = 0 /\ d % g = 0
  BY CommonDivisor
<1>2. Ratio(n, d) = <<n \div g, d \div g>>
  BY DEF Ratio
<1> HIDE DEF g
<1>3. n = g * (n \div g) /\ d = g * (d \div g) /\ n \div g \in Int /\ d \div g \in Int
  BY <1>1
<1>4. PICK x \in Int, y \in Int : x = n \div g /\ y = d \div g /\ n = g * x /\ d = g * y
  BY <1>3
<1>5. x * (g * y) = (g * x) * y
  BY <1>1
<1> QED BY <1>2, <1>4, <1>5 DEF HasValue

LEMMA Fraction ==
    ASSUME NEW a \in Profits
    PROVE  \E n, d \in Int : a = <<n, d>> /\ d > 0 /\ d # 0 /\ d \in Nat \ {0}
BY DEF Profits

LEMMA Cancel ==
    ASSUME NEW c \in Int, c # 0, NEW x \in Int, NEW y \in Int, c * x = c * y
    PROVE  x = y
OBVIOUS

\* Both sides of an equation of products, rearranged and cancelled.
LEMMA SumOfProducts ==
    ASSUME NEW a1 \in Int, NEW a2 \in Int, NEW b1 \in Int, NEW b2 \in Int,
           NEW c1 \in Int, NEW c2 \in Int, a2 # 0, b2 # 0,
           NEW n \in Int, NEW d \in Int, NEW m \in Int, NEW e \in Int,
           HasValue(<<c1, c2>>, a1 * b2 + b1 * a2, a2 * b2),
           HasValue(<<a1, a2>>, n, d), HasValue(<<b1, b2>>, m, e)
    PROVE  HasValue(<<c1, c2>>, n * e + m * d, d * e)
<1>1. c1 * (a2 * b2) = (a1 * b2 + b1 * a2) * c2 /\ a1 * d = n * a2 /\ b1 * e = m * b2
  BY DEF HasValue
<1>2. a2 * (b2 * (c1 * (d * e))) = (c1 * (a2 * b2)) * (d * e)
  OBVIOUS
<1>3. (c1 * (a2 * b2)) * (d * e) = (a1 * b2 + b1 * a2) * c2 * (d * e)
  BY <1>1
<1>4. (a1 * b2 + b1 * a2) * c2 * (d * e) = (a1 * d) * (b2 * e * c2) + (b1 * e) * (a2 * d * c2)
  OBVIOUS
<1>5. (n * a2) * (b2 * e * c2) + (m * b2) * (a2 * d * c2) = a2 * (b2 * ((n * e + m * d) * c2))
  OBVIOUS
<1>6. a2 * (b2 * (c1 * (d * e))) = a2 * (b2 * ((n * e + m * d) * c2))
  BY <1>1, <1>2, <1>3, <1>4, <1>5
<1> PICK x \in Int, y \in Int : x = c1 * (d * e) /\ y = (n * e + m * d) * c2
  OBVIOUS
<1>7. b2 * x \in Int /\ b2 * y \in Int /\ a2 * (b2 * x) = a2 * (b2 * y)
  BY <1>6
<1>8. b2 * x = b2 * y
  BY <1>7, Cancel
<1>9. x = y
  BY <1>8, Cancel
<1> QED BY <1>9 DEF HasValue

\* The sum of a fraction of value n / d and one of value m / e.
LEMMA PlusValue ==
    ASSUME NEW a \in Profits, NEW n \in Int, NEW d \in Int, HasValue(a, n, d),
           NEW b \in Profits, NEW m \in Int, NEW e \in Int, HasValue(b, m, e)
    PROVE  HasValue(Plus(a, b), n * e + m * d, d * e)
<1> PICK a1, a2 \in Int : a = <<a1, a2>> /\ a2 > 0 /\ a2 # 0
  BY Fraction
<1> PICK b1, b2 \in Int : b = <<b1, b2>> /\ b2 > 0 /\ b2 # 0
  BY Fraction
<1> PICK c1, c2 \in Int : Plus(a, b) = <<c1, c2>>
  BY PlusType, Fraction
<1>1. a2 > 0 /\ b2 > 0 /\ a2 # 0 /\ b2 # 0
  OBVIOUS
<1>2. a1 * b2 + b1 * a2 \in Int /\ a2 * b2 \in Nat \ {0}
  BY <1>1
<1>3. HasValue(<<c1, c2>>, a1 * b2 + b1 * a2, a2 * b2)
  BY <1>2, RatioValue DEF Plus
<1> QED BY <1>1, <1>3, SumOfProducts

LEMMA ScaledProducts ==
    ASSUME NEW a1 \in Int, NEW a2 \in Int, NEW c1 \in Int, NEW c2 \in Int, a2 # 0,
           NEW n \in Int, NEW d \in Int, NEW k \in Int,
           HasValue(<<c1, c2>>, a1 * k, a2), HasValue(<<a1, a2>>, n, d)
    PROVE  HasValue(<<c1, c2>>, n * k, d)
<1>1. c1 * a2 = (a1 * k) * c2 /\ a1 * d = n * a2
  BY DEF HasValue
<1>2. a2 * (c1 * d) = (c1 * a2) * d
  OBVIOUS
<1>3. ((a1 * k) * c2) * d = (a1 * d) * (k * c2)
  OBVIOUS
<1>4. (n * a2) * (k * c2) = a2 * ((n * k) * c2)
  OBVIOUS
<1>5. a2 * (c1 * d) = a2 * ((n * k) * c2)
  BY <1>1, <1>2, <1>3, <1>4
<1> PICK x \in Int, y \in Int : x = c1 * d /\ y = (n * k) * c2
  OBVIOUS
<1>6. x = y
  BY <1>5, Cancel
<1> QED BY <1>6 DEF HasValue

LEMMA ScaledValue ==
    ASSUME NEW a \in Profits, NEW n \in Int, NEW d \in Int, HasValue(a, n, d), NEW k \in Int
    PROVE  HasValue(Scaled(a, k), n * k, d)
<1> PICK a1, a2 \in Int : a = <<a1, a2>> /\ a2 # 0 /\ a2 \in Nat \ {0}
  BY Fraction
<1> PICK c1, c2 \in Int : Scaled(a, k) = <<c1, c2>>
  BY ScaledType, Fraction
<1>1. a1 * k \in Int
  OBVIOUS
<1>2. HasValue(<<c1, c2>>, a1 * k, a2)
  BY <1>1, RatioValue DEF Scaled
<1> QED BY <1>2, ScaledProducts

LEMMA OwnValue ==
    ASSUME NEW n \in Int, NEW d \in Int
    PROVE  HasValue(<<n, d>>, n, d)
BY DEF HasValue
-----------------------------------------------------------------------------

\* The quantity whose profit a fill realises, signed as the position was.
Closed(prior, n) ==
    IF SameDirection(prior, n) THEN 0
    ELSE IF prior > 0 THEN Min({Abs(n), Abs(prior)}) ELSE -Min({Abs(n), Abs(prior)})

LEMMA ClosedIs ==
    ASSUME NEW prior \in Int, NEW n \in Int
    PROVE  /\ Closed(prior, n) \in Int
           /\ SameDirection(prior, n) => Closed(prior, n) = 0
           /\ ~SameDirection(prior, n) =>
                Closed(prior, n) = IF Abs(n) < Abs(prior) THEN -n ELSE prior
<1>1. Abs(n) \in Int /\ Abs(prior) \in Int
  BY DEF Abs
<1> PICK x \in Int, y \in Int : x = Abs(n) /\ y = Abs(prior)
  BY <1>1
<1>2. Min({x, y}) = IF x < y THEN x ELSE y
  BY DEF Min
<1>3. CASE SameDirection(prior, n)
  BY <1>3 DEF Closed
<1>4. CASE ~SameDirection(prior, n)
  <2>1. Closed(prior, n) = IF prior > 0 THEN Min({x, y}) ELSE -Min({x, y})
    BY <1>4 DEF Closed
  <2>2. (prior > 0 /\ n <= 0) \/ (prior < 0 /\ n > 0)
    BY <1>4 DEF SameDirection
  <2> QED BY <1>2, <1>4, <2>1, <2>2 DEF Abs
<1> QED BY <1>3, <1>4

LEMMA RealizedValue ==
    ASSUME NEW prior \in Int, NEW n \in Int, NEW p \in Nat,
           NEW a \in Nat, NEW b \in Nat \ {0}
    PROVE  HasValue(RealizedBy(prior, <<a, b>>, n, p), (p * b - a) * Closed(prior, n), b)
<1>1. CASE SameDirection(prior, n)
  <2>1. Closed(prior, n) = 0 /\ RealizedBy(prior, <<a, b>>, n, p) = <<0, 1>>
    BY <1>1 DEF Closed, RealizedBy, Zero
  <2> QED BY <2>1 DEF HasValue
<1>2. CASE ~SameDirection(prior, n)
  <2> PICK k \in Int : k = Closed(prior, n)
    BY ClosedIs
  <2> DEFINE minus == Scaled(<<a, b>>, -1)
             gain == Plus(<<p, 1>>, minus)
  <2>1. RealizedBy(prior, <<a, b>>, n, p) = Scaled(gain, k)
    BY <1>2 DEF RealizedBy, Closed
  <2>2. <<a, b>> \in Profits /\ <<p, 1>> \in Profits
    BY DEF Profits
  <2>3. minus \in Profits /\ HasValue(minus, a * (-1), b)
    <3>1. -1 \in Int /\ a \in Int /\ b \in Int
      OBVIOUS
    <3>2. HasValue(<<a, b>>, a, b)
      BY <3>1, OwnValue
    <3> QED BY <2>2, <3>1, <3>2, ScaledValue, ScaledType
  <2>4. a * (-1) \in Int /\ HasValue(<<p, 1>>, p, 1)
    BY OwnValue
  <2> HIDE DEF minus
  <2>5. gain \in Profits /\ HasValue(gain, p * b + (a * (-1)) * 1, 1 * b)
    BY <2>2, <2>3, <2>4, PlusValue, PlusType
  <2>6. p * b + (a * (-1)) * 1 = p * b - a /\ 1 * b = b /\ p * b - a \in Int
    OBVIOUS
  <2> HIDE DEF gain
  <2>7. HasValue(Scaled(gain, k), (p * b - a) * k, b)
    BY <2>5, <2>6, ScaledValue
  <2> QED BY <2>1, <2>7
<1> QED BY <1>1, <1>2

\* An addition to a position: the average times the new size is what the old
\* average and the price of the fill cost.
LEMMA AddedValue ==
    ASSUME NEW prior \in Int, NEW n \in Int, n # 0, NEW p \in Nat,
           NEW a \in Nat, NEW b \in Nat \ {0}, NEW aa \in Int, NEW bb \in Int,
           SameDirection(prior, n), AvgAfter(prior, <<a, b>>, n, p) = <<aa, bb>>
    PROVE  b * (aa * (prior + n)) = (a * prior + (n * p) * b) * bb
<1> PICK s \in Nat, t \in Nat, r \in Nat :
        /\ s = Abs(prior) /\ t = Abs(n) /\ r = Abs(prior + n) /\ r # 0
        /\ \/ prior = s /\ n = t /\ prior + n = r
           \/ prior = -s /\ n = -t /\ prior + n = -r
  BY DEF Abs, SameDirection
<1> DEFINE old == Scaled(<<a, b>>, s)
           cost == Plus(old, <<p * t, 1>>)
<1>1. <<a, b>> \in Profits /\ a \in Int /\ b \in Int /\ s \in Int
  BY DEF Profits
<1>2. HasValue(<<a, b>>, a, b)
  BY OwnValue
<1>3. old \in Profits /\ HasValue(old, a * s, b)
  BY <1>1, <1>2, ScaledValue, ScaledType
<1>4. p * t \in Int /\ a * s \in Int
  OBVIOUS
<1>5. <<p * t, 1>> \in Profits /\ HasValue(<<p * t, 1>>, p * t, 1)
  BY <1>4, OwnValue DEF Profits
<1> HIDE DEF old
<1>6. cost \in Profits /\ HasValue(cost, (a * s) * 1 + (p * t) * b, b * 1)
  BY <1>1, <1>3, <1>4, <1>5, PlusValue, PlusType
<1>7. <<aa, bb>> = Ratio(cost[1], cost[2] * r)
  BY DEF AvgAfter, old
<1> HIDE DEF cost
<1> PICK c1, c2 \in Int : cost = <<c1, c2>> /\ c2 # 0 /\ c2 \in Nat \ {0}
  BY <1>6, Fraction
<1>8. c2 * r \in Nat \ {0}
  OBVIOUS
<1>9. HasValue(<<aa, bb>>, c1, c2 * r)
  BY <1>7, <1>8, RatioValue
<1>10. b * (aa * r) = (a * s + (p * t) * b) * bb
  <2>1. PICK v \in Int, e \in Int : v = a * s + (p * t) * b /\ e = c2 * r
    OBVIOUS
  <2>2. HasValue(<<c1, c2>>, v, b)
    <3>1. v = (a * s) * 1 + (p * t) * b /\ b = b * 1
      BY <2>1
    <3> QED BY <1>6, <3>1
  <2>3. HasValue(<<aa, bb>>, c1, e) /\ r \in Int
    BY <1>9, <2>1
  <2>4. b * (aa * r) = v * bb
    <3> PICK x \in Int, y \in Int : x = b * (aa * r) /\ y = v * bb
      BY <1>1
    <3>1. aa * (c2 * r) = c1 * bb /\ c1 * b = v * c2
      BY <2>1, <2>2, <2>3 DEF HasValue
    <3>2. c2 * x = (aa * (c2 * r)) * b
      BY <1>1
    <3>3. (c1 * bb) * b = (c1 * b) * bb
      BY <1>1
    <3>4. (v * c2) * bb = c2 * y
      BY <1>1
    <3>5. c2 * x = c2 * y
      BY <3>1, <3>2, <3>3, <3>4
    <3>6. x = y
      BY <3>5, Cancel
    <3> QED BY <3>6
  <2> QED BY <2>1, <2>4
<1>11. CASE prior = s /\ n = t /\ prior + n = r
  BY <1>10, <1>11
<1>12. CASE prior = -s /\ n = -t /\ prior + n = -r
  <2>1. b * (aa * (-r)) = -(b * (aa * r)) /\ a * (-s) = -(a * s) /\ ((-t) * p) * b = -((p * t) * b)
    OBVIOUS
  <2>2. (-(a * s) + -((p * t) * b)) * bb = -((a * s + (p * t) * b) * bb)
    OBVIOUS
  <2> QED BY <1>10, <1>12, <2>1, <2>2
<1> QED BY <1>11, <1>12

\* What holds of the averages before and after a fill: the two sides, as products.
SameValue(n, d, m, e) == n * e = m * d

Invested(K, money, sum) == K * money + sum

CostsAddUp(a, b, aa, bb, prior, n, p, k) ==
    (p * b - a) * k * bb = b * aa * (prior + n) - a * bb * prior - b * bb * (n * p)

\* What a fill adds to the profit and to the cost of the position is what it
\* adds to the cash, unless it leaves a smaller position on the other side.
LEMMA FillBalances ==
    ASSUME NEW prior \in Int, NEW n \in Int, n # 0, NEW p \in Nat,
           NEW a \in Nat, NEW b \in Nat \ {0}, NEW aa \in Int, NEW bb \in Int,
           AvgAfter(prior, <<a, b>>, n, p) = <<aa, bb>>,
           ~TurnsSmaller(prior, n)
    PROVE  CostsAddUp(a, b, aa, bb, prior, n, p, Closed(prior, n))
<1> PICK k \in Int : k = Closed(prior, n)
  BY ClosedIs
<1> SUFFICES (p * b - a) * k * bb = b * aa * (prior + n) - a * bb * prior - b * bb * (n * p)
  BY DEF CostsAddUp
<1>1. CASE SameDirection(prior, n)
  <2>1. k = 0
    BY <1>1, ClosedIs
  <2>2. b * (aa * (prior + n)) = (a * prior + (n * p) * b) * bb
    BY <1>1, AddedValue
  <2>3. (a * prior + (n * p) * b) * bb = a * bb * prior + b * bb * (n * p)
    OBVIOUS
  <2>4. b * (aa * (prior + n)) = b * aa * (prior + n)
    OBVIOUS
  <2>5. (p * b - a) * 0 * bb = 0
    OBVIOUS
  <2> QED BY <2>1, <2>2, <2>3, <2>4, <2>5
<1>2. CASE ~SameDirection(prior, n)
  <2>1. (prior > 0 /\ n < 0) \/ (prior < 0 /\ n > 0)
    BY <1>2 DEF SameDirection
  <2>2. k = IF Abs(n) < Abs(prior) THEN -n ELSE prior
    BY <1>2, ClosedIs
  <2>3. CASE prior + n = 0
    <3>1. aa = 0 /\ bb = 1
      BY <1>2, <2>3 DEF AvgAfter, Zero
    <3>2. k = prior /\ n = -prior
      BY <2>1, <2>2, <2>3 DEF Abs
    <3>3. (p * b - a) * prior * 1 = b * 0 * 0 - a * 1 * prior - b * 1 * ((-prior) * p)
      OBVIOUS
    <3> QED BY <2>3, <3>1, <3>2, <3>3
  <2>4. CASE prior + n # 0 /\ Abs(prior + n) > Abs(prior)
    <3>1. aa = p /\ bb = 1
      BY <1>2, <2>4 DEF AvgAfter
    <3>2. k = prior
      BY <2>1, <2>2, <2>4 DEF Abs
    <3>3. (p * b - a) * prior * 1 = b * p * (prior + n) - a * 1 * prior - b * 1 * (n * p)
      OBVIOUS
    <3> QED BY <3>1, <3>2, <3>3
  <2>5. CASE prior + n # 0 /\ ~(Abs(prior + n) > Abs(prior))
    <3>1. aa = a /\ bb = b
      BY <1>2, <2>5 DEF AvgAfter
    <3>2. ~(prior * (prior + n) < 0)
      BY <2>5 DEF Abs, TurnsSmaller
    <3>3. (prior > 0 /\ prior + n > 0) \/ (prior < 0 /\ prior + n < 0)
      BY <2>1, <2>5, <3>2
    <3>4. k = -n
      BY <2>1, <2>2, <3>3 DEF Abs
    <3>5. (p * b - a) * (-n) * b = b * a * (prior + n) - a * b * prior - b * b * (n * p)
      OBVIOUS
    <3> QED BY <3>1, <3>4, <3>5
  <2> QED BY <2>3, <2>4, <2>5
<1> QED BY <1>1, <1>2

\* The balance after a fill, over the common denominator with the new average.
LEMMA BalanceKept ==
    ASSUME NEW r1 \in Int, NEW r2 \in Int, r2 # 0, NEW rr1 \in Int, NEW rr2 \in Int,
           NEW K \in Int, NEW money \in Int, NEW sum \in Int,
           NEW a \in Int, NEW b \in Int, NEW aa \in Int, NEW bb \in Int,
           NEW prior \in Int, NEW n \in Int, NEW p \in Int, NEW k \in Int,
           NEW c \in Int, c = Invested(K, money, sum), SameValue(r1, r2, c, K),
           NEW m \in Int, m = r1 * b + ((p * b - a) * k) * r2,
           NEW e \in Int, e = r2 * b, SameValue(rr1, rr2, m, e),
           CostsAddUp(a, b, aa, bb, prior, n, p, k),
           NEW D \in Int, D = K * b * bb,
           NEW z \in Int, z = D * (money - n * p) + (sum * (b * bb)
                                  + K * (b * aa * (prior + n) - a * bb * prior))
    PROVE  SameValue(rr1, rr2, z, D)
<1>a. /\ r1 * K = r2 * (K * money + sum)
      /\ rr1 * (r2 * b) = (r1 * b + ((p * b - a) * k) * r2) * rr2
      /\ (p * b - a) * k * bb = b * aa * (prior + n) - a * bb * prior - b * bb * (n * p)
  BY DEF SameValue, CostsAddUp, Invested
<1> DEFINE X == (p * b - a) * k
           L == rr1 * (K * b * bb)
           N == K * (b * aa * (prior + n) - a * bb * prior)
           M == rr2 * ((K * b * bb) * (money - n * p) + (sum * (b * bb) + N))
<1>1. X \in Int /\ L \in Int /\ M \in Int /\ N \in Int
  OBVIOUS
<1>2. r2 * L = (rr1 * (r2 * b)) * (K * bb)
  OBVIOUS
<1>3. (rr1 * (r2 * b)) * (K * bb) = (r1 * b + X * r2) * rr2 * (K * bb)
  BY <1>a
<1>4. (r1 * b + X * r2) * rr2 * (K * bb) = (r1 * K) * (b * bb * rr2) + r2 * rr2 * K * (X * bb)
  <2> HIDE DEF X
  <2> QED BY <1>1
<1>5. (r1 * K) * (b * bb * rr2) = r2 * (K * money + sum) * (b * bb * rr2)
  BY <1>a
<1>6. X * bb = b * aa * (prior + n) - a * bb * prior - b * bb * (n * p)
  BY <1>a
<1>7. r2 * rr2 * K * (X * bb) = r2 * rr2 * (N - K * (b * bb * (n * p)))
  BY <1>6
<1>8. r2 * M = r2 * (K * money + sum) * (b * bb * rr2) + r2 * rr2 * (N - K * (b * bb * (n * p)))
  <2> HIDE DEF N
  <2> QED BY <1>1
<1>9. r2 * L = r2 * M
  BY <1>2, <1>3, <1>4, <1>5, <1>7, <1>8
<1> HIDE DEF L, M, N, X
<1>10. L = M
  BY <1>1, <1>9, Cancel
<1>11. M = z * rr2
  BY DEF M, N
<1> QED BY <1>10, <1>11 DEF L, SameValue
-----------------------------------------------------------------------------

LEMMA ReducedValue ==
    ASSUME NEW a \in Profits, NEW n \in Int, NEW d \in Int, NEW k \in Int, k # 0,
           NEW m \in Int, NEW e \in Int, m = n * k, e = d * k, HasValue(a, m, e)
    PROVE  HasValue(a, n, d)
<1> PICK a1, a2 \in Int : a = <<a1, a2>>
  BY Fraction
<1> PICK x, y \in Int : x = a1 * d /\ y = n * a2
  OBVIOUS
<1>1. a1 * (d * k) = (n * k) * a2
  BY DEF HasValue
<1>2. k * x = a1 * (d * k) /\ k * y = (n * k) * a2
  OBVIOUS
<1>3. x = y
  BY <1>1, <1>2, Cancel
<1> QED BY <1>3 DEF HasValue

\* The fold of Plus over fractions, each of a value over K.
LEMMA FoldValue ==
    ASSUME NEW S, IsFiniteSet(S), NEW T, \A x \in S : T[x] \in Profits, NEW base \in Profits,
           NEW K \in Nat \ {0}, NEW c \in Int, HasValue(base, c, K),
           NEW V, \A x \in S : V[x] \in Int /\ HasValue(T[x], V[x], K)
    PROVE  /\ FoldFunctionOnSet(Plus, base, T, S) \in Profits
           /\ HasValue(FoldFunctionOnSet(Plus, base, T, S), c + SumFunctionOnSet(V, S), K)
<1> DEFINE step(g, s) == IF s = {} THEN base ELSE Plus(T[Pick(s)], g[s \ {Pick(s)}])
           fold(g) == g = [s \in SUBSET S |-> step(g, s)]
           f == CHOOSE g : fold(g)
           plus == [x \in Profits \X Profits |-> Plus(x[1], x[2])]
<1>1. \E g : fold(g)
  <2>1. plus \in [Profits \X Profits -> Profits]
    BY PlusType
  <2>2. \A x, y \in Profits : plus[<<x, y>>] = Plus(x, y)
    OBVIOUS
  <2> HIDE DEF plus
  <2>3. PICK g : IsFold(plus, base, Profits, T, S, g)
    BY <2>1, FoldExists
  <2>4. ASSUME NEW s \in SUBSET S PROVE g[s] = step(g, s)
    <3>1. g[s] = StepOf(plus, base, T, g, s)
      BY <2>3 DEF IsFold
    <3>2. s # {} => T[Pick(s)] \in Profits /\ g[s \ {Pick(s)}] \in Profits
      BY <2>3, PickIsThere DEF IsFold
    <3> QED BY <2>2, <3>1, <3>2 DEF StepOf
  <2> HIDE DEF step
  <2> QED BY <2>3, <2>4 DEF IsFold
<1>2. fold(f)
  BY <1>1
<1>3. FoldFunctionOnSet(Plus, base, T, S) = f[S]
  BY DEF FoldFunctionOnSet, MapThenFoldSet, Pick
<1> HIDE DEF f
<1>4. \A s \in SUBSET S : f[s] = step(f, s)
  <2> HIDE DEF step
  <2> QED BY <1>2
<1> DEFINE good(s) == f[s] \in Profits /\ HasValue(f[s], c + SumFunctionOnSet(V, s), K)
           B == {s \in SUBSET S : ~good(s)}
<1>5. B = {}
  <2> SUFFICES ASSUME B # {} PROVE FALSE
    OBVIOUS
  <2>1. PICK s \in B : \A u \in SUBSET s : u # s => u \notin B
    <3>1. B \in SUBSET SUBSET S
      OBVIOUS
    <3> HIDE DEF B
    <3> QED BY <3>1, SmallestSubset
  <2>2. s \in SUBSET S /\ ~good(s) /\ IsFiniteSet(s)
    BY FS_Subset
  <2>3. s # {}
    <3> SUFFICES ASSUME s = {} PROVE good(s)
      BY <2>2
    <3>1. SumFunctionOnSet(V, {}) = 0
      BY SumZero, FS_EmptySet
    <3>2. f[s] = base
      BY <1>4, <2>2
    <3>3. c + 0 = c
      OBVIOUS
    <3> QED BY <3>1, <3>2, <3>3
  <2> DEFINE x == Pick(s)
             u == s \ {x}
  <2>4. x \in s /\ x \in S /\ u \in SUBSET s /\ u # s /\ u \in SUBSET S /\ IsFiniteSet(u)
    BY <2>2, <2>3, PickIsThere, FS_Subset
  <2>5. f[s] = Plus(T[x], f[u])
    BY <1>4, <2>2, <2>3
  <2>6. good(u)
    BY <2>1, <2>4
  <2> HIDE DEF B, x
  <2>7. SumFunctionOnSet(V, s) = V[x] + SumFunctionOnSet(V, u)
    BY <2>2, <2>4, SumWithout
  <2>8. SumFunctionOnSet(V, u) \in Int
    BY <2>4, SumInt
  <2> HIDE DEF u
  <2> PICK v \in Int, w \in Int : v = V[x] /\ w = c + SumFunctionOnSet(V, u)
    BY <2>4, <2>8
  <2>9. f[u] \in Profits /\ HasValue(f[u], w, K) /\ T[x] \in Profits /\ HasValue(T[x], v, K)
    BY <2>4, <2>6
  <2>10. K \in Int /\ K # 0
    OBVIOUS
  <2>11. f[s] \in Profits /\ HasValue(f[s], v * K + w * K, K * K)
    BY <2>5, <2>9, <2>10, PlusValue, PlusType
  <2>12. v * K + w * K = (v + w) * K /\ v + w \in Int /\ K * K \in Int /\ v * K + w * K \in Int
    OBVIOUS
  <2>13. HasValue(f[s], v + w, K)
    BY <2>10, <2>11, <2>12, ReducedValue
  <2>14. v + w = c + SumFunctionOnSet(V, s)
    BY <2>7, <2>8
  <2> QED BY <2>2, <2>11, <2>13, <2>14
<1> QED BY <1>3, <1>5

\* The invariant: over a common denominator K of all the averages, V says what
\* each position costs, and the profit is the cash and those costs together.
Balanced(K, V, a, pos, money, r) ==
    /\ \A x \in Instruments : HasValue(<<a[x][1] * pos[x], a[x][2]>>, V[x], K)
    /\ HasValue(r, K * money + SumFunctionOnSet(V, Instruments), K)

InBalance(a, pos, money, r) ==
    \E K \in Nat \ {0} : \E V \in [Instruments -> Int] : Balanced(K, V, a, pos, money, r)

BalanceInv == ~flipped => InBalance(avg, position, cash, realized)

LEMMA BalanceInvInit == Init => BalanceInv
<1> SUFFICES ASSUME Init PROVE BalanceInv
  OBVIOUS
<1> DEFINE V == [x \in Instruments |-> 0]
<1>1. V \in [Instruments -> Int] /\ \A x \in Instruments : V[x] = 0
  OBVIOUS
<1>2. IsFiniteSet(Instruments)
  BY BacktestAssumption
<1> HIDE DEF V
<1>3. SumFunctionOnSet(V, Instruments) = 0
  BY <1>1, <1>2, SumZero
<1>4. 1 * 0 + 0 = 0 /\ 0 * 0 = 0
  OBVIOUS
<1>5. HasValue(realized, 1 * cash + SumFunctionOnSet(V, Instruments), 1)
  BY <1>3, <1>4 DEF Init, Zero, HasValue
<1>6. \A x \in Instruments : HasValue(<<avg[x][1] * position[x], avg[x][2]>>, V[x], 1)
  BY <1>1 DEF Init, Zero, HasValue
<1>7. Balanced(1, V, avg, position, cash, realized)
  BY <1>5, <1>6 DEF Balanced
<1> QED BY <1>1, <1>7 DEF BalanceInv, InBalance

\* The terms over another denominator, and one of them changed.
Rebased(S, V, t, x, q, W) ==
    W[x] = V[x] * t + q /\ \A y \in S : y # x => W[y] = V[y] * t

LEMMA SumRebased ==
    ASSUME NEW S, IsFiniteSet(S), NEW V, \A y \in S : V[y] \in Int, NEW t \in Int,
           NEW x \in S, NEW q \in Int, NEW W, Rebased(S, V, t, x, q, W)
    PROVE  SumFunctionOnSet(W, S) = SumFunctionOnSet(V, S) * t + q
<1> DEFINE U == [y \in S |-> V[y] * t]
<1>1. \A y \in S : U[y] = V[y] * t
  OBVIOUS
<1>2. ASSUME NEW y \in S PROVE U[y] \in Int
  <2> PICK v \in Int : v = V[y]
    OBVIOUS
  <2> QED BY <1>1
<1>3. W[x] = U[x] + q /\ \A y \in S : y # x => W[y] = U[y]
  BY <1>1 DEF Rebased
<1> HIDE DEF U
<1>4. SumFunctionOnSet(U, S) = SumFunctionOnSet(V, S) * t
  BY <1>1, SumScaled
<1>5. SumFunctionOnSet(W, S) = SumFunctionOnSet(U, S) + q
  BY <1>2, <1>3, SumAdds
<1> QED BY <1>4, <1>5

BooksFill(a, pos, r, money, x, n, p, a2, pos2, r2, money2) ==
    /\ a2 = [a EXCEPT ![x] = AvgAfter(pos[x], a[x], n, p)]
    /\ pos2 = [pos EXCEPT ![x] = pos[x] + n]
    /\ r2 = Plus(r, RealizedBy(pos[x], a[x], n, p))
    /\ money2 = money - n * p

\* What a fill does to the ledger keeps it in balance.
LEMMA BalancedFill ==
    ASSUME NEW K \in Nat \ {0}, NEW V \in [Instruments -> Int],
           NEW a \in [Instruments -> Averages], NEW pos \in [Instruments -> Int],
           NEW money \in Int, NEW r \in Profits,
           Balanced(K, V, a, pos, money, r),
           NEW x \in Instruments, NEW n \in Int, n # 0, NEW p \in Nat,
           ~TurnsSmaller(pos[x], n),
           NEW a2, NEW pos2, NEW r2, NEW money2,
           BooksFill(a, pos, r, money, x, n, p, a2, pos2, r2, money2)
    PROVE  InBalance(a2, pos2, money2, r2)
<1>a. /\ a2 = [a EXCEPT ![x] = AvgAfter(pos[x], a[x], n, p)]
      /\ pos2 = [pos EXCEPT ![x] = pos[x] + n]
      /\ r2 = Plus(r, RealizedBy(pos[x], a[x], n, p))
      /\ money2 = money - n * p
  BY DEF BooksFill
<1> PICK prior \in Int : prior = pos[x]
  OBVIOUS
<1> PICK ax \in Nat, bx \in Nat \ {0} : a[x] = <<ax, bx>>
  <2>1. a[x] \in Averages
    OBVIOUS
  <2> QED BY <2>1 DEF Averages
<1> PICK ay \in Nat, by \in Nat \ {0} : AvgAfter(prior, <<ax, bx>>, n, p) = <<ay, by>>
  <2>1. <<ax, bx>> \in Averages
    BY DEF Averages
  <2>2. AvgAfter(prior, <<ax, bx>>, n, p) \in Averages
    BY <2>1, AvgAfterType
  <2> QED BY <2>2 DEF Averages
<1> PICK k \in Int : k = Closed(prior, n)
  BY ClosedIs
<1> PICK sum \in Int : sum = SumFunctionOnSet(V, Instruments)
  BY BacktestAssumption, SumInt
<1> DEFINE new == prior + n
           d == K * (bx * ay * new - ax * by * prior)
           L == K * bx * by
           W == [y \in Instruments |-> IF y = x THEN K * bx * ay * new ELSE V[y] * (bx * by)]
<1>1. ax \in Int /\ bx \in Int /\ bx # 0 /\ ay \in Int /\ by \in Int /\ by # 0
      /\ K \in Int /\ p \in Int
  OBVIOUS
<1>2. bx * by \in Nat \ {0}
  BY <1>1
<1>3. L \in Nat \ {0}
  <2> PICK m \in Nat \ {0} : m = bx * by
    BY <1>2
  <2>1. K * m \in Nat \ {0} /\ K * m = L
    BY <1>1
  <2> QED BY <2>1
<1>4. K * bx * ay * new \in Int /\ d \in Int
  BY <1>1
<1>5. \A y \in Instruments : V[y] * (bx * by) \in Int
  <2> SUFFICES ASSUME NEW v \in Int PROVE v * (bx * by) \in Int
    OBVIOUS
  <2> QED BY <1>1
<1>6. W \in [Instruments -> Int]
  <2> HIDE DEF new
  <2> QED BY <1>4, <1>5
<1>7. V[x] * bx = ax * prior * K
  <2>1. HasValue(<<ax * prior, bx>>, V[x], K)
    BY DEF Balanced
  <2> QED BY <2>1 DEF HasValue
<1>8. V[x] * (bx * by) = K * ax * by * prior
  <2> PICK v \in Int : v = V[x]
    OBVIOUS
  <2>1. v * (bx * by) = (v * bx) * by
    BY <1>1
  <2>2. (ax * prior * K) * by = K * ax * by * prior
    BY <1>1
  <2> QED BY <1>7, <2>1, <2>2
<1>9. SumFunctionOnSet(W, Instruments) = sum * (bx * by) + d
  <2>1. IsFiniteSet(Instruments) /\ \A y \in Instruments : V[y] \in Int
    BY BacktestAssumption
  <2> PICK q \in Int : q = d
    BY <1>4
  <2> PICK t \in Int : t = bx * by
    BY <1>1
  <2>2. \A y \in Instruments : y # x => W[y] = V[y] * t
    OBVIOUS
  <2>3. W[x] = V[x] * t + q
    <3>1. W[x] = K * bx * ay * new
      OBVIOUS
    <3>2. K * bx * ay * new = K * ax * by * prior + d
      BY <1>1
    <3> HIDE DEF W, d
    <3> QED BY <1>8, <3>1, <3>2
  <2> HIDE DEF W, d
  <2>4. SumFunctionOnSet(W, Instruments) = SumFunctionOnSet(V, Instruments) * t + q
    <3>1. Rebased(Instruments, V, t, x, q, W)
      BY <2>2, <2>3 DEF Rebased
    <3> QED BY <2>1, <3>1, SumRebased
  <2> QED BY <2>4
<1>10. HasValue(r2, L * (money - n * p) + SumFunctionOnSet(W, Instruments), L)
  <2> PICK r11, r12 \in Int : r = <<r11, r12>> /\ r12 # 0
    BY Fraction
  <2> DEFINE gain == RealizedBy(prior, <<ax, bx>>, n, p)
  <2>1. gain \in Profits /\ HasValue(gain, (p * bx - ax) * k, bx)
    <3>1. <<ax, bx>> \in Averages
      BY DEF Averages
    <3> QED BY <3>1, RealizedByType, RealizedValue
  <2> HIDE DEF gain
  <2>2. r2 = Plus(r, gain)
    BY <1>a DEF gain
  <2>3. HasValue(r, r11, r12)
    BY OwnValue
  <2>4. (p * bx - ax) * k \in Int
    BY <1>1
  <2>5. r2 \in Profits /\ HasValue(r2, r11 * bx + ((p * bx - ax) * k) * r12, r12 * bx)
    BY <1>1, <2>1, <2>2, <2>3, <2>4, PlusValue, PlusType
  <2> PICK r21, r22 \in Int : r2 = <<r21, r22>>
    BY <2>5, Fraction
  <2>6. CostsAddUp(ax, bx, ay, by, prior, n, p, k)
    <3>1. ~TurnsSmaller(prior, n)
      OBVIOUS
    <3>2. CostsAddUp(ax, bx, ay, by, prior, n, p, Closed(prior, n))
      BY <1>1, <3>1, FillBalances
    <3> QED BY <3>2
  <2> PICK c \in Int : c = Invested(K, money, sum)
    BY <1>1 DEF Invested
  <2> PICK m \in Int : m = r11 * bx + ((p * bx - ax) * k) * r12
    BY <1>1, <2>4
  <2> PICK e \in Int : e = r12 * bx
    BY <1>1
  <2> PICK D \in Int : D = K * bx * by
    BY <1>1
  <2> PICK z \in Int : z = D * (money - n * p) + (sum * (bx * by)
                               + K * (bx * ay * (prior + n) - ax * by * prior))
    BY <1>1
  <2>7. SameValue(r11, r12, c, K)
    BY DEF Balanced, Invested, HasValue, SameValue
  <2>8. SameValue(r21, r22, m, e)
    BY <2>5 DEF HasValue, SameValue
  <2>9. SameValue(r21, r22, z, D)
    BY <1>1, <2>6, <2>7, <2>8, BalanceKept
  <2>10. D = L /\ z = L * (money - n * p) + SumFunctionOnSet(W, Instruments)
    BY <1>9
  <2> HIDE DEF L, W
  <2>11. HasValue(r2, z, D)
    BY <2>9 DEF HasValue, SameValue
  <2> QED BY <2>10, <2>11
<1>11. ASSUME NEW y \in Instruments
       PROVE  HasValue(<<a2[y][1] * pos2[y], a2[y][2]>>, W[y], L)
  <2>1. CASE y = x
    <3>1. a2[y] = <<ay, by>> /\ pos2[y] = new /\ W[y] = K * bx * ay * new
      BY <1>a, <2>1
    <3>2. (ay * new) * (K * bx * by) = (K * bx * ay * new) * by
      BY <1>1
    <3> QED BY <3>1, <3>2 DEF HasValue
  <2>2. CASE y # x
    <3>1. a2[y] = a[y] /\ pos2[y] = pos[y] /\ W[y] = V[y] * (bx * by)
      BY <1>a, <2>2
    <3> PICK e \in Int, f \in Int, g \in Int, v \in Int :
            e = a[y][1] /\ f = a[y][2] /\ g = pos[y] /\ v = V[y]
      <4>1. a[y] \in Averages
        OBVIOUS
      <4>2. a[y][1] \in Int /\ a[y][2] \in Int
        BY <4>1 DEF Averages
      <4> QED BY <4>2
    <3>2. (e * g) * K = v * f
      BY DEF Balanced, HasValue
    <3>3. (e * g) * (K * bx * by) = ((e * g) * K) * (bx * by)
      BY <1>1
    <3>4. (v * f) * (bx * by) = (v * (bx * by)) * f
      BY <1>1
    <3>5. (e * g) * L = (v * (bx * by)) * f
      BY <3>2, <3>3, <3>4
    <3> QED BY <3>1, <3>5 DEF HasValue
  <2> QED BY <2>1, <2>2
<1> HIDE DEF W, L
<1>12. Balanced(L, W, a2, pos2, money - n * p, r2)
  BY <1>10, <1>11 DEF Balanced
<1> QED BY <1>a, <1>3, <1>6, <1>12 DEF InBalance

LEMMA BalanceInvNext ==
    BacktestInv /\ LedgerInv /\ MoneyInv /\ BalanceInv /\ [Next]_vars => BalanceInv'
<1> SUFFICES ASSUME BacktestInv, LedgerInv, MoneyInv, BalanceInv, [Next]_vars PROVE BalanceInv'
  OBVIOUS
<1>1. CASE FillOrder
  <2> SUFFICES ASSUME ~flipped' PROVE InBalance(avg', position', cash', realized')
    BY DEF BalanceInv, InBalance, Balanced
  <2> PICK x \in Instruments : x = orders[turn].instrument
    BY OrderFields DEF BacktestInv, QuoteInv
  <2> PICK m, n, p : FillsOf(m, n, p)
    BY <1>1, FillOrderFills
  <2>1. ~flipped /\ ~TurnsSmaller(position[x], n)
    BY DEF FillsOf
  <2>2. p \in Nat /\ n \in Int /\ n # 0
    BY OrderFields, FillChangesTerms DEF FillsOf, BacktestInv, QuoteInv
  <2>3. /\ avg' = [avg EXCEPT ![x] = AvgAfter(position[x], avg[x], n, p)]
        /\ position' = [position EXCEPT ![x] = position[x] + n]
        /\ realized' = Plus(realized, RealizedBy(position[x], avg[x], n, p))
        /\ cash' = cash - n * p
    BY DEF FillsOf, ApplyFill
  <2>4. InBalance(avg, position, cash, realized)
    BY <2>1 DEF BalanceInv
  <2>5. /\ avg \in [Instruments -> Averages] /\ position \in [Instruments -> Int]
        /\ cash \in Int /\ realized \in Profits
    BY DEF MoneyInv, LedgerInv
  <2> PICK a, a2 : a = avg /\ a2 = avg'
    OBVIOUS
  <2> PICK pos, pos2 : pos = position /\ pos2 = position'
    OBVIOUS
  <2> PICK r, r2 : r = realized /\ r2 = realized'
    OBVIOUS
  <2> PICK money, money2 : money = cash /\ money2 = cash'
    OBVIOUS
  <2>6. BooksFill(a, pos, r, money, x, n, p, a2, pos2, r2, money2)
    BY <2>3 DEF BooksFill
  <2>7. PICK K \in Nat \ {0}, V \in [Instruments -> Int] : Balanced(K, V, a, pos, money, r)
    BY <2>4 DEF InBalance
  <2>8. a \in [Instruments -> Averages] /\ pos \in [Instruments -> Int]
        /\ money \in Int /\ r \in Profits /\ ~TurnsSmaller(pos[x], n)
    BY <2>1, <2>5
  <2>9. InBalance(a2, pos2, money2, r2)
    BY <2>2, <2>6, <2>7, <2>8, BalancedFill
  <2> QED BY <2>9
<1>2. CASE UNCHANGED <<flipped, avg, position, cash, realized>>
  BY <1>2 DEF BalanceInv, InBalance, Balanced
<1>3. CASE QuoteEvent
  BY <1>2, <1>3 DEF QuoteEvent, ledger
<1>4. CASE OtherEvent
  BY <1>2, <1>4 DEF OtherEvent, ledger
<1>5. CASE PassOrder
  BY <1>2, <1>5 DEF PassOrder, ledger
<1>6. CASE UNCHANGED vars
  BY <1>2, <1>6 DEF vars, ledger
<1> QED BY <1>1, <1>3, <1>4, <1>5, <1>6 DEF Next

\* A ledger in balance is one whose profit is the cash and the cost of what is
\* held: the fold of LedgerBalances has the value over K that the profit has.
LEMMA BalanceShows == MoneyInv /\ LedgerInv /\ BalanceInv => LedgerBalances
<1> SUFFICES ASSUME MoneyInv, LedgerInv, BalanceInv, ~flipped PROVE LedgerBalances
  BY DEF LedgerBalances
<1> PICK K \in Nat \ {0}, V \in [Instruments -> Int] :
        Balanced(K, V, avg, position, cash, realized)
  BY DEF BalanceInv, InBalance
<1> DEFINE T == [x \in Instruments |-> Scaled(avg[x], position[x])]
           held == FoldFunctionOnSet(Plus, <<cash, 1>>, T, Instruments)
<1>1. ASSUME NEW x \in Instruments
      PROVE  T[x] \in Profits /\ V[x] \in Int /\ HasValue(T[x], V[x], K)
  <2> PICK a1 \in Int, a2 \in Nat \ {0} : avg[x] = <<a1, a2>>
    <3>1. avg[x] \in Averages
      BY DEF MoneyInv
    <3> QED BY <3>1 DEF Averages
  <2> PICK q \in Int : q = position[x]
    BY DEF LedgerInv
  <2>1. <<a1, a2>> \in Profits /\ a1 * q \in Int
    BY DEF Profits
  <2>2. T[x] = Scaled(<<a1, a2>>, q) /\ T[x] \in Profits
    BY <2>1, ScaledType
  <2>3. T[x] = Ratio(a1 * q, a2)
    BY <2>2 DEF Scaled
  <2> HIDE DEF T
  <2> PICK t1, t2 \in Int : T[x] = <<t1, t2>>
    BY <2>2, Fraction
  <2>4. HasValue(<<t1, t2>>, a1 * q, a2)
    BY <2>1, <2>3, RatioValue
  <2>5. HasValue(<<a1 * q, a2>>, V[x], K)
    BY DEF Balanced
  <2> PICK v \in Int : v = V[x]
    OBVIOUS
  <2> PICK z, y \in Int : z = t1 * K /\ y = v * t2
    OBVIOUS
  <2>6. t1 * a2 = (a1 * q) * t2 /\ (a1 * q) * K = v * a2
    BY <2>4, <2>5 DEF HasValue
  <2>7. a2 * z = (t1 * a2) * K
    OBVIOUS
  <2>8. ((a1 * q) * t2) * K = ((a1 * q) * K) * t2
    OBVIOUS
  <2>9. (v * a2) * t2 = a2 * y
    OBVIOUS
  <2>10. a2 * z = a2 * y
    BY <2>6, <2>7, <2>8, <2>9
  <2>11. z = y
    <3>1. a2 \in Int /\ a2 # 0
      OBVIOUS
    <3> QED BY <2>10, <3>1, Cancel
  <2> QED BY <2>2, <2>11 DEF HasValue
<1>2. cash \in Int /\ <<cash, 1>> \in Profits
  BY DEF LedgerInv, Profits
<1> PICK c \in Int : c = K * cash
  BY <1>2
<1>3. HasValue(<<cash, 1>>, c, K)
  BY <1>2 DEF HasValue
<1> HIDE DEF T
<1>4. IsFiniteSet(Instruments)
  BY BacktestAssumption
<1>5. held \in Profits /\ HasValue(held, c + SumFunctionOnSet(V, Instruments), K)
  BY <1>1, <1>2, <1>3, <1>4, FoldValue
<1>6. HasValue(realized, c + SumFunctionOnSet(V, Instruments), K)
  BY DEF Balanced
<1> HIDE DEF held
<1> PICK w \in Int : w = c + SumFunctionOnSet(V, Instruments)
  <2>1. SumFunctionOnSet(V, Instruments) \in Int
    BY <1>4, SumInt
  <2> QED BY <2>1
<1> PICK r1, r2 \in Int : realized = <<r1, r2>>
  BY Fraction DEF MoneyInv
<1> PICK h1, h2 \in Int : held = <<h1, h2>>
  BY <1>5, Fraction
<1>7. r1 * K = w * r2 /\ h1 * K = w * h2
  BY <1>5, <1>6 DEF HasValue
<1> PICK z, y \in Int : z = r1 * h2 /\ y = h1 * r2
  OBVIOUS
<1>8. K * z = (r1 * K) * h2 /\ K * y = (h1 * K) * r2
  OBVIOUS
<1>9. (w * r2) * h2 = (w * h2) * r2
  OBVIOUS
<1>10. K * z = K * y
  BY <1>7, <1>8, <1>9
<1>11. z = y
  BY <1>10, Cancel
<1>12. Equal(realized, held)
  BY <1>11 DEF Equal
<1>13. FoldFunction(Plus, <<cash, 1>>, T) = held
  BY DEF FoldFunction, held, T
<1> QED BY <1>12, <1>13 DEF LedgerBalances, T

\* No sequence of partial fills, closings and re-openings makes or loses money
\* in the averages (portfolio.py, apply_fill), on any number of instruments,
\* until a fill leaves a position on the other side that is no larger.
THEOREM LedgerBalancesTheorem == Spec => []LedgerBalances
BY BacktestInvInit, BacktestInvNext, LedgerInvInit, LedgerInvNext, MoneyInvInit, MoneyInvNext,
   BalanceInvInit, BalanceInvNext, BalanceShows, PTL DEF Spec

=============================================================================
