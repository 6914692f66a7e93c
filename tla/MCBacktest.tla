----------------------------- MODULE MCBacktest -----------------------------
(* Backtest on the orders the H1 studies build: a round trip of an entry and *)
(* an exit of the whole quantity each, and two round trips that follow one   *)
(* another in opposite directions; and on two orders that compete for the    *)
(* quotes of one instrument beside an order on another instrument.           *)
EXTENDS Backtest

CONSTANTS x1, x2

Order(x, side, n, limit, created, expires) ==
    [instrument |-> x, side |-> side, quantity |-> n, limit |-> limit,
     created |-> created, expires |-> expires]

\* entry order and exit order of _build_day_replay: the exit is created when
\* the entry expires.
RoundTrip(x, side, n, limit, start) ==
    << Order(x, side, n, limit, start, start + 1),
       Order(x, IF side = "BUY" THEN "SELL" ELSE "BUY", n, limit, start + 1, start + 2) >>

Books ==
    { RoundTrip(x1, "BUY", 3, 2, 0),
      RoundTrip(x1, "SELL", 3, 2, 0),
      RoundTrip(x1, "BUY", 3, 2, 0) \o RoundTrip(x1, "SELL", 2, 2, 2),
      << Order(x1, "BUY", 3, 2, 0, 3), Order(x1, "BUY", 1, 3, 0, 2),
         Order(x2, "SELL", 2, 1, 1, 3), Order(x1, "SELL", 3, 1, 1, 4) >> }

Quote(x, bid, ask, bidSize, askSize, blocked) ==
    [instrument |-> x, bid |-> bid, ask |-> ask, bidSize |-> bidSize,
     askSize |-> askSize, blocked |-> blocked]

SomeQuotes ==
    { Quote(x1, 1, 2, 2, 2, FALSE), Quote(x1, 2, 2, 6, 6, FALSE),
      Quote(x1, 2, 3, 6, 2, FALSE), Quote(x1, 3, 1, 2, 4, FALSE),
      Quote(x1, 2, 2, 6, 6, TRUE), Quote(x2, 1, 2, 4, 2, FALSE),
      Quote(x2, 2, 3, 0, 2, FALSE) }

=============================================================================
