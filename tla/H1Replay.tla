------------------------------ MODULE H1Replay -------------------------------
(***************************************************************************)
(* The validation of the original H1 strategy: an audit of what has been   *)
(* stored, and the replay of one round trip per day with a signal through  *)
(* the backtest engine, its costs, its statistics and its verdict.         *)
(*                                                                         *)
(* A day holds its feature and two quotes.  The moments are those of the   *)
(* day, so the quotes of one day fill no order of another.                 *)
(***************************************************************************)
EXTENDS Experiments

CONSTANTS
    ReplayDays,        \* bound: the days a replay may be given
    MaxDays,           \* bound: how many
    ReplayCutoff,      \* 15:19:30 in the moments of a day
    Quantity,          \* order_quantity
    ReplayRate,        \* <<n, d>>: max_participation_rate
    MinDays,           \* minimum_trading_days
    StoredCounts,      \* bound: counts the normalized catalog may have
    Requirements       \* required count of each record type, gate-bound ones apart

ASSUME H1ReplayAssumption ==
    /\ MaxDays \in Nat /\ Quantity \in Nat
    /\ ReplayRate \in Nat \X (Nat \ {0})
    /\ \A d \in ReplayDays : \A q \in {d.entry, d.exit} :
        {q.bid, q.ask, q.bidSize, q.askSize} \subseteq Int

VARIABLES
    replayPhase,   \* "off", "audited", "engine", "score", "done"
    held,          \* missing requirements of the audit
    days,          \* the days in the order of their dates
    position,      \* of the engine's portfolio
    cash,          \* of the engine's portfolio
    fillsOf,       \* per day, what was filled of its entry and its exit order
    trades,        \* per filled round trip: gross, cost, direction
    verdict        \* PASS, REJECT, HOLD, or NONE

replayVars == <<replayPhase, held, days, position, cash, fillsOf, trades, verdict>>

\* assess_h1_original_data_availability
MissingRequirements(counts) == {k \in DOMAIN Requirements : counts[k] < Requirements[k]}

ReplayInit ==
    /\ replayPhase = "off" /\ held = {} /\ days = <<>>
    /\ position = 0 /\ cash = 0 /\ fillsOf = <<>> /\ trades = <<>> /\ verdict = "NONE"

\* validate_stored_h1_original: a catalog that lacks something is held.
AuditStored ==
    /\ replayPhase = "off"
    /\ \E counts \in StoredCounts :
        /\ held' = MissingRequirements(counts)
        /\ IF held' = {} THEN replayPhase' = "audited" /\ UNCHANGED verdict
                         ELSE replayPhase' = "done" /\ verdict' = "HOLD"
    /\ UNCHANGED <<days, position, cash, fillsOf, trades>>

\* _validate_replay_day; the received time of a quote never precedes it.
ReplayDayValid(d) ==
    /\ d.full
    /\ d.decision < d.entry.event /\ d.entry.event <= ReplayCutoff
    /\ d.entry.received <= ReplayCutoff
    /\ d.exit.event > ReplayCutoff /\ d.exit.auction

\* Days come in any order and are sorted; the input is dealt with as a
\* sequence in the order of dates.  One invalid day stops the replay.
StartReplay ==
    /\ replayPhase = "audited"
    /\ \E n \in 1..MaxDays : \E input \in [1..n -> ReplayDays] :
        /\ days' = input
        /\ replayPhase' = IF \A i \in 1..n : ReplayDayValid(input[i]) THEN "engine" ELSE "done"
    /\ UNCHANGED <<held, position, cash, fillsOf, trades, verdict>>

-----------------------------------------------------------------------------

IsShort(d) == d.signal = "SHORT"

\* _build_day_replay and try_fill_leg: entry and exit of the whole quantity at
\* the price the quote shows on their side, each good for its own quote only.
EntryPrice(d) == IF IsShort(d) THEN d.entry.bid ELSE d.entry.ask
ExitPrice(d) == IF IsShort(d) THEN d.exit.ask ELSE d.exit.bid

FillOf(q, size) ==
    IF q.blocked THEN 0 ELSE Min({Quantity, (size * ReplayRate[1]) \div ReplayRate[2]})

EntryFill(d) ==
    IF d.entry.event > d.decision
    THEN FillOf(d.entry, IF IsShort(d) THEN d.entry.bidSize ELSE d.entry.askSize) ELSE 0
ExitFill(d) == FillOf(d.exit, IF IsShort(d) THEN d.exit.askSize ELSE d.exit.bidSize)

Sign(d) == IF IsShort(d) THEN -1 ELSE 1

\* One day's two quotes go through the engine: a day without a signal has no
\* orders.  The exit is sent whatever became of the entry.
RunEngineDay ==
    /\ replayPhase = "engine"
    /\ LET d == days[Len(fillsOf) + 1]
           entered == IF d.signal = "NONE" THEN 0 ELSE EntryFill(d)
           exited == IF d.signal = "NONE" THEN 0 ELSE ExitFill(d)
       IN  /\ fillsOf' = Append(fillsOf, [entry |-> entered, exit |-> exited])
           /\ position' = position + Sign(d) * (entered - exited)
           /\ cash' = cash + Sign(d) * (exited * ExitPrice(d) - entered * EntryPrice(d))
    /\ replayPhase' = IF Len(fillsOf') = Len(days) THEN "score" ELSE "engine"
    /\ UNCHANGED <<held, days, trades, verdict>>

\* Mutant: a round trip whose entry alone was filled counts as a trade.
CompletedByEntry(i) == days[i].signal # "NONE" /\ fillsOf[i].entry = Quantity

\* _aggregate_fill: only a round trip filled to the full quantity is a trade.
Completed(i) ==
    days[i].signal # "NONE" /\ fillsOf[i].entry = Quantity /\ fillsOf[i].exit = Quantity

Signalled == {i \in DOMAIN days : days[i].signal # "NONE"}
Unfilled == {i \in Signalled : ~Completed(i)}

TradeOf(d) ==
    [gross |-> Sign(d) * (ExitPrice(d) - EntryPrice(d)) * Quantity * 2000,
     cost |-> RoundTripCost(d.entry, d.exit, Quantity, IsShort(d))]

PnL(ts, stress) == [i \in DOMAIN ts |-> ts[i].gross - stress * ts[i].cost]

ReplayVerdict(ts) ==
    IF Len(days) < MinDays THEN "HOLD"
    ELSE IF Unfilled # {} THEN "REJECT"
    ELSE EvaluatePromotion(TRUE, PnL(ts, 1), PnL(ts, 2))

ScoreReplay ==
    /\ replayPhase = "score"
    /\ trades' = LET done == Ascending({i \in DOMAIN days : Completed(i)})
                 IN  [k \in DOMAIN done |-> TradeOf(days[done[k]])]
    /\ verdict' = ReplayVerdict(trades')
    /\ replayPhase' = "done"
    /\ UNCHANGED <<held, days, position, cash, fillsOf>>

ReplayNext == AuditStored \/ StartReplay \/ RunEngineDay \/ ScoreReplay

ReplaySpec == ReplayInit /\ [][ReplayNext]_replayVars

-----------------------------------------------------------------------------

\* A replay that passes has scored all its money: the portfolio of the engine
\* is flat and its cash is the gross profit of the trades that were counted.
\* The exit orders do not wait for the entries, so partial fills and blocked
\* quotes leave positions behind that no trade accounts for.
PassedReplayIsSettled ==
    verdict = "PASS" =>
        /\ position = 0
        /\ 2000 * cash = Total([i \in DOMAIN trades |-> trades[i].gross])
        /\ Len(trades) = Cardinality(Signalled)

=============================================================================
