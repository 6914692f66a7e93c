----------------------------- MODULE Experiments -----------------------------
(***************************************************************************)
(* What the experiments share: trade statistics, the promotion verdict,    *)
(* the cost of a transaction and what a cost model must contain.  Amounts  *)
(* are integers in a small enough unit; a fraction is compared by its      *)
(* products.  The bootstrap interval and the permutation p-value of a      *)
(* scenario are reported and decide nothing, and are left out.             *)
(***************************************************************************)
EXTENDS Integers, Sequences, FiniteSetsExt, SequencesExt, InOrder

CONSTANTS
    MinProfitFactor,   \* <<n, d>>: PromotionCriteria.min_profit_factor
    MaxDayShare,       \* <<n, d>>: max_single_day_profit_share
    MaxMdd,            \* max_strategy_mdd_pct of the initial capital
    MinTrades,         \* min_sample_size
    CostRates,         \* of 1000, by component: cost_component_rates
    ImpactRate         \* of 1000: market impact, by quantity and depth

\* What validate_experiment_cost_model demands of the rates of a strategy,
\* before any experiment: deleting or zeroing a required one is refused.
CommonComponents == {"commission", "tax", "spread", "slippage", "market_impact"}

RequiredComponents(profile) ==
    CommonComponents \cup
        CASE profile = "H1" -> {"product_fees_tracking"}
          [] profile = "H2" -> {"fx", "adr_issuance_cancellation", "borrow"}
          [] profile = "H3" -> {"fx", "borrow"}

CostModelComplete(profile, values) ==
    \A c \in RequiredComponents(profile) : c \in DOMAIN values /\ values[c] > 0

ASSUME ExperimentsAssumption ==
    /\ MinProfitFactor \in Nat \X (Nat \ {0})
    /\ MaxDayShare \in Nat \X (Nat \ {0})
    /\ MaxMdd \in Nat /\ MinTrades \in Nat
    /\ CostModelComplete("H1", CostRates)

Total(pnls) == SumFunction(pnls)

Positive(n) == IF n > 0 THEN n ELSE 0

GrossProfit(pnls) == FoldSeq(LAMBDA p, sum : Positive(p) + sum, 0, pnls)
GrossLoss(pnls) == FoldSeq(LAMBDA p, sum : Positive(-p) + sum, 0, pnls)

\* compute_profit_factor: without losses it is infinite, or zero without gains.
ProfitFactorBelow(pnls, min) ==
    IF GrossLoss(pnls) = 0 THEN GrossProfit(pnls) = 0 /\ min[1] > 0
    ELSE GrossProfit(pnls) * min[2] < min[1] * GrossLoss(pnls)

\* compute_max_drawdown, of trades in the order of time.
Drawdown(pnls) ==
    FoldLeft(LAMBDA d, p : LET c == d.sum + p
                               top == Max({d.peak, c})
                           IN  [sum |-> c, peak |-> top, max |-> Max({d.max, top - c})],
             [sum |-> 0, peak |-> 0, max |-> 0], pnls).max

\* top_n_day_profit_share for one day; a day has one trade.
TopDayShareAbove(pnls, max) ==
    /\ GrossProfit(pnls) > 0
    /\ Max({Positive(p) : p \in ToSet(pnls)}) * max[2] > max[1] * GrossProfit(pnls)

\* evaluate_promotion with min_expectancy and stress_min_cumulative_pnl zero.
PromotionFails(base, stress) ==
    \/ Total(base) <= 0
    \/ ProfitFactorBelow(base, MinProfitFactor)
    \/ Total(stress) < 0
    \/ TopDayShareAbove(base, MaxDayShare)
    \/ Drawdown(base) > MaxMdd

EvaluatePromotion(eligible, base, stress) ==
    IF ~eligible \/ Len(base) < MinTrades THEN "HOLD"
    ELSE IF PromotionFails(base, stress) THEN "REJECT" ELSE "PASS"

-----------------------------------------------------------------------------

\* estimate_transaction_cost, times 2000, of n at a quote q: the rates are on
\* the mid price, the tax on sales, the half spread is paid, the impact grows
\* with the square root of the share of the depth.
TransactionCost(q, n, isSell) ==
    LET depth == Max({q.bidSize, q.askSize})
        rate == CostRates["commission"] + (IF isSell THEN CostRates["tax"] ELSE 0)
                  + ImpactRate[n, depth]
    IN  (q.bid + q.ask) * n * rate + 1000 * (q.ask - q.bid) * n

\* _round_trip_cost: both transactions, slippage and product fees.
RoundTripCost(entry, exit, n, entryIsSell) ==
    TransactionCost(entry, n, entryIsSell) + TransactionCost(exit, n, ~entryIsSell)
        + (entry.bid + entry.ask + exit.bid + exit.ask) * n
            * (CostRates["slippage"] + CostRates["product_fees_tracking"])

=============================================================================
