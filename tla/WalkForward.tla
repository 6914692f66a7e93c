----------------------------- MODULE WalkForward -----------------------------
(***************************************************************************)
(* The walk-forward study of H1 on daily data: the latest stored bars and  *)
(* the fund snapshots of their dates give a direction for the next bar,    *)
(* the engine trades its open and its close, one fold after another, and   *)
(* the trades of all folds together are scored.  The study never promotes. *)
(*                                                                         *)
(* Every candidate has quotes and orders of its own in the replay, hundreds*)
(* of moments from those of another: what the engine does with one is      *)
(* written as its fill.  Bars are counted from 1.                          *)
(***************************************************************************)
EXTENDS Experiments

CONSTANTS
    Catalogs,        \* bound: [bars : Seq(bar), funds : Seq(snapshot)] stored
    TradingDays,     \* config.trading_days
    AdvBars,         \* 20 bars of turnover
    TrainDays, ValidationDays, TestDays,  \* h1.split_*_days
    KappaRate, ProxyBand,   \* <<n, d>>: kappa and neutral_band
    ProxyQuantity    \* order_quantity

\* configs/base.yaml moves the test window by as many days as it has.
ASSUME WalkForwardAssumption ==
    /\ {TrainDays, ValidationDays, TestDays, AdvBars, ProxyQuantity, TradingDays} \subseteq Nat \ {0}
    /\ \A c \in Catalogs : Len(c.bars) \in Nat
    /\ AdvBars > 1
    /\ TestDays <= ValidationDays
    /\ TrainDays + ValidationDays + TestDays <= TradingDays

VARIABLES
    wfPhase,      \* "off", "features", "folds", "promote", "done", "failed"
    bars,         \* the selected bars in the order of dates
    funds,        \* the snapshots of their dates
    candidates,   \* [date, direction, bar] for every feature that is not neutral
    folds,        \* executed folds: train and test windows
    allTrades,    \* the trades of these folds, one after another
    research      \* verdict of the study, or "NONE"

wfVars == <<wfPhase, bars, funds, candidates, folds, allTrades, research>>

WalkForwardInit ==
    /\ wfPhase = "off" /\ bars = <<>> /\ funds = <<>>
    /\ candidates = <<>> /\ folds = <<>> /\ allTrades = <<>> /\ research = "NONE"

-----------------------------------------------------------------------------

\* load_latest_krx_daily_bars: all bars in the order of dates, the last ones,
\* an error when they are few or two have one date.
ByDate(stored) == SortSeq(stored, LAMBDA a, b : a.date < b.date)

LatestBars(stored) ==
    SubSeq(ByDate(stored), Len(stored) - TradingDays + 1, Len(stored))

BarsGood(stored) ==
    /\ Len(stored) >= TradingDays
    /\ IsInjective([i \in 1..TradingDays |-> LatestBars(stored)[i].date])

\* run_h1_daily_proxy_walk_forward up to its splits.
LoadCatalog ==
    /\ wfPhase = "off"
    /\ \E c \in Catalogs :
        LET selected == LatestBars(c.bars)
            dated == SelectSeq(c.funds, LAMBDA f : \E b \in ToSet(selected) : b.date = f.date)
        IN  IF BarsGood(c.bars) /\ dated # <<>>
            THEN bars' = selected /\ funds' = dated /\ wfPhase' = "features"
            ELSE wfPhase' = "failed" /\ UNCHANGED <<bars, funds>>
    /\ UNCHANGED <<candidates, folds, allTrades, research>>

\* build_krx_daily_proxy_feature: the inputs all lie before the signal date by
\* their place in the bars, and were received before the replay by its clock.
FundsOn(date) == SelectSeq(funds, LAMBDA f : f.date = date)

FeatureGood(i) ==
    /\ \A k \in (i - AdvBars + 1)..i : bars[k].turnover > 0
    /\ bars[i - 1].close > 0 /\ bars[i].close > 0
    /\ LET on == FundsOn(bars[i].date)
       IN  /\ IsInjective([k \in DOMAIN on |-> on[k].id])
           /\ \A k \in DOMAIN on : on[k].listed > 0

\* kappa beta (beta - 1) notional times the day's return, over the mean turnover.
DailyPressure(i) ==
    << KappaRate[1] * AdvBars * (bars[i].close - bars[i - 1].close)
         * FoldSeq(LAMBDA f, sum : f.beta * (f.beta - 1) * f.listed + sum, 0, FundsOn(bars[i].date)),
       KappaRate[2] * bars[i - 1].close
         * FoldSeq(LAMBDA b, sum : b.turnover + sum, 0, SubSeq(bars, i - AdvBars + 1, i)) >>

WithinBand(p) ==
    LET size == IF p[1] < 0 THEN -p[1] ELSE p[1] IN size * ProxyBand[2] <= ProxyBand[1] * p[2]

\* Bars whose date has snapshots, the last bar excepted, signal for the next.
BasisIndices == {i \in AdvBars..(Len(bars) - 1) : FundsOn(bars[i].date) # <<>>}

\* _build_candidates; a feature that cannot be built ends the study.
BuildCandidates ==
    /\ wfPhase = "features"
    /\ LET trading == Ascending({i \in BasisIndices : ~WithinBand(DailyPressure(i))})
       IN  IF \A i \in BasisIndices : FeatureGood(i)
           THEN /\ candidates' = [k \in DOMAIN trading |->
                        [date |-> bars[trading[k] + 1].date, bar |-> bars[trading[k] + 1],
                         long |-> DailyPressure(trading[k])[1] > 0]]
                /\ wfPhase' = "folds"
           ELSE wfPhase' = "failed" /\ UNCHANGED candidates
    /\ UNCHANGED <<bars, funds, folds, allTrades, research>>

-----------------------------------------------------------------------------

\* Mutant: the test window ends with the first day after it.
SplitWithNextDay(n) ==
    LET trained == TrainDays + (n - 1) * ValidationDays
    IN  [train |-> 1..trained, test |-> (trained + 1)..(trained + TestDays + 1)]

\* walk_forward_splits: fold n trains on all bars from the first and tests on
\* those just after.
Split(n) ==
    LET trained == TrainDays + (n - 1) * ValidationDays
    IN  [train |-> 1..trained, test |-> (trained + 1)..(trained + TestDays)]

Folds == {n \in 1..Len(bars) : TrainDays + (n - 1) * ValidationDays + TestDays <= Len(bars)}

DatesOf(indices) == {bars[i].date : i \in indices \cap DOMAIN bars}

\* _build_trade_replay and try_fill_leg with a participation of one: no more
\* is filled than the volume, a bar without any counts as a depth of one.
Filled(bar) == Min({ProxyQuantity, Max({bar.volume, 1})})

\* _execute_fold: a partial fill is reckoned as the whole quantity; the costs
\* are those of a quote without a spread.
TradeOfCandidate(c) ==
    LET quote(price) == [bid |-> price, ask |-> price,
                         bidSize |-> Max({c.bar.volume, ProxyQuantity}),
                         askSize |-> Max({c.bar.volume, ProxyQuantity})]
        move == c.bar.close - c.bar.open
    IN  [date |-> c.date,
         gross |-> (IF c.long THEN move ELSE -move) * ProxyQuantity * 2000,
         cost |-> TransactionCost(quote(c.bar.open), ProxyQuantity, ~c.long)
                    + TransactionCost(quote(c.bar.close), ProxyQuantity, c.long),
         filled |-> Filled(c.bar)]

ExecuteFold ==
    /\ wfPhase = "folds"
    /\ LET n == Len(folds) + 1
           tested == PartAt(candidates, {k \in DOMAIN candidates :
                                            candidates[k].date \in DatesOf(Split(n).test)})
       IN  IF n \notin Folds THEN wfPhase' = "promote" /\ UNCHANGED <<folds, allTrades>>
           ELSE /\ folds' = Append(folds, [train |-> DatesOf(Split(n).train),
                                           test |-> DatesOf(Split(n).test)])
                /\ allTrades' = allTrades \o [k \in DOMAIN tested |-> TradeOfCandidate(tested[k])]
                /\ UNCHANGED wfPhase
    /\ UNCHANGED <<bars, funds, candidates, research>>

\* The verdict on the trades of all folds; daily data is not eligible for
\* promotion.
ScoreOf(ts, stress) == [k \in DOMAIN ts |-> ts[k].gross - stress * ts[k].cost]

PromoteStudy ==
    /\ wfPhase = "promote"
    /\ research' = EvaluatePromotion(FALSE, ScoreOf(allTrades, 1), ScoreOf(allTrades, 2))
    /\ wfPhase' = "done"
    /\ UNCHANGED <<bars, funds, candidates, folds, allTrades>>

WalkForwardNext == LoadCatalog \/ BuildCandidates \/ ExecuteFold \/ PromoteStudy

WalkForwardSpec == WalkForwardInit /\ [][WalkForwardNext]_wfVars

-----------------------------------------------------------------------------

\* The scored trades are out of sample and each is counted once: no fold tests
\* a day it trains on, and no day is traded by two folds.
TestDaysCountedOnce ==
    wfPhase = "done" =>
        /\ \A n \in DOMAIN folds : folds[n].train \cap folds[n].test = {}
        /\ IsInjective([k \in DOMAIN allTrades |-> allTrades[k].date])

=============================================================================
