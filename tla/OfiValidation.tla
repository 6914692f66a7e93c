---------------------------- MODULE OfiValidation ----------------------------
(***************************************************************************)
(* The validation of the continuous order flow model: the gate on its      *)
(* source, a model fitted to the first days, a cheap rejection on the next *)
(* ones, the sealed test, refits on all days before each later block, and  *)
(* the final gate over test and blocks.                                    *)
(*                                                                         *)
(* What a regression computes is a choice: a fitted model is the set of    *)
(* days it was fitted to, its prediction beyond the cost threshold on a    *)
(* day is -1, 0 or 1, a permutation or a bootstrap comes out either way.   *)
(* The diagnostics and the calibration decide nothing and are left out.    *)
(***************************************************************************)
EXTENDS Experiments

CONSTANTS
    SourceEvidence,   \* bound: sets of requirements of the source left unmet
    OfiObservations,  \* bound: sequences of ValidationObservation
    OfiTrainDays, OfiValidationDays, SealedTestDays,
    InnerDays,        \* INNER_MIN_TRAIN_DAYS + INNER_FOLD_DAYS
    MinBlock, MaxBlock,   \* 20 days, walk_forward_block_days
    MinEligibleDays, MinSignals,  \* 120 and 30
    ResearchMdd,      \* a twentieth of the research capital
    EntryDeadline, OutcomeDeadline  \* of a day, whose decision is at moment 1

ASSUME OfiValidationAssumption ==
    /\ {OfiTrainDays, OfiValidationDays, SealedTestDays, MinBlock, MaxBlock} \subseteq Nat \ {0}
    /\ MaxBlock >= MinBlock
    /\ \A input \in OfiObservations : Len(input) \in Nat

VARIABLES
    ofiPhase,     \* "off", "train", "cheap", "sealed", "walk", "final", "done"
    observed,     \* the observations by day
    fullModel,    \* days the full model was fitted to, the baseline's are the same
    scored,       \* outcomes of the sealed test and the blocks, with their model
    sealedGain,   \* sealed_test_incremental_net_pnl
    walkBlocks,
    ofiVerdict    \* [verdict, stage], or NoVerdict

ofiVars == <<ofiPhase, observed, fullModel, scored, sealedGain, walkBlocks, ofiVerdict>>

NoVerdict == [verdict |-> "NONE"]

OfiInit ==
    /\ ofiPhase = "off" /\ observed = <<>> /\ fullModel = {}
    /\ scored = <<>> /\ sealedGain = 0 /\ walkBlocks = 0 /\ ofiVerdict = NoVerdict

Stop(verdict, stage) ==
    /\ ofiVerdict' = [verdict |-> verdict, stage |-> stage]
    /\ ofiPhase' = "done"

\* evaluate_source_gate: one requirement that is not met holds everything.
SourceGatePasses(unmet) == unmet = {}

\* The days the harness takes: of live capture, no date twice, enough of them.
StartValidation ==
    /\ ofiPhase = "off"
    /\ \E unmet \in SourceEvidence, input \in OfiObservations :
        /\ observed' = input
        /\ IF /\ SourceGatePasses(unmet)
              /\ IsInjective([k \in DOMAIN input |-> input[k].day])
              /\ \A k \in DOMAIN input : input[k].live
              /\ Len(input) >= OfiTrainDays + OfiValidationDays
           THEN ofiPhase' = "train" /\ UNCHANGED ofiVerdict
           ELSE Stop("HOLD", "SOURCE_GATE")
    /\ UNCHANGED <<fullModel, scored, sealedGain, walkBlocks>>

-----------------------------------------------------------------------------

\* PaperFill.is_full_fill
FullFill(f) ==
    /\ f.price > 0 /\ f.quantity = f.wanted /\ f.wanted > 0
    /\ f.age \in 0..2 /\ f.book

\* build_close_return_target: the middle of two fills after the decision, and
\* an official close known in time, give a target.
HasTarget(o) ==
    /\ \A f \in {o.buy, o.sell} : FullFill(f) /\ f.event \in 1..EntryDeadline
    /\ o.buy.wanted = o.sell.wanted
    /\ o.close > 0 /\ o.closeKnown <= OutcomeDeadline

\* _usable_samples for the full model: days without a target or one of its
\* features, theory and flow, are not used.  The baseline takes theory alone, so
\* it can be fitted whenever the full model can.
Usable(days) ==
    {k \in days : HasTarget(observed[k]) /\ {"theory", "flow"} \subseteq observed[k].features}

\* fit_sealed_huber_elastic_net: selection by inner folds, on the days given
\* and before the refit; which parameters it selects is left out.
CanFit(days) == Cardinality(Usable(days)) >= InnerDays

\* _fit_fixed_model: scaler and coefficients are those of the usable days.
FittedTo(days) == Usable(days)

FitTrain ==
    /\ ofiPhase = "train"
    /\ \/ /\ CanFit(1..OfiTrainDays)
          /\ fullModel' = FittedTo(1..OfiTrainDays)
          /\ ofiPhase' = "cheap" /\ UNCHANGED ofiVerdict
       \/ Stop("HOLD", "TRAIN_ONLY_SELECTION") /\ UNCHANGED fullModel
    /\ UNCHANGED <<observed, scored, sealedGain, walkBlocks>>

\* RequiredCostEvidence: all core costs, and the product's where it applies and
\* nowhere else; each known one costs one.
CoreCosts == {"commission", "tax", "spread", "slippage", "market_impact"}

CostsComplete(o) == o.costs = CoreCosts \cup (IF o.product THEN {"product"} ELSE {})

\* paper_model_outcome: without costs that are complete and add up, a notional
\* within the target, the model's features or a fill there is no trade and a
\* profit of zero.
Outcome(model, features, k, predicted) ==
    LET o == observed[k]
        priced == CostsComplete(o) /\ o.cost = Cardinality(o.costs) /\ o.notional
        traded == priced /\ features \subseteq o.features /\ predicted # 0 /\ o.filled
    IN  [day |-> k, model |-> model, eligible |-> traded,
         pnl |-> IF traded THEN predicted * o.move - o.cost ELSE 0,
         stress |-> IF traded THEN predicted * o.move - 2 * o.cost ELSE 0]

Directions == {-1, 0, 1}

Outcomes(model, features, days) ==
    {[i \in 1..Len(days) |-> Outcome(model, features, days[i], p[i])] :
        p \in [1..Len(days) -> Directions]}

FullOutcomes(model, days) == Outcomes(model, {"theory", "flow"}, days)
BaseOutcomes(model, days) == Outcomes(model, {"theory"}, days)

DaysFrom(first, count) == [i \in 1..count |-> first + i - 1]

PnLs(outcomes) == [i \in DOMAIN outcomes |-> outcomes[i].pnl]

\* evaluate_cheap_reject: the gain of the full model over the baseline is a loss,
\* or its permutation says chance.
CheapFails(full, base, significant) == Total(PnLs(full)) <= Total(PnLs(base)) \/ ~significant

CheapReject ==
    /\ ofiPhase = "cheap"
    /\ LET days == DaysFrom(OfiTrainDays + 1, OfiValidationDays)
       IN  \E full \in FullOutcomes(fullModel, days), base \in BaseOutcomes(fullModel, days),
               significant \in BOOLEAN :
            IF CheapFails(full, base, significant)
            THEN Stop("REJECT", "CHEAP_REJECT")
            ELSE IF Len(observed) < OfiTrainDays + OfiValidationDays + SealedTestDays
            THEN Stop("HOLD", "SEALED_TEST")
            ELSE ofiPhase' = "sealed" /\ UNCHANGED ofiVerdict
    /\ UNCHANGED <<observed, fullModel, scored, sealedGain, walkBlocks>>

\* Both models on the sealed days, once.
SealedTest ==
    /\ ofiPhase = "sealed"
    /\ LET days == DaysFrom(OfiTrainDays + OfiValidationDays + 1, SealedTestDays)
       IN  \E full \in FullOutcomes(fullModel, days), base \in BaseOutcomes(fullModel, days) :
            /\ scored' = full
            /\ sealedGain' = Total(PnLs(full)) - Total(PnLs(base))
    /\ ofiPhase' = "walk"
    /\ UNCHANGED <<observed, fullModel, walkBlocks, ofiVerdict>>

Cursor == OfiTrainDays + OfiValidationDays + Len(scored)

\* Mutant: the refit sees the block it is tested on.
ExpandingWithBlock(size) == 1..(Cursor + size)

Expanding(size) == 1..Cursor

\* One block of the walk-forward: a refit on all days before it.  Too few days
\* or a refit that fails end the walk.
WalkBlock ==
    /\ ofiPhase = "walk"
    /\ LET left == Len(observed) - Cursor
           size == Min({MaxBlock, left})
       IN  \/ /\ left >= MinBlock /\ CanFit(Expanding(size))
              /\ \E block \in FullOutcomes(FittedTo(Expanding(size)), DaysFrom(Cursor + 1, size)) :
                    scored' = scored \o block
              /\ walkBlocks' = walkBlocks + 1
              /\ UNCHANGED ofiPhase
           \/ ofiPhase' = "final" /\ UNCHANGED <<scored, walkBlocks>>
    /\ UNCHANGED <<observed, fullModel, sealedGain, ofiVerdict>>

\* _pass_metrics: a trade is a day whose profit is not zero; the eligible days
\* are all days up to the last block, those of the training too.
FinalFails(pnls, stress) ==
    LET trades == SelectSeq(pnls, LAMBDA p : p # 0)
    IN  \/ Total(trades) <= 0
        \/ ProfitFactorBelow(trades, <<6, 5>>)
        \/ Drawdown(pnls) > ResearchMdd
        \/ TopDayShareAbove(pnls, <<3, 10>>)
        \/ Total(stress) < 0
        \/ sealedGain <= 0

\* evaluate_final_pass_gate
FinalGate ==
    /\ ofiPhase = "final"
    /\ IF \/ Cursor < MinEligibleDays
          \/ Cardinality({i \in DOMAIN scored : scored[i].eligible}) < MinSignals
          \/ walkBlocks < 1
       THEN Stop("HOLD", "FINAL_PASS_GATE")
       ELSE \E significant \in BOOLEAN :
                Stop(IF ~significant \/ FinalFails(PnLs(scored), [i \in DOMAIN scored |-> scored[i].stress])
                     THEN "REJECT" ELSE "PASS", "FINAL_PASS_GATE")
    /\ UNCHANGED <<observed, fullModel, scored, sealedGain, walkBlocks>>

OfiNext ==
    StartValidation \/ FitTrain \/ CheapReject \/ SealedTest \/ WalkBlock \/ FinalGate

OfiSpec == OfiInit /\ [][OfiNext]_ofiVars

-----------------------------------------------------------------------------

\* Every profit the final gate counts is out of sample and counted once: its
\* day lies after all days its model was fitted to, also after refits on days
\* that were tested before, and the days follow one another without a gap.
ScoredOutOfSample ==
    \A i \in DOMAIN scored :
        /\ \A d \in scored[i].model : d < scored[i].day
        /\ scored[i].day = OfiTrainDays + OfiValidationDays + i

=============================================================================
