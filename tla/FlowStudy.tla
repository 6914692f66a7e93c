------------------------------ MODULE FlowStudy ------------------------------
(***************************************************************************)
(* The study of general investor flows (G9): the flows of one investor,    *)
(* from one file per scope, are freed of the market by coefficients fitted *)
(* on the train period; a row relates the residual flow of the common day  *)
(* before, its short volume and the short balance of the one before that   *)
(* to a day's return; the same model on samples without the product must   *)
(* find nothing (D3).                                                      *)
(*                                                                         *)
(* A row is kept as the days its inputs are of.  What a regression         *)
(* computes is a choice, its guards are not.  Files are taken as loaded;   *)
(* FlowBackfill models how they are kept.                                  *)
(***************************************************************************)
EXTENDS Integers, FiniteSetsExt, InOrder

CONSTANTS
    FlowInputs,    \* bound: [flows, shorts, prices, trainEnd] the command may get
    FlowScopes,    \* InvestorFlowScope
    ListingDay,    \* actual_product_listing_date
    FakeListings,  \* fake_listing_dates
    FakeWindow,    \* fake_window_trading_days
    MinTrain,      \* minimum_train_observations
    MinFlowRows,   \* MINIMUM_REGRESSION_OBSERVATIONS
    MinFlowDays,   \* minimum_raw_trading_days
    MinFlowUsable, \* minimum_usable_observations
    NotGiven       \* a file or a date that is missing

ASSUME FlowStudyAssumption ==
    /\ FakeWindow >= MinFlowRows    \* build_negative_control_specs
    /\ {MinTrain, MinFlowRows, MinFlowDays, MinFlowUsable} \subseteq Nat \ {0}
    /\ \A input \in FlowInputs : \A s \in DOMAIN input.flows :   \* dates of a file's rows
        input.flows[s] \subseteq Nat /\ IsFiniteSet(input.flows[s])

VARIABLES
    flowPhase,   \* "off", "fit", "build", "assess", "done"
    flowInput,   \* flows: by scope given, the days of the investor; shorts: what is
                 \* there by day; prices: by symbol, the days with a return
    trainDays,   \* the days the coefficients were fitted on
    flowRows,    \* by symbol
    flowResult   \* [status, verdict], or NoFlowResult

flowVars == <<flowPhase, flowInput, trainDays, flowRows, flowResult>>

NoFlowInput == [flows |-> [s \in {} |-> {}], shorts |-> NotGiven, prices |-> NotGiven,
                trainEnd |-> NotGiven]
NoFlowResult == [status |-> "NONE", verdict |-> "NONE"]
Symbols == {"hynix", "samsung"}

FlowInit ==
    /\ flowPhase = "off" /\ flowInput = NoFlowInput /\ trainDays = {}
    /\ flowRows = [s \in Symbols |-> {}] /\ flowResult = NoFlowResult

HoldFlow(status) ==
    /\ flowResult' = [status |-> status, verdict |-> "HOLD"]
    /\ flowPhase' = "done"

\* execute_general_flow_study: a file or a date that is missing, and an
\* investor no file has a column of, hold the study.
InvestorDays(input) == UNION {input.flows[s] : s \in DOMAIN input.flows}

SomethingMissing(input) ==
    \/ DOMAIN input.flows # FlowScopes
    \/ NotGiven \in {input.shorts, input.prices, input.trainEnd}
    \/ InvestorDays(input) = {}

LoadFlowInputs ==
    /\ flowPhase = "off"
    /\ flowInput' \in FlowInputs
    /\ IF SomethingMissing(flowInput') THEN HoldFlow("HOLD_DATA_UNAVAILABLE")
       ELSE flowPhase' = "fit" /\ UNCHANGED flowResult
    /\ UNCHANGED <<trainDays, flowRows>>

\* _common_dates: the days every scope has, in their order.
CommonSet(input) == {d \in InvestorDays(input) : \A s \in FlowScopes : d \in input.flows[s]}

CommonCount == Cardinality(CommonSet(flowInput))

CommonDay(i) == Ascending(CommonSet(flowInput))[i]

\* fit_g9_residualization: few days, or controls that depend on one another,
\* hold the study.
FitResiduals ==
    /\ flowPhase = "fit"
    /\ LET train == {d \in CommonSet(flowInput) : d <= flowInput.trainEnd}
       IN  \/ /\ Cardinality(train) >= MinTrain
              /\ Min(InvestorDays(flowInput)) <= flowInput.trainEnd
              /\ trainDays' = train
              /\ flowPhase' = "build" /\ UNCHANGED flowResult
           \/ HoldFlow("HOLD_DATA_UNAVAILABLE") /\ UNCHANGED trainDays
    /\ UNCHANGED <<flowInput, flowRows>>

-----------------------------------------------------------------------------

\* A day's moments: its open, and 18:10 when the flows and the short volumes
\* of the day are published.
OpenMoment(d) == 4 * d + 1
PublishedMoment(d) == 4 * d + 3

HasShort(d, field) == d \in DOMAIN flowInput.shorts /\ field \in flowInput.shorts[d]

\* Mutant: the balance is that of the day before, like the volume.
BalanceOfDayBefore(i) == CommonDay(i - 1)

\* The short balance is taken from two common days before: nothing says when
\* it was published.
BalanceDay(i) == CommonDay(i - 2)

\* build_g9_features and build_general_flow_rows: a day's row needs the flows
\* of the common day before, the short volume of that day and the short
\* balance, all there by the open, and the return of the symbol.
RowOfDay(i) == [day |-> CommonDay(i), flow |-> CommonDay(i - 1), balance |-> BalanceDay(i)]

RowsOf(symbol) ==
    {RowOfDay(i) : i \in
        {i \in 3..CommonCount :
            /\ PublishedMoment(CommonDay(i - 1)) <= OpenMoment(CommonDay(i))
            /\ HasShort(CommonDay(i - 1), "volume")
            /\ HasShort(BalanceDay(i), "balance")
            /\ CommonDay(i) \in flowInput.prices[symbol]}}

\* load_krx_price_outcomes raises when no day has a return.
BuildFlowRows ==
    /\ flowPhase = "build"
    /\ IF \A s \in Symbols : flowInput.prices[s] = {}
       THEN flowPhase' = "done" /\ UNCHANGED flowRows
       ELSE flowPhase' = "assess" /\ flowRows' = [s \in Symbols |-> RowsOf(s)]
    /\ UNCHANGED <<flowInput, trainDays, flowResult>>

-----------------------------------------------------------------------------

\* build_negative_control_specs: rows before the product, of the peer, and the
\* first ones from a fake listing on.
FirstFrom(day) ==
    {r \in flowRows["hynix"] :
        /\ r.day >= day
        /\ Cardinality({o \in flowRows["hynix"] : o.day \in day..r.day}) <= FakeWindow}

ControlSpecs ==
    {[kind |-> "PRE_PRODUCT", name |-> 0, rows |-> {r \in flowRows["hynix"] : r.day < ListingDay}],
     [kind |-> "PEER", name |-> 0, rows |-> flowRows["samsung"]]}
    \cup {[kind |-> "FAKE_LISTING", name |-> d, rows |-> FirstFrom(d)] : d \in FakeListings}

\* fit_general_flow_regression and assess_general_flow_statistics: too few rows
\* give no assessment, others may give none either.
FlowAssessments(rows) ==
    IF Cardinality(rows) < MinFlowRows THEN {"NONE"} ELSE {"NONE", "PROCEED", "FALSIFY"}

\* run_general_flow_study; controls: the assessment of every control.
FlowVerdict(primary, controls) ==
    LET done == {c.kind : c \in {c \in ControlSpecs : controls[c] # "NONE"}}
        hold(status) == [status |-> status, verdict |-> "HOLD"]
        completed(verdict) == [status |-> "COMPLETED", verdict |-> verdict]
    IN  IF primary = "NONE" THEN hold("HOLD_DATA_UNAVAILABLE")
        ELSE IF \/ CommonCount < MinFlowDays
                \/ Cardinality(flowRows["hynix"]) < MinFlowUsable
        THEN hold("HOLD_SAMPLE_INSUFFICIENT")
        ELSE IF primary = "FALSIFY" THEN completed("FALSIFY")
        ELSE IF ~({"PRE_PRODUCT", "PEER", "FAKE_LISTING"} \subseteq done)
        THEN hold("HOLD_DATA_UNAVAILABLE")
        ELSE completed(IF \E c \in ControlSpecs : controls[c] = "PROCEED"
                       THEN "FALSIFY" ELSE "PROCEED")

AssessFlows ==
    /\ flowPhase = "assess"
    /\ \E primary \in FlowAssessments(flowRows["hynix"]) :
        \E controls \in [ControlSpecs -> {"NONE", "PROCEED", "FALSIFY"}] :
            /\ \A c \in ControlSpecs : controls[c] \in FlowAssessments(c.rows)
            /\ flowResult' = FlowVerdict(primary, controls)
    /\ flowPhase' = "done"
    /\ UNCHANGED <<flowInput, trainDays, flowRows>>

FlowNext == LoadFlowInputs \/ FitResiduals \/ BuildFlowRows \/ AssessFlows

FlowSpec == FlowInit /\ [][FlowNext]_flowVars

-----------------------------------------------------------------------------

\* No row holds what was not published by its day's open: flows come out on
\* the evening of their day, short balances two trading days late.  The model
\* counts its lags in common days, of which any file may lack some, and the
\* market in trading days, which are all the days any file has.
FlowRowsKnownAtOpen ==
    \A s \in Symbols : \A r \in flowRows[s] :
        /\ PublishedMoment(r.flow) <= OpenMoment(r.day)
        /\ Cardinality({d \in InvestorDays(flowInput) : r.balance < d /\ d <= r.day}) >= 2

=============================================================================
