--------------------------- MODULE Prefalsification ---------------------------
(***************************************************************************)
(* The study that tries to falsify H1 before anything is collected live:   *)
(* daily inputs are collected backwards from KRX, or loaded from a file,   *)
(* each value with the moment it happened and the moment it was known; a   *)
(* row relates the program trading of the day before, over the turnover of *)
(* the days before, to a day's close; two regressions decide.              *)
(*                                                                         *)
(* The weak model takes the open and the close of a day, the strong one a  *)
(* price before the closing auction, the close and the auction's turnover. *)
(* Dates count calendar days.  A date's moments are 4 date + 1 (the model's*)
(* cutoff: open or start of the auction) and 4 date + 2 (the close).  What *)
(* the regression computes is a choice, its guards are not.                *)
(***************************************************************************)
EXTENDS Integers, Sequences, FiniteSets, SequencesExt, Functions

CONSTANTS
    EndDate, Weekends,    \* the study's last date, dates that are no weekdays
    KrxDays,              \* bound: what KRX may answer about a date
    ProgramCsvs,          \* bound: the manual CSV files there may be
    StrongInputs,         \* bound: the observations a file may hold
    Probes,               \* the dates tried for the series: 10
    LookbackDays,         \* max_lookback_calendar_days
    AdvLookback,          \* ADV_LOOKBACK_DAYS
    MinScheduled,         \* MINIMUM_RAW_TRADING_DAYS
    MinUsable,            \* MINIMUM_USABLE_OBSERVATIONS
    MinRegression,        \* MINIMUM_REGRESSION_OBSERVATIONS
    MaxReferenceAge,      \* PRE_AUCTION_MAX_AGE_SECONDS
    NoValue               \* a value that is missing

TimedFields == {"program", "reference", "close", "auction", "turnover"}

ASSUME PrefalsificationAssumption ==
    /\ EndDate \in Nat /\ Weekends \subseteq 1..EndDate
    /\ LookbackDays \in 1..EndDate /\ Probes \in 1..EndDate
    /\ AdvLookback \in Nat \ {0} /\ MaxReferenceAge \in Nat
    /\ MinRegression \in Nat \ {0} /\ MinUsable >= MinRegression
    /\ MinScheduled >= MinUsable + AdvLookback
    /\ \A input \in StrongInputs :
        /\ input \in Seq(ToSet(input))
        /\ \A o \in ToSet(input) : TimedFields \subseteq DOMAIN o

VARIABLES
    studyPhase,    \* "off", "probe", "collect", "fit", "done", "failed"
    studyModel,    \* "WEAK", "STRONG", "FIXTURE" (strong, not actual), or "NONE"
    program,       \* program value by date, from the CSV
    csvGiven,      \* was there a CSV
    entitled,      \* may the key ask for the index of KRX
    cursor,        \* date asked for next
    series,        \* the semiconductor series chosen, or "NONE"
    observations,  \* in the order of dates
    studyResult    \* status, verdict and counts, or NoResult

studyVars == <<studyPhase, studyModel, program, csvGiven, entitled, cursor, series,
               observations, studyResult>>

NoResult == [status |-> "NONE"]
NoProgram == [d \in {} |-> NoValue]
Factors == {"kospi", "semiconductor", "samsung"}
Datasets == {"ohlcv", "program", "kospi", "semiconductor"}

StudyInit ==
    /\ studyPhase = "off" /\ studyModel = "NONE"
    /\ program = NoProgram /\ csvGiven = FALSE /\ entitled = FALSE
    /\ cursor = EndDate /\ series = "NONE"
    /\ observations = <<>> /\ studyResult = NoResult

-----------------------------------------------------------------------------

\* load_krx_12009_program_net_buy: rows of other symbols, without a date or
\* without a value are passed over; a file that cannot be read, in its text, its
\* columns or a value, two rows of a date and a file that gives nothing are
\* errors.
CsvRows(file) == SelectSeq(file.rows, LAMBDA r : r.mine /\ r.date # NoValue /\ r.value # NoValue)

CsvGood(file) ==
    /\ file.readable
    /\ CsvRows(file) # <<>>
    /\ \A i, j \in DOMAIN CsvRows(file) : CsvRows(file)[i].date = CsvRows(file)[j].date => i = j

CsvByDate(file) ==
    [d \in {r.date : r \in ToSet(CsvRows(file))} |->
        (CHOOSE r \in ToSet(CsvRows(file)) : r.date = d).value]

\* collect_krx_weak_daily_inputs begins with the CSV, if one is given.
StartWeakStudy ==
    /\ studyPhase = "off"
    /\ studyModel' = "WEAK"
    /\ entitled' \in BOOLEAN
    /\ \/ csvGiven' = FALSE /\ studyPhase' = "probe" /\ UNCHANGED program
       \/ \E file \in ProgramCsvs :
            /\ csvGiven' = TRUE
            /\ IF CsvGood(file) THEN studyPhase' = "probe" /\ program' = CsvByDate(file)
                                ELSE studyPhase' = "failed" /\ UNCHANGED program
    /\ UNCHANGED <<cursor, series, observations, studyResult>>

\* The series is looked for on the last weekdays; rows without one and a key
\* without the right end the search, no rows at all let it go on.
ProbeSeries ==
    /\ studyPhase = "probe"
    /\ LET give == studyPhase' = "collect" /\ cursor' = EndDate
           next == /\ cursor' = cursor - 1
                   /\ studyPhase' = "probe" /\ UNCHANGED series
       IN  \/ cursor <= EndDate - Probes /\ give /\ UNCHANGED series
           \/ /\ cursor > EndDate - Probes
              /\ \/ cursor \in Weekends /\ next
                 \/ cursor \notin Weekends /\ ~entitled /\ give /\ UNCHANGED series
                 \/ /\ cursor \notin Weekends /\ entitled
                    /\ \E a \in KrxDays :
                        IF a.series = {} THEN IF a.indexRows THEN give /\ UNCHANGED series ELSE next
                        ELSE give /\ series' = IF "KRX" \in a.series THEN "KRX"
                                                ELSE CHOOSE n \in a.series : TRUE
    /\ UNCHANGED <<studyModel, program, csvGiven, entitled, observations, studyResult>>

-----------------------------------------------------------------------------

\* _available_value and _krx_decimal: an empty cell is missing (one that is not a
\* number raises, as in StudyRequestFails).
Known(value, event, available) ==
    [has |-> value # NoValue, value |-> IF value = NoValue THEN 0 ELSE value,
     event |-> event, available |-> available, unit |-> TRUE]

CutoffOf(date) == 4 * date + 1
CloseOf(date) == 4 * date + 2

\* _weak_observation_from_krx_rows: all of it is known at the close; a return
\* needs both of its prices.
WeakObservation(d, a) ==
    LET atClose(v) == Known(v, CloseOf(d), CloseOf(d))
    IN  [date |-> d,
         program |-> atClose(IF d \in DOMAIN program THEN program[d] ELSE NoValue),
         reference |-> Known(a.open, CutoffOf(d), CloseOf(d)),
         close |-> atClose(a.close),
         turnover |-> atClose(a.turnover),
         controls |-> [f \in Factors |->
                        atClose(IF f = "semiconductor" /\ series = "NONE" THEN NoValue
                                ELSE a.returns[f])]]

\* Days without the stocks, the KOSPI or the chosen series are passed over: the
\* day before them then is the day before the next one collected.
CollectDay ==
    /\ studyPhase = "collect"
    /\ IF cursor <= EndDate - LookbackDays \/ Len(observations) >= MinScheduled
       THEN studyPhase' = "fit" /\ UNCHANGED <<cursor, observations>>
       ELSE /\ cursor' = cursor - 1
            /\ UNCHANGED studyPhase
            /\ IF cursor \in Weekends THEN UNCHANGED observations
               ELSE \E a \in KrxDays :
                    observations' =
                        IF a.stocks /\ a.kospi /\ (series = "NONE" \/ series \in a.series)
                        THEN <<WeakObservation(cursor, a)>> \o observations
                        ELSE observations
    /\ UNCHANGED <<studyModel, program, csvGiven, entitled, series, studyResult>>

\* A request fails: the study ends with the exception.
StudyRequestFails ==
    /\ studyPhase \in {"probe", "collect"}
    /\ studyPhase' = "failed"
    /\ UNCHANGED <<studyModel, program, csvGiven, entitled, cursor, series, observations,
                   studyResult>>

\* The audit the collection ends with.
MissingDatasets ==
    {d \in Datasets :
        CASE d = "program" -> \A i \in DOMAIN observations : ~observations[i].program.has
          [] d = "semiconductor" -> series = "NONE"
          [] OTHER -> observations = <<>>}

\* TimedStudyValue.__post_init__: nothing is known before it happened.
ValueGood(v) == v.has => v.event <= v.available

ValuesGood(o) ==
    (\A f \in TimedFields : ValueGood(o[f])) /\ (\A f \in DOMAIN o.controls : ValueGood(o.controls[f]))

\* load_prefalsification_observations_json and its helpers
LoadStrongInputs ==
    /\ studyPhase = "off"
    /\ studyModel' \in {"STRONG", "FIXTURE"}
    /\ \E input \in StrongInputs :
        IF \A i \in DOMAIN input : ValuesGood(input[i])
        THEN observations' = input /\ studyPhase' = "fit"
        ELSE studyPhase' = "failed" /\ UNCHANGED observations
    /\ UNCHANGED <<program, csvGiven, entitled, cursor, series, studyResult>>

\* Without a file: audit_existing_krx_daily_data, and the result that holds.
\* Some required dataset is always missing, nothing writes closing auctions.
HoldWithoutInputs ==
    /\ studyPhase = "off"
    /\ studyModel' = "STRONG"
    /\ studyResult' = [status |-> "HOLD_DATA_UNAVAILABLE", verdict |-> "HOLD"]
    /\ studyPhase' = "done"
    /\ UNCHANGED <<program, csvGiven, entitled, cursor, series, observations>>

-----------------------------------------------------------------------------

\* Mutant: a value counts when it is there, whenever it became known.
KnownAtAll(v, moment) == v.has /\ v.unit

KnownBy(v, moment) == v.has /\ v.unit /\ v.available <= moment

KnownFrom(v, moment) == v.has /\ v.unit /\ v.available >= moment

\* The price checks of _build_one_weak_daily_row and _build_one_row.
WeakPricesGood(o) ==
    /\ KnownFrom(o.reference, CloseOf(o.date)) /\ KnownFrom(o.close, CloseOf(o.date))
    /\ o.reference.event = CutoffOf(o.date) /\ o.close.event = CloseOf(o.date)
    /\ o.reference.value > 0 /\ o.close.value > 0

StrongPricesGood(o) ==
    /\ KnownBy(o.reference, CutoffOf(o.date))
    /\ o.reference.event \in (CutoffOf(o.date) - MaxReferenceAge)..CutoffOf(o.date)
    /\ \A v \in {o.close, o.auction} :
        KnownFrom(v, CloseOf(o.date)) /\ v.event >= CutoffOf(o.date)
    /\ o.reference.value > 0 /\ o.close.value > 0 /\ o.auction.value >= 0

\* Both return None at the first defect, whose reason is counted.
RowEligible(obs, i) ==
    /\ KnownBy(obs[i - 1].program, CutoffOf(obs[i].date))
    /\ \A k \in (i - AdvLookback)..(i - 1) :
        KnownBy(obs[k].turnover, CutoffOf(obs[i].date)) /\ obs[k].turnover.value > 0
    /\ IF studyModel = "WEAK" THEN WeakPricesGood(obs[i]) ELSE StrongPricesGood(obs[i])

\* Mutant: a missing control is no control.
ControlsOfThose(o) ==
    \A f \in Factors : o.controls[f].has => KnownFrom(o.controls[f], CloseOf(o.date))

\* _weak_control_values and _control_values
ControlsGood(o) ==
    /\ DOMAIN o.controls = Factors
    /\ \A f \in Factors : /\ KnownFrom(o.controls[f], CloseOf(o.date))
                          /\ o.controls[f].event = CloseOf(o.date)

\* x is the program trading of the day before over the mean turnover, as a
\* fraction; y has the sign of the day's move, in the strong model the size of
\* the auction too.
Feature(obs, i) ==
    << obs[i - 1].program.value * AdvLookback,
       SumFunction([k \in (i - AdvLookback)..(i - 1) |-> obs[k].turnover.value]) >>

MoveSign(o) ==
    IF o.close.value > o.reference.value THEN 1
    ELSE IF o.close.value < o.reference.value THEN -1 ELSE 0

RowOf(obs, i) ==
    [date |-> obs[i].date, x |-> Feature(obs, i), controlled |-> ControlsGood(obs[i]),
     y |-> MoveSign(obs[i]) * (IF studyModel = "WEAK" THEN 1 ELSE obs[i].auction.value)]

\* build_weak_daily_rows and build_prefalsification_rows; they raise when the
\* dates do not ascend.
DatesAscend(obs) == \A i, k \in DOMAIN obs : i < k => obs[i].date < obs[k].date

RowIndices(obs) == {i \in (AdvLookback + 1)..Len(obs) : RowEligible(obs, i)}
RegressionRows(obs) == {RowOf(obs, i) : i \in RowIndices(obs)}

\* fit_prefalsification_regression: enough rows, and an x that varies.
CanRegress(rows) ==
    /\ Cardinality(rows) >= MinRegression
    /\ \E r, s \in rows : r.x[1] * s.x[2] # s.x[1] * r.x[2]

\* _regression_statistics and assess_prefalsification_statistics: a t, an
\* interval and a permutation, which proceed when the sign and all of them say
\* so; a matrix that cannot be inverted gives none.
Judgements == {"NONE", "PROCEED", "FALSIFY"}

\* _fit_assessment
AssessmentsOf(rows) == IF CanRegress(rows) THEN Judgements ELSE {"NONE"}

Hold(status) == [status |-> status, verdict |-> "HOLD"]

Controlled(rows) == {r \in rows : r.controlled}

SampleInsufficient(rows) ==
    \/ Len(observations) < MinScheduled
    \/ Cardinality(Controlled(rows)) < MinUsable

\* The two studies: a fixture, too little data, then too small a sample, hold.
StudyVerdict(rows, raw, controlled) ==
    IF studyModel = "FIXTURE" THEN Hold("FIXTURE_ONLY")
    ELSE IF Cardinality(rows) < MinRegression \/ controlled = "NONE"
    THEN Hold("HOLD_DATA_UNAVAILABLE")
    ELSE IF SampleInsufficient(rows) THEN Hold("HOLD_SAMPLE_INSUFFICIENT")
    ELSE [status |-> "COMPLETED",
          verdict |-> IF "FALSIFY" \in {raw, controlled} THEN "FALSIFY" ELSE "PROCEED"]

\* Their assertion fails when the raw model alone could not be computed.
RunStudy ==
    /\ studyPhase = "fit"
    /\ LET rows == RegressionRows(observations)
       IN  \E raw \in AssessmentsOf(rows), controlled \in AssessmentsOf(Controlled(rows)) :
            LET result == StudyVerdict(rows, raw, controlled)
            IN  IF \/ ~DatesAscend(observations)
                   \/ result.status = "COMPLETED" /\ raw = "NONE"
                THEN studyPhase' = "failed" /\ UNCHANGED studyResult
                ELSE studyPhase' = "done" /\ studyResult' = result
    /\ UNCHANGED <<studyModel, program, csvGiven, entitled, cursor, series, observations>>

StudyNext ==
    StartWeakStudy \/ ProbeSeries \/ CollectDay \/ StudyRequestFails \/ LoadStrongInputs
        \/ HoldWithoutInputs \/ RunStudy

StudySpec == StudyInit /\ [][StudyNext]_studyVars

-----------------------------------------------------------------------------

\* The observations with every value that was not known at a moment changed.
WithOthersAfter(obs, moment) ==
    [i \in DOMAIN obs |->
        [f \in DOMAIN obs[i] |->
            IF f \in {"date", "controls"} \/ obs[i][f].available <= moment THEN obs[i][f]
            ELSE [obs[i][f] EXCEPT !.value = @ + 1]]]

\* No lookahead: the feature of a day is the same whatever the values that
\* became known after that day's open (weak) or start of the auction (strong).
FeatureIgnoresLaterValues ==
    studyPhase = "fit" =>
        \A i \in RowIndices(observations) :
            LET other == WithOthersAfter(observations, CutoffOf(observations[i].date))
            IN  i \in RowIndices(other) => Feature(other, i) = Feature(observations, i)

\* A weak study that completed has seen every dataset it requires: the audit
\* of the collection and the rows are derived from the same answers in two
\* ways, and a verdict beside an audit that names a missing one contradicts.
CompletedStudyHadEveryDataset ==
    (studyModel = "WEAK" /\ studyResult.status = "COMPLETED") => MissingDatasets = {}

=============================================================================
