------------------------------- MODULE H1Live --------------------------------
(***************************************************************************)
(* One trading day of the H1 strategy: the snapshot asked for at 15:10 is  *)
(* fetched from KIS, one instrument after another, then from Toss, in one  *)
(* call; feed quality, the previous closes and the fund inputs are checked *)
(* at the moment the last answer arrived, and the strategy turns the close *)
(* pressure into a signal, or into none.                                   *)
(*                                                                         *)
(* Moments are integers of the trading day; Yesterday stands for all that  *)
(* lies before it.  Prices are integers, percentages are kept as products, *)
(* and the pressure as the fraction <<numerator, denominator>>.            *)
(***************************************************************************)
EXTENDS Integers, Sequences, FiniteSets, SequencesExt, Functions

CONSTANTS
    StockTargets,     \* _H1_UNDERLYING_TARGETS, the first is the underlying
    FundTargets,      \* the ETF and ETN targets, a sequence too
    Snapshot, Cutoff, \* 15:10 and 15:19:30
    LastMoment,       \* bound: last moment of the day
    SnapshotPrices,   \* bound: prices an answer may hold
    MaxAge, MaxSkew,  \* max_snapshot_age_ns, max_source_time_skew_ns
    MaxDivergence,    \* max_cross_source_divergence_pct
    References,       \* the KrxPreviousCloseReference tables a build may get
    FundInputs,       \* the sequences of H1LiveFundInput a build may get
    Adv, Band,        \* underlying_20d_adv_notional, 1 / neutral_band
    Missing           \* a flow that was not observed

\* The flows of H1LiveFundInput are decimals or missing, its factors decimals.
FlowParts(f) == {f.auction, f.program, f.creation, f.multiplier}

InputTyped(f) ==
    /\ {f.kappa, f.beta, f.aum} \subseteq Int
    /\ \A part \in FlowParts(f) : part = Missing \/ part.value \in Int

ASSUME H1LiveAssumption ==
    /\ Snapshot \in Nat /\ Cutoff \in Nat /\ Snapshot < Cutoff
    /\ MaxAge \in Nat /\ MaxSkew \in Nat /\ MaxDivergence \in Nat
    /\ Adv \in Nat \ {0} /\ Band \in Nat \ {0}
    /\ SnapshotPrices \subseteq Nat \ {0}
    /\ LastMoment \in Nat
    /\ StockTargets \in Seq(ToSet(StockTargets)) \ {<<>>}
    /\ FundTargets \in Seq(ToSet(FundTargets))
    /\ \A refs \in References : refs[1].close \in Int
    /\ \A funds \in FundInputs :
        /\ IsFiniteSet(DOMAIN funds)
        /\ \A k \in DOMAIN funds : InputTyped(funds[k])

VARIABLES
    livePhase,   \* "off", "kis", "toss", "build", "decide", "done"
    liveClock,   \* the client's clock
    feedMode,    \* LIVE for KIS prod, SIMULATED for vps
    primary,     \* KIS snapshots so far, in the order of the targets
    secondary,   \* Toss snapshots, in the order of the targets
    feature,     \* H1LiveFeatureSet, or NoFeature
    signal       \* the signal, or NoSignal

liveVars == <<livePhase, liveClock, feedMode, primary, secondary, feature, signal>>

Targets == StockTargets \o FundTargets
Moments == 0..LastMoment
Yesterday == -1
NoFeature == [built |-> FALSE]
NoSignal == [made |-> FALSE]

AbsVal(n) == IF n < 0 THEN -n ELSE n

-----------------------------------------------------------------------------

\* KIS answers with minute rows.  Of those up to the moment asked for the last
\* one is the snapshot.

Rows == [event : Moments \cup {Yesterday}, price : SnapshotPrices]

\* Mutant: the last row of the answer, also one from after 15:10.
RowsAtAnyTime(rows, asked) == rows

RowsUpTo(rows, asked) == {r \in rows : r.event <= asked}

LastRow(rows) == CHOOSE r \in rows : \A s \in rows : s.event <= r.event

\* Rows of one answer have different times; KIS's clock may be ahead of ours.
MinuteRows(now) ==
    {rows \in SUBSET {r \in Rows : r.event <= now + 1} :
        Cardinality(rows) <= 2 /\ \A r, s \in rows : r.event = s.event => r = s}

\* A fund's row has a time only and is put on the date the stocks had.
OnBatchDate(rows, stocks) ==
    {[r EXCEPT !.event = IF stocks[1].event = Yesterday THEN Yesterday ELSE @] :
        r \in {s \in rows : s.event # Yesterday}}

OneDate(stocks) == \A s, t \in ToSet(stocks) : s.event = Yesterday <=> t.event = Yesterday

LiveFailed ==
    /\ livePhase' = "done"
    /\ UNCHANGED <<feedMode, primary, secondary, feature, signal>>

LiveInit ==
    /\ livePhase = "off" /\ liveClock = 0 /\ feedMode = "SIMULATED"
    /\ primary = <<>> /\ secondary = <<>>
    /\ feature = NoFeature /\ signal = NoSignal

\* The capture begins, whenever it was scheduled or typed in.
StartCapture ==
    /\ livePhase = "off"
    /\ livePhase' = "kis"
    /\ liveClock' \in Moments
    /\ feedMode' \in {"LIVE", "SIMULATED"}
    /\ UNCHANGED <<primary, secondary, feature, signal>>

SnapshotOf(row, now) == [event |-> row.event, price |-> row.price, received |-> now]

\* The stocks must share their date; a snapshot from our future is refused.
FetchPrimary ==
    /\ livePhase = "kis"
    /\ \E now \in liveClock..LastMoment : \E rows \in MinuteRows(now) :
        LET dated == IF Len(primary) < Len(StockTargets) THEN rows ELSE OnBatchDate(rows, primary)
            candidates == RowsUpTo(dated, Snapshot)
            got == Append(primary, SnapshotOf(LastRow(candidates), now))
            good == /\ candidates # {}
                    /\ LastRow(candidates).event <= now
                    /\ Len(got) = Len(StockTargets) => OneDate(got)
        IN  /\ liveClock' = now
            /\ \/ /\ good
                  /\ primary' = got
                  /\ livePhase' = IF Len(got) = Len(Targets) THEN "toss" ELSE "kis"
                  /\ UNCHANGED <<feedMode, secondary, feature, signal>>
               \/ ~good /\ LiveFailed

\* One Toss call answers for every target, with the last price known to it; an
\* answer that lacks a target is refused.
FetchSecondary ==
    /\ livePhase = "toss"
    /\ \E now \in liveClock..LastMoment :
        /\ liveClock' = now
        /\ \/ /\ \E answer \in [DOMAIN Targets -> [event : {now, Snapshot} \cap 0..now,
                                                   price : SnapshotPrices]] :
                  secondary' = [i \in DOMAIN Targets |-> SnapshotOf(answer[i], now)]
              /\ livePhase' = "build"
              /\ UNCHANGED <<feedMode, primary, feature, signal>>
           \/ LiveFailed

-----------------------------------------------------------------------------

\* assert_live_decision_time
InWindow(t) == Snapshot <= t /\ t <= Cutoff

\* evaluate_live_snapshot_quality: |observed - reference| / reference in
\* percent above a bound.
DiffersBy(reference, observed, pct) == AbsVal(observed - reference) * 100 > pct * reference

StalePair(p, s, now) ==
    \/ now - p.event > MaxAge
    \/ now - s.event > MaxAge
    \/ AbsVal(p.event - s.event) > MaxSkew

Divergent(p, s, ref) ==
    \/ AbsVal(p.event - s.event) <= MaxSkew /\ DiffersBy(p.price, s.price, MaxDivergence)
    \/ DiffersBy(ref.close, p.price, ref.maxMove)

BlocksSignal(p, s, ref, now) ==
    \/ feedMode # "LIVE"
    \/ StalePair(p, s, now)
    \/ Divergent(p, s, ref)

\* _assert_reference_available and _assert_fund_available; basis, effective and
\* fitted say whether a date lies before the trading date.
ReferenceAvailable(ref, now) == ref.basis = "prior" /\ ref.received <= now /\ ref.close > 0

FundAvailable(f, now) ==
    /\ f.effective = "prior" /\ f.aum > 0
    /\ f.published < now
    /\ f.fitted = "prior" /\ f.kappaAvailable <= now

\* calculate_observable_flow_adjustment: an observation that came late raises,
\* a missing one leaves the whole adjustment missing.
FlowInTime(f, now) == \A part \in FlowParts(f) : part # Missing => part.available <= now

FlowMissing(f) == Missing \in FlowParts(f)

FlowAdjustment(f) == f.auction.value + f.program.value + f.creation.value * f.multiplier.value

\* estimated_close_pressure over theoretical_delta_exposure: kappa times
\* beta (beta - 1) aum (last / close - 1), plus the flow where it is known.
FundPressure(f, last, close) ==
    f.kappa * f.beta * (f.beta - 1) * f.aum * (last - close)
        + (IF FlowMissing(f) THEN 0 ELSE FlowAdjustment(f) * close)

ClosePressure(funds, last, close) ==
    << SumFunction([k \in DOMAIN funds |-> FundPressure(funds[k], last, close)]), Adv * close >>

\* assert_no_lookahead on the snapshots
NoLookahead(now) ==
    \A s \in ToSet(primary) \cup ToSet(secondary) : s.event <= now /\ s.received <= now

\* build_h1_live_feature: its checks in one conjunction, they all raise.
FeatureInputsGood(refs, funds, now) ==
    /\ funds # <<>>
    /\ InWindow(now)
    /\ NoLookahead(now)
    /\ \A i \in DOMAIN Targets :
        /\ ~BlocksSignal(primary[i], secondary[i], refs[i], now)
        /\ ReferenceAvailable(refs[i], now)
    /\ \A k \in DOMAIN funds :
        /\ FundAvailable(funds[k], now)
        /\ FlowInTime(funds[k], now)
        /\ funds[k].id \in ToSet(FundTargets)
        /\ \A j \in DOMAIN funds : funds[j].id = funds[k].id => j = k

BuildFeature ==
    /\ livePhase = "build"
    /\ \E refs \in References, funds \in FundInputs :
        \/ /\ FeatureInputsGood(refs, funds, liveClock)
           /\ feature' = [built |-> TRUE, decision |-> liveClock, refs |-> refs, funds |-> funds,
                          last |-> primary[1],
                          pressure |-> ClosePressure(funds, primary[1].price, refs[1].close),
                          full |-> \A k \in DOMAIN funds : ~FlowMissing(funds[k])]
           /\ livePhase' = "decide"
           /\ UNCHANGED <<liveClock, feedMode, primary, secondary, signal>>
        \/ /\ ~FeatureInputsGood(refs, funds, liveClock)
           /\ LiveFailed /\ UNCHANGED liveClock

\* decide: no signal for a reduced model, none within the neutral band.  Its
\* own window and lookahead checks are those of the build.
Neutral(p) == AbsVal(p[1]) * Band <= p[2]

\* Mutant: the reduced model trades as the full one does.
TradableReduced(f) == ~Neutral(f.pressure)

Tradable(f) == f.full /\ ~Neutral(f.pressure)

DecideSignal ==
    /\ livePhase = "decide"
    /\ livePhase' = "done"
    /\ signal' = IF Tradable(feature)
                 THEN [made |-> TRUE, generated |-> feature.decision, expires |-> Cutoff,
                       direction |-> IF feature.pressure[1] > 0 THEN "LONG" ELSE "SHORT"]
                 ELSE NoSignal
    /\ UNCHANGED <<liveClock, feedMode, primary, secondary, feature>>

LiveNext == StartCapture \/ FetchPrimary \/ FetchSecondary \/ BuildFeature \/ DecideSignal

LiveSpec == LiveInit /\ [][LiveNext]_liveVars

-----------------------------------------------------------------------------

\* Every input of a signal was known to the program when the signal was made,
\* and the price in it is the market's of 15:10 or before, not older than the
\* age bound: the answers arrive one after another while the clock runs, and
\* the moment of the decision is only known after the last of them.
SignalFromThePast ==
    signal.made =>
        /\ feature.last.event <= Snapshot
        /\ feature.decision - feature.last.event <= MaxAge
        /\ \A s \in ToSet(primary) \cup ToSet(secondary) : s.received <= signal.generated
        /\ \A k \in DOMAIN feature.funds :
            LET f == feature.funds[k]
            IN  /\ f.published < signal.generated
                /\ f.kappaAvailable <= signal.generated
                /\ \A part \in FlowParts(f) :
                    part # Missing => part.available <= signal.generated

\* The direction of a signal is the one the fully observed flows give: no
\* missing flow takes part as a zero.
DirectionFromFullFlow ==
    signal.made =>
        LET full(f) == f.kappa * f.beta * (f.beta - 1) * f.aum
                           * (feature.last.price - feature.refs[1].close)
                       + feature.refs[1].close * FlowAdjustment(f)
            total == SumFunction([k \in DOMAIN feature.funds |-> full(feature.funds[k])])
        IN  /\ \A k \in DOMAIN feature.funds : Missing \notin FlowParts(feature.funds[k])
            /\ signal.direction = IF total > 0 THEN "LONG" ELSE "SHORT"

=============================================================================
