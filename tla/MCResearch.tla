----------------------------- MODULE MCResearch ------------------------------
(* The research commands of the program, each started from nothing with the *)
(* inputs of its section below: the command line runs one at a time, and    *)
(* none reads what another one keeps in memory.                             *)
EXTENDS TLC, H1Live, H1Replay, WalkForward, Prefalsification, FlowStudy,
        OfiFeature, OfiValidation, RiskSizing

-----------------------------------------------------------------------------
(* The live snapshot: one stock, one fund; references and fund inputs with   *)
(* one defect each.                                                          *)

LiveStocks == <<"hynix">>
LiveFunds == <<"etf">>

Reference(close, basis, received) ==
    [close |-> close, maxMove |-> 5, basis |-> basis, received |-> received]

SomeReferences ==
    {<<r, Reference(101, "prior", 0)>> :
        r \in {Reference(101, "prior", 0), Reference(101, "prior", 4),
               Reference(101, "same", 0), Reference(90, "prior", 0)}}

Observed(value, available) == [value |-> value, available |-> available]

Fund(id, beta, auction, published) ==
    [id |-> id, effective |-> "prior", aum |-> 10, published |-> published,
     fitted |-> "prior", kappaAvailable |-> 0, kappa |-> 1, beta |-> beta,
     auction |-> auction, program |-> Observed(0, 0), creation |-> Observed(1, 1),
     multiplier |-> Observed(-1, 0)]

SomeFundInputs ==
    { <<>>,
      <<Fund("etf", 2, Observed(1, 2), 0)>>, <<Fund("etf", 2, Observed(-3, 1), 0)>>,
      <<Fund("etf", 2, Observed(1, 4), 0)>>, <<Fund("etf", 2, Missing, 0)>>,
      <<Fund("etf", 2, Observed(1, 1), 3)>>, <<Fund("other", 2, Observed(1, 1), 0)>>,
      <<[Fund("etf", -2, Observed(1, 1), 0) EXCEPT !.fitted = "same"]>>,
      <<Fund("etf", -2, Observed(1, 1), 0), Fund("etf", 2, Observed(1, 1), 0)>> }

-----------------------------------------------------------------------------
(* The costs of the experiments, and the replay: days with a gain, a loss, a *)
(* partial fill, a blocked exit, an early quote, no signal.                  *)

Costs ==
    [c \in RequiredComponents("H1") |-> IF c = "tax" THEN 2 ELSE 1]
SquareRoots == [n \in 1..3, depth \in 0..9 |-> IF depth <= n THEN 2 ELSE 1]
SixFifths == <<6, 5>>
NineTenths == <<9, 10>>
Half == <<1, 2>>

DayQuote(event, bid, ask, size, blocked) ==
    [event |-> event, received |-> event, bid |-> bid, ask |-> ask,
     bidSize |-> size, askSize |-> size, blocked |-> blocked]

ReplayDay(side, entry, exit) ==
    [full |-> TRUE, signal |-> side, decision |-> 1, entry |-> entry,
     exit |-> exit @@ [auction |-> TRUE]]

SomeReplayDays ==
    { ReplayDay("LONG", DayQuote(2, 10, 11, 4, FALSE), DayQuote(4, 16, 17, 4, FALSE)),
      ReplayDay("LONG", DayQuote(2, 10, 11, 4, FALSE), DayQuote(4, 9, 10, 4, FALSE)),
      ReplayDay("SHORT", DayQuote(2, 20, 21, 4, FALSE), DayQuote(4, 10, 11, 4, FALSE)),
      ReplayDay("SHORT", DayQuote(2, 20, 21, 2, FALSE), DayQuote(4, 10, 11, 4, FALSE)),
      ReplayDay("LONG", DayQuote(2, 10, 11, 4, FALSE), DayQuote(4, 16, 17, 4, TRUE)),
      ReplayDay("LONG", DayQuote(1, 10, 11, 4, FALSE), DayQuote(4, 16, 17, 4, FALSE)),
      ReplayDay("NONE", DayQuote(2, 10, 11, 4, FALSE), DayQuote(4, 16, 17, 4, FALSE)) }

SomeStoredCounts == [{"quotes", "flows"} -> {0, 1}]
OneOfEach == [k \in {"quotes", "flows"} |-> 1]

-----------------------------------------------------------------------------
(* The walk-forward study: nine stored bars, more, as many and fewer than    *)
(* the study takes, two of one date, bars without volume or turnover.        *)

StoredBar(d, open, close, volume) ==
    [date |-> d, open |-> open, close |-> close, turnover |-> 5 * close, volume |-> volume]
StoredFund(d, beta) == [id |-> "etf", date |-> d, beta |-> beta, listed |-> 40]

DailyPrices == <<10, 11, 9, 9, 12, 10, 11, 13, 12, 14>>
StoredBars(volumes) ==
    [d \in 1..9 |-> StoredBar(d, DailyPrices[d], DailyPrices[d + 1], volumes[d])]
Liquid == [d \in 1..9 |-> 2 + (d % 2)]
Thin == [d \in 1..9 |-> d % 3]

SomeCatalogs ==
    { [bars |-> Reverse(StoredBars(v)), funds |-> [k \in 1..n |-> StoredFund(k + 1, beta)]] :
        v \in {Liquid, Thin}, n \in {0, 4, 8}, beta \in {-2, 1, 2} } \cup
    { [bars |-> SubSeq(StoredBars(Liquid), 1, n), funds |-> [k \in 1..6 |-> StoredFund(k + 1, 2)]] :
        n \in {5, 7, 8} } \cup
    { [bars |-> Append(StoredBars(Liquid), StoredBar(9, 1, 1, 1)), funds |-> <<>>],
      [bars |-> StoredBars(Liquid), funds |-> <<StoredFund(4, 2), StoredFund(4, -2)>>],
      [bars |-> [StoredBars(Liquid) EXCEPT ![4].turnover = 0],
       funds |-> <<StoredFund(4, 2), StoredFund(5, -2)>>] }

-----------------------------------------------------------------------------
(* The prefalsification study: days KRX answers with every series, with one, *)
(* with none, and closed ones; files that are good, ambiguous or empty.      *)

KrxDay(open, names, indexed) ==
    [stocks |-> open, kospi |-> open, series |-> names, indexRows |-> indexed,
     open |-> 3, close |-> 4, turnover |-> 2, returns |-> [f \in Factors |-> 1]]

SomeKrxDays ==
    { KrxDay(TRUE, {"KRX", "KOSPI200"}, TRUE), KrxDay(TRUE, {"KOSPI200"}, TRUE),
      KrxDay(TRUE, {}, TRUE), KrxDay(FALSE, {}, FALSE) }

CsvRow(date, value) == [mine |-> TRUE, date |-> date, value |-> value]
Csv(rows) == [readable |-> TRUE, rows |-> rows]

SomeProgramCsvs ==
    { Csv(<<CsvRow(1, 1), CsvRow(2, 3), CsvRow(3, 2), CsvRow(4, 1), CsvRow(5, 2),
            [mine |-> FALSE, date |-> 4, value |-> 9]>>),
      Csv(<<CsvRow(3, 2), CsvRow(3, 1)>>), Csv(<<CsvRow(2, NoValue)>>),
      [readable |-> FALSE, rows |-> <<CsvRow(3, 2)>>] }

Timed(value, event) ==
    [has |-> TRUE, value |-> value, event |-> event, available |-> event, unit |-> TRUE]

StrongDay(d) ==
    [date |-> d, program |-> Timed(d % 3, 4 * d + 2), reference |-> Timed(3, 4 * d + 1),
     close |-> Timed(3 + (d % 2), 4 * d + 2), auction |-> Timed(2, 4 * d + 2),
     turnover |-> Timed(2, 4 * d + 2), controls |-> [f \in Factors |-> Timed(1, 4 * d + 2)]]

Strong == [d \in 1..5 |-> StrongDay(d)]

SomeStrongInputs ==
    { Strong, SubSeq(Strong, 1, 3), Reverse(Strong),
      [Strong EXCEPT ![2].program.available = 20],
      [Strong EXCEPT ![2].turnover.available = 20],
      [Strong EXCEPT ![2].reference.event = 5],
      [Strong EXCEPT ![3].controls["kospi"].has = FALSE],
      [Strong EXCEPT ![3].close.event = 13, ![3].close.available = 13],
      [Strong EXCEPT ![3].close.available = 3] }

-----------------------------------------------------------------------------
(* The flow study: all seen in every file, seen only some files have, short  *)
(* sales with holes, and each file missing once.                             *)

FourScopes == {"hynix", "samsung", "semiconductor", "market"}
FlowDays == 1..8

FlowFiles(seen, shorts, prices, trainEnd) ==
    [flows |-> [s \in FourScopes |-> IF s = "market" THEN seen ELSE FlowDays],
     shorts |-> shorts, prices |-> prices, trainEnd |-> trainEnd]
AllShorts == [d \in FlowDays |-> {"volume", "balance"}]
Returns(target, peer) == [s \in Symbols |-> IF s = "hynix" THEN target ELSE peer]

SomeFlowInputs ==
    { FlowFiles(seen, AllShorts, Returns(FlowDays, FlowDays), 4) :
        seen \in SUBSET FlowDays } \cup
    { FlowFiles(FlowDays, [AllShorts EXCEPT ![4] = {"volume"}, ![5] = {}], Returns(3..8, 2..7), 5),
      FlowFiles(FlowDays, AllShorts, Returns({}, {}), 5),
      FlowFiles(FlowDays, AllShorts, Returns(FlowDays, {}), 5),
      FlowFiles(FlowDays, AllShorts, NotGiven, 5),
      FlowFiles(FlowDays, NotGiven, Returns(FlowDays, {}), 5),
      FlowFiles(FlowDays, AllShorts, Returns(FlowDays, {}), NotGiven),
      [FlowFiles({}, AllShorts, Returns(FlowDays, FlowDays), 5)
        EXCEPT !.flows = [s \in {"hynix"} |-> FlowDays]],
      [FlowFiles({}, AllShorts, Returns(FlowDays, FlowDays), 5)
        EXCEPT !.flows = [s \in FourScopes |-> {}]] }

-----------------------------------------------------------------------------
(* The order flow feature: one to three quotes and program events each, at   *)
(* any moments before, in and after the window.                              *)

BookAt(t) ==
    [time |-> t, bid |-> 10 + (t % 2), ask |-> 11 + (t % 2), bidQty |-> 1 + (t % 3),
     askQty |-> 2, bidDepth |-> 5, askDepth |-> 3, complete |-> TRUE]
ProgramAt(t) == [time |-> t, net |-> (t % 3) - 1, krx |-> TRUE, known |-> TRUE]

TimesUpTo3(moments) ==
    {s \in UNION {[1..n -> moments] : n \in 1..3} : \A i, k \in DOMAIN s : i < k => s[i] < s[k]}

SomeWindows ==
    { [quotes |-> [i \in DOMAIN qs |-> BookAt(qs[i])],
       programs |-> [i \in DOMAIN ps |-> ProgramAt(ps[i])], semantics |-> semantics,
       adv |-> [value |-> 10, available |-> 0], flags |-> flags] :
        qs \in TimesUpTo3(1..6), ps \in TimesUpTo3(0..6),
        semantics \in {"CUMULATIVE", "INCREMENTAL"}, flags \in {{}} } \cup
    { [quotes |-> <<BookAt(1), BookAt(5)>>,
       programs |-> <<ProgramAt(1), [ProgramAt(5) EXCEPT !.time = late]>>,
       semantics |-> semantics, adv |-> adv, flags |-> flags] :
        late \in {5, NoTime}, semantics \in {"CUMULATIVE", "UNSEALED"}, flags \in {{}, {"halted"}},
        adv \in {[value |-> 10, available |-> 0], [value |-> 10, available |-> 6]} }

-----------------------------------------------------------------------------
(* The order flow validation: up to eight days, some without a target, costs *)
(* or a fill; days that are not live or of one date.                         *)

OfiMoves == <<8, -6, 9, 7, 11, 10, 9, 10>>
DayFill(event, n) == [price |-> 9, quantity |-> n, wanted |-> 2, age |-> 1, book |-> TRUE, event |-> event]
CostSet(d) == CoreCosts \cup (IF d % 2 = 0 THEN {"product"} ELSE {})
OfiDay(d, move, target) ==
    [day |-> d, live |-> TRUE, features |-> IF d = 4 THEN {"theory"} ELSE {"theory", "flow"},
     filled |-> d # 5, notional |-> d # 7, move |-> move,
     buy |-> DayFill(2, IF target THEN 2 ELSE 1), sell |-> DayFill(3, 2),
     close |-> 5, closeKnown |-> 6, product |-> d % 2 = 0,
     costs |-> CostSet(d), cost |-> Cardinality(CostSet(d)) + (IF d = 6 THEN 1 ELSE 0)]

SomeOfiObservations ==
    { [d \in 1..n |-> OfiDay(d, OfiMoves[d], d # 2)] : n \in {2, 4, 6, 7, 8} } \cup
    { [d \in 1..8 |-> OfiDay(d, OfiMoves[d], d > 3)],
      [d \in 1..8 |-> [OfiDay(d, 20, TRUE) EXCEPT !.filled = TRUE, !.notional = TRUE,
                                                   !.features = {"theory", "flow"}, !.cost = Cardinality(CostSet(d))]],
      [d \in 1..8 |-> [OfiDay(d, OfiMoves[d], TRUE) EXCEPT !.closeKnown = 6 + (d % 3),
                                                          !.buy.event = 1 + (d % 4)]],
      [d \in 1..8 |-> [OfiDay(d, 1, TRUE) EXCEPT !.live = d > 1]],
      [d \in 1..8 |-> [OfiDay(d, 1, TRUE) EXCEPT !.day = 1]] }
SomeEvidence == {{}, {"independent_source"}}

-----------------------------------------------------------------------------
(* The risk engine: one and two legs of all small sizes, liquidity, lots and *)
(* stops of either leg, and an account that meets each switch once.          *)

CONSTANTS la, lb

OrderLeg(id, n) == [id |-> id, quantity |-> n]

SomeOrders ==
    { [legs |-> legs, budget |-> budget, expires |-> 5] :
        legs \in {<<OrderLeg(la, n)>> : n \in {1, 3}}
                 \cup {<<OrderLeg(la, n), OrderLeg(lb, m)>> : n \in 1..7, m \in {2, 4, 6}}
                 \cup {<<OrderLeg(la, 1), OrderLeg(la, 1)>>},
        budget \in {0, 7, 100} }

LegContext(available, unit, stop) ==
    [market |-> "OPEN", quoted |-> 3, stop |-> stop, available |-> available,
     unit |-> unit, borrows |-> TRUE, lendable |-> TRUE, borrowUntil |-> 9]

Account(equity, a, b) ==
    [now |-> 4, equity |-> equity, current |-> 95, peak |-> 100, pnl |-> -1, gross |-> 3,
     cost |-> 2, class |-> "H1", conversion |-> "SUSPENDED", switches |-> {},
     unhedgedSince |-> Absent, legs |-> [id \in {la, lb} |-> IF id = la THEN a ELSE b]]

Sound == Account(18, LegContext(6, 1, 1), LegContext(5, 2, 3))

SomeRiskContexts ==
    { Account(equity, LegContext(a, unit, 1), LegContext(b, 2, 3)) :
        equity \in {18, 200}, a \in {1, 4, 6}, b \in {1, 5}, unit \in {1, 3} } \cup
    { [Sound EXCEPT !.now = 5], [Sound EXCEPT !.equity = 0], [Sound EXCEPT !.switches = {"data"}],
      [Sound EXCEPT !.pnl = -9], [Sound EXCEPT !.current = 80], [Sound EXCEPT !.cost = 3],
      [Sound EXCEPT !.class = "H2"], [Sound EXCEPT !.unhedgedSince = 1],
      [Sound EXCEPT !.legs[la].market = "HALTED"], [Sound EXCEPT !.legs[la].quoted = Absent],
      [Sound EXCEPT !.legs[la].quoted = 1], [Sound EXCEPT !.legs[la].stop = 0],
      [Sound EXCEPT !.legs[lb].available = Absent], [Sound EXCEPT !.legs[lb].borrowUntil = 4],
      [Sound EXCEPT !.legs = [id \in {lb} |-> Sound.legs[lb]]] }

OneTenth == <<1, 10>>
OneHalf == <<1, 2>>
TwoTicks == [c \in {"H1", "H2"} |-> 2]

-----------------------------------------------------------------------------

ResearchInit ==
    /\ LiveInit /\ ReplayInit /\ WalkForwardInit /\ StudyInit
    /\ FlowInit /\ OfiFeatureInit /\ OfiInit /\ RiskInit

\* The command that has been started; all others still are where they began.
Command(name) ==
    /\ name = "live" \/ livePhase = "off"
    /\ name = "replay" \/ replayPhase = "off"
    /\ name = "walk" \/ wfPhase = "off"
    /\ name = "study" \/ studyPhase = "off"
    /\ name = "flow" \/ flowPhase = "off"
    /\ name = "feature" \/ ofiFeature = NotYet
    /\ name = "ofi" \/ ofiPhase = "off"
    /\ name = "risk" \/ decision = "NONE"

LiveCommand ==
    /\ Command("live") /\ LiveNext
    /\ UNCHANGED <<replayVars, wfVars, studyVars, flowVars, ofiFeatureVars, ofiVars, riskVars>>

ReplayCommand ==
    /\ Command("replay") /\ ReplayNext
    /\ UNCHANGED <<liveVars, wfVars, studyVars, flowVars, ofiFeatureVars, ofiVars, riskVars>>

WalkForwardCommand ==
    /\ Command("walk") /\ WalkForwardNext
    /\ UNCHANGED <<liveVars, replayVars, studyVars, flowVars, ofiFeatureVars, ofiVars, riskVars>>

StudyCommand ==
    /\ Command("study") /\ StudyNext
    /\ UNCHANGED <<liveVars, replayVars, wfVars, flowVars, ofiFeatureVars, ofiVars, riskVars>>

FlowCommand ==
    /\ Command("flow") /\ FlowNext
    /\ UNCHANGED <<liveVars, replayVars, wfVars, studyVars, ofiFeatureVars, ofiVars, riskVars>>

FeatureCommand ==
    /\ Command("feature") /\ ComputeFeature
    /\ UNCHANGED <<liveVars, replayVars, wfVars, studyVars, flowVars, ofiVars, riskVars>>

OfiCommand ==
    /\ Command("ofi") /\ OfiNext
    /\ UNCHANGED <<liveVars, replayVars, wfVars, studyVars, flowVars, ofiFeatureVars, riskVars>>

RiskCommand ==
    /\ Command("risk") /\ EvaluateOrder
    /\ UNCHANGED <<liveVars, replayVars, wfVars, studyVars, flowVars, ofiFeatureVars, ofiVars>>

ResearchNext ==
    \/ LiveCommand \/ ReplayCommand \/ WalkForwardCommand \/ StudyCommand
    \/ FlowCommand \/ FeatureCommand \/ OfiCommand \/ RiskCommand

researchVars == <<liveVars, replayVars, wfVars, studyVars, flowVars, ofiFeatureVars, ofiVars, riskVars>>

ResearchSpec == ResearchInit /\ [][ResearchNext]_researchVars

=============================================================================
