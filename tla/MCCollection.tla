----------------------------- MODULE MCCollection -----------------------------
(***************************************************************************)
(* The commands around the raw store: seeds and reviews of gates with two  *)
(* ETP backfills behind them, and the csv files of the flow study.         *)
(*                                                                         *)
(* A backfill reads the journal in one step and never again.  So the       *)
(* journal only moves until the first backfill has read it, and backfills  *)
(* only go beyond them, and are two, over the plainest journal that lets   *)
(* them: what they do there is the same over any other.  The flow study    *)
(* shares nothing with the rest and runs alone.                            *)
(***************************************************************************)
EXTENDS EtpBackfill, FlowBackfill

TheGates == {"G-04", "G-06"}
TheSeeds == <<"G-04", "G-06">>
TheSeedEnds == [g \in TheGates |-> IF g = "G-06" THEN 9 ELSE 1]

Review(gate, status, evidence, confirmed, until) ==
    [gate |-> gate, status |-> status, evidence |-> evidence, confirmed |-> confirmed,
     until |-> until]

SomeReviews ==
    { Review("G-04", "REJECTED", "reviewed", 0, 9), Review("G-04", "CONFIRMED", "reviewed", 0, 9),
      Review("G-06", "CONFIRMED", NoEvidence, 0, 9) }

-----------------------------------------------------------------------------
(* Two products: one is in both lists with other figures, one has no shares; *)
(* rows that are not single stock products, of another target or date.       *)

EtpRow(symbol, nav) ==
    [symbol |-> symbol, single |-> TRUE, named |-> TRUE, target |-> TRUE, dated |-> TRUE,
     nav |-> nav, shares |-> 5]

SomeEtpAnswers ==
    [k \in {"ETF", "ETN"} |->
        IF k = "ETF"
        THEN { <<EtpRow(1, 3), [EtpRow(2, 3) EXCEPT !.single = FALSE]>>,
               <<EtpRow(1, 4), [EtpRow(2, 3) EXCEPT !.dated = FALSE]>> }
        ELSE { <<EtpRow(1, 7), EtpRow(2, 3)>>,
               <<[EtpRow(2, 3) EXCEPT !.shares = Unset], [EtpRow(3, 1) EXCEPT !.target = FALSE]>> }]

FirstEtpAnswers == [k \in {"ETF", "ETN"} |-> CHOOSE rows \in SomeEtpAnswers[k] : TRUE]

-----------------------------------------------------------------------------
(* Csv files that are good for a symbol or for the market, one with a date   *)
(* twice, one with a blank symbol, one without dates.                        *)

FlowCell(v) == [c \in {"foreign", "volume"} |-> v]
FlowCsvRow(date, symbol, v) == [date |-> date, symbol |-> symbol, cells |-> FlowCell(v)]
FlowCsv(dated, rows) ==
    [dated |-> dated, symbols |-> TRUE, columns |-> {"foreign", "volume"}, rows |-> rows,
     short |-> [c \in {"foreign", "volume"} |-> IF c = "volume" THEN "volume" ELSE "other"]]

SomeFlowCsvs ==
    { FlowCsv(TRUE, <<FlowCsvRow(1, "000660", 3), FlowCsvRow(2, "000660", NoCell)>>),
      FlowCsv(TRUE, <<FlowCsvRow(1, "000660", 3), FlowCsvRow(1, "005930", 4)>>),
      FlowCsv(TRUE, <<FlowCsvRow(1, NoCell, 3)>>),
      FlowCsv(FALSE, <<FlowCsvRow(1, "000660", 3)>>) }

TheSymbols == [ds \in {"000660", "short"} |-> "000660"]

-----------------------------------------------------------------------------

CollectionInit ==
    /\ GateInit /\ EtpInit /\ FlowFileInit
    /\ \A k \in {"ETF", "ETN"} : \A d \in EtpDates : etpKrx[k][d] = FirstEtpAnswers[k]

PastGates == {"fetch", "store", "save", "link"}

FilesUntouched == downloads = 0

JournalUntouched ==
    journal = <<>> /\ gateClock = 0 /\ \A s \in Seeders : seeder[s] = IdleSeeder

GateStep ==
    /\ \A r \in EtpRuns : etpRun[r].phase \in {"off", "gates"}
    /\ FilesUntouched
    /\ GateNext /\ UNCHANGED <<etpVars, flowFileVars>>

FirstRun == CHOOSE r \in EtpRuns : TRUE

Plain == gateClock = 0 /\ reviewed = 0 /\ \A s \in Seeders : seeder[s] = IdleSeeder

EtpStep ==
    /\ FilesUntouched
    /\ \/ EtpNext /\ Plain /\ \E r \in EtpRuns : etpRun[r].phase \in PastGates
       \/ \E r \in EtpRuns :
            /\ Plain \/ r = FirstRun
            /\ StartEtp(r) \/ CheckGates(r)
            /\ UNCHANGED gateVars
    /\ UNCHANGED flowFileVars

FlowFileStep ==
    /\ JournalUntouched /\ \A r \in EtpRuns : etpRun[r].phase = "off"
    /\ FlowFileNext /\ UNCHANGED <<gateVars, etpVars>>

CollectionNext == GateStep \/ EtpStep \/ FlowFileStep

CollectionSpec == CollectionInit /\ [][CollectionNext]_<<gateVars, etpVars, flowFileVars>>

=============================================================================
