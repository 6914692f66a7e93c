----------------------------- MODULE EtpBackfill -----------------------------
(***************************************************************************)
(* execute_krx_etp_backfill: behind the gates a run asks KRX day by day    *)
(* for the ETF and then the ETN rows, stores each answer as raw record,    *)
(* and saves of each leveraged product found in both a snapshot and the    *)
(* edge to its raw record, every step in a transaction of its own.  Runs   *)
(* overlap, die and are repeated; KRX may revise an answer between two     *)
(* requests.                                                               *)
(*                                                                         *)
(* A raw record is named by the run that stored it: a run asks once for a  *)
(* dataset and day.  The counters of the result, the pauses between the    *)
(* requests and the instrument master, new for each day, are left out.     *)
(***************************************************************************)
EXTENDS GateJournal

CONSTANTS
    EtpRuns,        \* run ids, each used by one process
    EtpDays,        \* bound: the dates asked for are 1..EtpDays
    EtpAnswers,     \* bound: rows KRX may answer, by kind
    MaxEtpRevisions,\* bound
    EtpRetries,     \* max_rate_limit_retries
    Unset           \* no record, no figure

ASSUME EtpAssumption ==
    EtpDays \in Nat \ {0} /\ {EtpRetries, MaxEtpRevisions} \subseteq Nat

VARIABLES
    etpKrx,         \* what KRX answers, by kind and day
    etpRevisions,
    etpRaw,         \* canonical raw records, by kind and day
    etpSnapshots,   \* normalized records, by symbol and day
    etpEdges,       \* lineage_edge
    etpRun          \* etpRun[r]: where run r is

etpCatalogs == <<etpRaw, etpSnapshots, etpEdges>>
etpVars == <<etpKrx, etpRevisions, etpCatalogs, etpRun>>

Kinds == <<"ETF", "ETN">>
EtpDates == 1..EtpDays
AllAnswers == UNION {EtpAnswers[k] : k \in ToSet(Kinds)}
AllRows == UNION {ToSet(rows) : rows \in AllAnswers}
EtpSymbols == {row.symbol : row \in AllRows}

RawRecords == [rows : AllAnswers, by : EtpRuns]
SnapshotRecords ==
    [kind : ToSet(Kinds), row : AllRows, raw : ToSet(Kinds) \X EtpDates \X EtpRuns]

\* Answers are lists of rows; symbols are ordered as numbers are.
ASSUME AnswerAssumption ==
    /\ AllAnswers \subseteq Seq(AllRows) /\ EtpSymbols \subseteq Nat
    /\ Unset \notin RawRecords /\ Unset \notin SnapshotRecords

IdleRun == [phase |-> "off", asOf |-> 0, saw |-> 0, day |-> 1, kind |-> 1, attempts |-> 0,
            answers |-> <<>>, ids |-> <<>>, left |-> {}]

EtpInit ==
    /\ etpKrx \in {k \in [ToSet(Kinds) -> [EtpDates -> AllAnswers]] :
                    \A x \in ToSet(Kinds), d \in EtpDates : k[x][d] \in EtpAnswers[x]}
    /\ etpRevisions = 0
    /\ etpRaw = [x \in ToSet(Kinds) \X EtpDates |-> Unset]
    /\ etpSnapshots = [x \in EtpSymbols \X EtpDates |-> Unset]
    /\ etpEdges = {}
    /\ etpRun = [r \in EtpRuns |-> IdleRun]

EtpGoto(r, phase) == etpRun' = [etpRun EXCEPT ![r].phase = phase]

\* A correction of KRX between two requests.
ReviseEtp ==
    /\ etpRevisions < MaxEtpRevisions
    /\ \E k \in ToSet(Kinds), d \in EtpDates : \E rows \in EtpAnswers[k] \ {etpKrx[k][d]} :
        etpKrx' = [etpKrx EXCEPT ![k][d] = rows]
    /\ etpRevisions' = etpRevisions + 1
    /\ UNCHANGED <<etpCatalogs, etpRun>>

-----------------------------------------------------------------------------

\* The run takes the time its gates are judged at, then loads the journal.
StartEtp(r) ==
    /\ etpRun[r].phase = "off"
    /\ etpRun' = [etpRun EXCEPT ![r].phase = "gates", ![r].asOf = gateClock]
    /\ UNCHANGED <<etpKrx, etpRevisions, etpCatalogs>>

CheckGates(r) ==
    /\ etpRun[r].phase = "gates"
    /\ etpRun' = [etpRun EXCEPT ![r] =
            IF Loadable(journal) /\ GatesOpen(journal, etpRun[r].asOf)
            THEN [@ EXCEPT !.phase = "fetch", !.saw = Len(journal)]
            ELSE [IdleRun EXCEPT !.phase = "blocked"]]
    /\ UNCHANGED <<etpKrx, etpRevisions, etpCatalogs>>

\* fetch_with_pacing: an answer, a rate limit while attempts are left, or an error.
FetchEtp(r) ==
    /\ etpRun[r].phase = "fetch"
    /\ \/ etpRun' = [etpRun EXCEPT ![r].phase = "store", ![r].attempts = 0,
                        ![r].answers = Append(@, etpKrx[Kinds[etpRun[r].kind]][etpRun[r].day])]
       \/ /\ etpRun[r].attempts < EtpRetries
          /\ etpRun' = [etpRun EXCEPT ![r].attempts = @ + 1]
       \/ EtpGoto(r, "failed")
    /\ UNCHANGED <<etpKrx, etpRevisions, etpCatalogs>>

Slot(r) == <<Kinds[etpRun[r].kind], etpRun[r].day>>

\* _classify_product: a row with names that tell no product, or a basis date
\* that is not the one asked for, is excluded.
Classified(row) == row.named /\ row.dated

\* discover_and_register_krx_leveraged_universe: of the rows of both answers
\* those of single stock products on the target, the first of each symbol.
Tagged(answers) ==
    [i \in DOMAIN answers[1] |-> [kind |-> "ETF", row |-> answers[1][i]]]
        \o [i \in DOMAIN answers[2] |-> [kind |-> "ETN", row |-> answers[2][i]]]

Discovered(answers) ==
    LET all == Tagged(answers)
        Found(i) == all[i].row.single /\ Classified(all[i].row) /\ all[i].row.target
    IN  {all[i] : i \in {i \in DOMAIN all :
            /\ Found(i)
            /\ \A k \in 1..(i - 1) : Found(k) => all[k].row.symbol # all[i].row.symbol}}

\* Products without a value or a number of shares are excluded.
Observed(answers) ==
    {p \in Discovered(answers) : p.row.nav # Unset /\ p.row.shares # Unset}

\* Mutant: the record is named by the run that asked, canonical or not.
StoredByItself(r) == r

\* What store() answers: the canonical record, this one's or an earlier one's.
StoredBy(r) == IF etpRaw[Slot(r)] = Unset THEN r ELSE etpRaw[Slot(r)].by

RawConflicts(r) ==
    etpRaw[Slot(r)] # Unset /\ etpRaw[Slot(r)].rows # Last(etpRun[r].answers)

\* persist_raw, the store as CanonicalStore promises it; then the other dataset
\* or the products of the day.
StoreEtp(r) ==
    /\ etpRun[r].phase = "store"
    /\ IF RawConflicts(r)
       THEN EtpGoto(r, "conflict") /\ UNCHANGED etpRaw
       ELSE /\ etpRaw' = [etpRaw EXCEPT ![Slot(r)] =
                    IF @ = Unset THEN [rows |-> Last(etpRun[r].answers), by |-> r] ELSE @]
            /\ etpRun' = IF etpRun[r].kind = 1
                         THEN [etpRun EXCEPT ![r].ids = Append(@, StoredBy(r)), ![r].kind = 2,
                                             ![r].phase = "fetch"]
                         ELSE [etpRun EXCEPT ![r].ids = Append(@, StoredBy(r)),
                                             ![r].left = Observed(etpRun[r].answers),
                                             ![r].phase = "save"]
    /\ UNCHANGED <<etpKrx, etpRevisions, etpSnapshots, etpEdges>>

-----------------------------------------------------------------------------

\* Products are sorted by class and symbol.
First(products) ==
    CHOOSE p \in products : \A q \in products :
        \/ p.kind = "ETF" /\ q.kind = "ETN"
        \/ p.kind = q.kind /\ p.row.symbol <= q.row.symbol

RawId(r, p) ==
    <<p.kind, etpRun[r].day, etpRun[r].ids[IF p.kind = "ETF" THEN 1 ELSE 2]>>

EtpSnapshot(r, p) == [kind |-> p.kind, row |-> p.row, raw |-> RawId(r, p)]

\* save_normalized_record_idempotent under the id of symbol and day.
SaveEtp(r) ==
    /\ etpRun[r].phase = "save" /\ etpRun[r].left # {}
    /\ LET p == First(etpRun[r].left)
           child == <<p.row.symbol, etpRun[r].day>>
       IN  IF etpSnapshots[child] \in {Unset, EtpSnapshot(r, p)}
           THEN /\ etpSnapshots' = [etpSnapshots EXCEPT ![child] = EtpSnapshot(r, p)]
                /\ EtpGoto(r, "link")
           ELSE EtpGoto(r, "conflict") /\ UNCHANGED etpSnapshots
    /\ UNCHANGED <<etpKrx, etpRevisions, etpRaw, etpEdges>>

EtpEdge(r, p) == [run |-> r, raw |-> RawId(r, p), child |-> <<p.row.symbol, etpRun[r].day>>]

LinkEtp(r) ==
    /\ etpRun[r].phase = "link"
    /\ LET p == First(etpRun[r].left)
       IN  /\ etpEdges' = etpEdges \cup {EtpEdge(r, p)}
           /\ etpRun' = [etpRun EXCEPT ![r].phase = "save", ![r].left = @ \ {p}]
    /\ UNCHANGED <<etpKrx, etpRevisions, etpRaw, etpSnapshots>>

\* The day has no product left: the next one, or the end.
NextEtpDay(r) ==
    /\ etpRun[r].phase = "save" /\ etpRun[r].left = {}
    /\ IF etpRun[r].day = EtpDays THEN EtpGoto(r, "done")
       ELSE etpRun' = [etpRun EXCEPT ![r].phase = "fetch", ![r].day = @ + 1, ![r].kind = 1,
                                     ![r].answers = <<>>, ![r].ids = <<>>]
    /\ UNCHANGED <<etpKrx, etpRevisions, etpCatalogs>>

\* The process dies between two steps; a repetition is another run.
CrashEtp(r) ==
    /\ etpRun[r].phase \in {"fetch", "store", "save", "link"}
    /\ EtpGoto(r, "failed")
    /\ UNCHANGED <<etpKrx, etpRevisions, etpCatalogs>>

EtpNext ==
    /\ \/ ReviseEtp
       \/ \E r \in EtpRuns :
            \/ StartEtp(r) \/ CheckGates(r) \/ FetchEtp(r) \/ StoreEtp(r)
            \/ SaveEtp(r) \/ LinkEtp(r) \/ NextEtpDay(r) \/ CrashEtp(r)
    /\ UNCHANGED gateVars

\* The backfills beside everything that moves the journal.
EtpSpec ==
    /\ GateInit /\ EtpInit
    /\ [][EtpNext \/ (GateNext /\ UNCHANGED etpVars)]_<<gateVars, etpVars>>

-----------------------------------------------------------------------------

\* No run asks KRX for anything under a decision that had been overruled when
\* the run read the journal: each of its gates has a complete confirmation,
\* not expired at the run's time, and no decision recorded after that one,
\* although seeds and reviewers insert theirs in another order than they
\* recorded them.
RunsUnderStandingConfirmation ==
    \A r \in EtpRuns : etpRun[r].phase \notin {"off", "gates", "blocked"} =>
        LET seen == ToSet(SubSeq(journal, 1, etpRun[r].saw))
        IN  \A gate \in BackfillGates : \E d \in seen :
                /\ d.gate = gate /\ d.status = "CONFIRMED"
                /\ ValidConfirmation(d) /\ etpRun[r].asOf < d.until
                /\ \A e \in seen : e.gate = gate => e.recorded <= d.recorded

\* A snapshot names a raw record that exists and holds its row, and a run that
\* ends well leaves a snapshot and its own edge for every product the raw
\* records of its days show, whichever runs stored them and died in between.
EtpSnapshotsTraced ==
    /\ \A child \in EtpSymbols \X EtpDates :
        LET s == etpSnapshots[child]
            raw == etpRaw[<<s.kind, child[2]>>]
        IN  s # Unset => /\ raw # Unset /\ s.raw = <<s.kind, child[2], raw.by>>
                         /\ s.row \in ToSet(raw.rows)
    /\ \A r \in EtpRuns, d \in EtpDates :
        etpRun[r].phase = "done" =>
            LET raws == [k \in {1, 2} |-> etpRaw[<<Kinds[k], d>>]]
            IN  \A p \in Observed([k \in {1, 2} |-> raws[k].rows]) :
                    LET child == <<p.row.symbol, d>>
                    IN  /\ etpSnapshots[child] # Unset
                        /\ [run |-> r, raw |-> etpSnapshots[child].raw, child |-> child]
                               \in etpEdges

=============================================================================
