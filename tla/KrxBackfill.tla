---------------------------- MODULE KrxBackfill ----------------------------
(***************************************************************************)
(* execute_krx_backfill: a run fetches the answer of KRX for one weekday   *)
(* after the other, backwards from its end date, stores each as canonical  *)
(* raw record, and once it has enough trading days derives the bars of its *)
(* targets, saves them as normalized records, links each to its raw record *)
(* and writes a snapshot.  Runs may overlap, repeat each other or die.     *)
(*                                                                         *)
(* A day's answer carries a value or no row for each target; other rows    *)
(* are left out, so an answer without any target is not an empty one.      *)
(* The time of receipt of an answer, and the id of its raw record, are     *)
(* named by the run that received it: a run asks for a day at most once    *)
(* (OneRequestPerDay).  Run ids are fresh (uuid4).                         *)
(***************************************************************************)
EXTENDS Integers, FiniteSets

CONSTANTS
    Runs,         \* run ids, each used by one process
    NumTargets,   \* targets are handled in the order 1, 2, ...
    LastDay,      \* bound: the days are 0..LastDay
    Weekdays, TradingDays,
    Ends,         \* end dates that a run may be given
    Values,       \* values of a row
    Offers,       \* answers KRX may give for a trading day
    Published,    \* trading days KRX has published when the behaviour starts
    MaxRevisions, \* bound: corrections KRX makes
    MinDays,      \* minimum_trading_days
    Lookback,     \* max_lookback_calendar_days
    MaxRetries,   \* max_rate_limit_retries
    None, Absent, \* no entry; no row for a target
    Empty         \* the answer without rows

Targets == 1..NumTargets
Days == 0..LastDay
Answers == [Targets -> Values \cup {Absent}] \cup {Empty}

Bars == [value : Values, received : Runs]
Fetched == [answer : Answers, received : Runs]

ASSUME CountsAssumption ==
    /\ {LastDay, MaxRevisions, Lookback, MaxRetries} \subseteq Nat
    /\ {NumTargets, MinDays} \subseteq Nat \ {0}
ASSUME CalendarAssumption ==
    /\ TradingDays \subseteq Weekdays /\ Weekdays \subseteq Days
    /\ Published \subseteq TradingDays /\ Ends \subseteq Days
ASSUME AnswersAssumption ==
    /\ Offers \subseteq Answers \ {Empty}
    /\ Empty \notin [Targets -> Values \cup {Absent}]
    /\ Absent \notin Values /\ None \notin Runs \cup Answers \cup Bars \cup Fetched

VARIABLES
    krx,          \* krx[d]: what KRX answers for day d
    revisions,    \* corrections so far
    canon,        \* raw_record_catalog: day -> answer
    receipt,      \* received_at_utc (and raw_record_id) of the canonical record
    normalized,   \* normalized_record_catalog: <<target, day>> -> bar
    edges,        \* lineage_edge
    snapshots,    \* snapshots[r]: the parquet rows of run r
    phase,        \* where run r is, or how it ended
    end,          \* its end date
    cursor,       \* the weekday it is asking for
    attempts,     \* rate-limited attempts for that day
    answer,       \* the answer it has received but not stored
    cache,        \* _daily_cache
    target,       \* the target it is working on
    left          \* days whose bar is not saved and linked yet

catalogs == <<canon, receipt, normalized, edges, snapshots>>
market == <<krx, revisions>>
vars == <<market, catalogs, phase, end, cursor, attempts, answer, cache, target, left>>

Store == INSTANCE CanonicalStore WITH
            Collectors <- Runs, Keys <- Days, Payloads <- Answers,
            request <- [r \in Runs |-> None]

Working == {"seeking", "fetching", "storing", "covering", "saving", "linking", "writing"}
Over == {"done", "blocked", "too_few", "raw_conflict", "incomplete",
         "normalized_conflict", "failed"}

Edges == [run : Runs, raw : Days \X Runs, child : Targets \X Days]
Rows == [target : Targets, day : Days, value : Values]

TypeOK ==
    /\ krx \in [Days -> Answers]
    /\ revisions \in 0..MaxRevisions
    /\ canon \in [Days -> Answers \cup {None}]
    /\ receipt \in [Days -> Runs \cup {None}]
    /\ normalized \in [Targets \X Days -> Bars \cup {None}]
    /\ edges \in SUBSET Edges
    /\ snapshots \in [Runs -> SUBSET Rows]
    /\ phase \in [Runs -> {"idle"} \cup Working \cup Over]
    /\ end \in [Runs -> Days]
    /\ cursor \in [Runs -> 0..(LastDay + 1)]
    /\ attempts \in [Runs -> 0..MaxRetries]
    /\ answer \in [Runs -> Answers \cup {None}]
    /\ cache \in [Runs -> [Days -> Fetched \cup {None}]]
    /\ target \in [Runs -> Targets \cup {0}]
    /\ left \in [Runs -> SUBSET Days]

Init ==
    /\ krx \in {k \in [Days -> Offers \cup {Empty}] :
                    \A d \in Days : k[d] # Empty <=> d \in Published}
    /\ revisions = 0
    /\ canon = [d \in Days |-> None]
    /\ receipt = [d \in Days |-> None]
    /\ normalized = [x \in Targets \X Days |-> None]
    /\ edges = {}
    /\ snapshots = [r \in Runs |-> {}]
    /\ phase = [r \in Runs |-> "idle"]
    /\ end = [r \in Runs |-> 0]
    /\ cursor = [r \in Runs |-> 0]
    /\ attempts = [r \in Runs |-> 0]
    /\ answer = [r \in Runs |-> None]
    /\ cache = [r \in Runs |-> [d \in Days |-> None]]
    /\ target = [r \in Runs |-> 0]
    /\ left = [r \in Runs |-> {}]

-----------------------------------------------------------------------------
(* KRX. *)

Publish(d) ==
    /\ d \in TradingDays /\ krx[d] = Empty
    /\ \E a \in Offers : krx' = [krx EXCEPT ![d] = a]
    /\ UNCHANGED <<revisions, catalogs, phase, end, cursor, attempts, answer, cache,
                   target, left>>

Revise(d) ==
    /\ krx[d] # Empty /\ revisions < MaxRevisions
    /\ \E a \in Offers \ {krx[d]} : krx' = [krx EXCEPT ![d] = a]
    /\ revisions' = revisions + 1
    /\ UNCHANGED <<catalogs, phase, end, cursor, attempts, answer, cache, target, left>>

-----------------------------------------------------------------------------
(* prefetch_latest_trading_days. *)

IsEarliest(d, S) == d \in S /\ \A e \in S : d <= e
IsLatest(d, S) == d \in S /\ \A e \in S : e <= d

Goto(r, p) == phase' = [phase EXCEPT ![r] = p]

\* The gates G-04 and G-06 are checked before the first request.
Begin(r) ==
    /\ phase[r] = "idle"
    /\ \E e \in Ends :
          /\ end' = [end EXCEPT ![r] = e]
          /\ cursor' = [cursor EXCEPT ![r] = e + 1]
    /\ Goto(r, "seeking")
    /\ UNCHANGED <<market, catalogs, attempts, answer, cache, target, left>>

Blocked(r) ==
    /\ phase[r] = "idle"
    /\ Goto(r, "blocked")
    /\ UNCHANGED <<market, catalogs, end, cursor, attempts, answer, cache, target, left>>

Cached(r) == {d \in Days : cache[r][d] # None}
Open(r) == {d \in Cached(r) : cache[r][d].answer # Empty}
Closed(r) == Cached(r) \ Open(r)

\* Weekdays inside the lookback that come before the cursor.
Older(r) == {d \in Weekdays : end[r] - Lookback < d /\ d < cursor[r]}

NextDay(r) ==
    /\ phase[r] = "seeking"
    /\ Cardinality(Open(r)) < MinDays
    /\ \E d \in Weekdays :
          IsLatest(d, Older(r)) /\ cursor' = [cursor EXCEPT ![r] = d]
    /\ attempts' = [attempts EXCEPT ![r] = 0]
    /\ Goto(r, "fetching")
    /\ UNCHANGED <<market, catalogs, end, answer, cache, target, left>>

TooFewDays(r) ==
    /\ phase[r] = "seeking"
    /\ Cardinality(Open(r)) < MinDays
    /\ Older(r) = {}
    /\ Goto(r, "too_few")
    /\ UNCHANGED <<market, catalogs, end, cursor, attempts, answer, cache, target, left>>

EnoughDays(r) ==
    /\ phase[r] = "seeking"
    /\ Cardinality(Open(r)) >= MinDays
    /\ target' = [target EXCEPT ![r] = 1]
    /\ Goto(r, "covering")
    /\ UNCHANGED <<market, catalogs, end, cursor, attempts, answer, cache, left>>

Fetch(r) ==
    /\ phase[r] = "fetching"
    /\ answer' = [answer EXCEPT ![r] = krx[cursor[r]]]
    /\ Goto(r, "storing")
    /\ UNCHANGED <<market, catalogs, end, cursor, attempts, cache, target, left>>

\* Mutant: the attempts of a day are counted from zero again.
RateLimitedForever(r) ==
    /\ phase[r] = "fetching"
    /\ attempts' = [attempts EXCEPT ![r] = IF @ < MaxRetries THEN @ + 1 ELSE 0]
    /\ UNCHANGED <<market, catalogs, phase, end, cursor, answer, cache, target, left>>

\* Mutant: one attempt more than max_rate_limit_retries.
RateLimitedOnceMore(r) ==
    /\ phase[r] = "fetching"
    /\ IF attempts[r] <= MaxRetries
       THEN attempts' = [attempts EXCEPT ![r] = @ + 1] /\ UNCHANGED phase
       ELSE Goto(r, "failed") /\ UNCHANGED attempts
    /\ UNCHANGED <<market, catalogs, end, cursor, answer, cache, target, left>>

\* ProviderRateLimitError: wait and ask again, or give up.
RateLimited(r) ==
    /\ phase[r] = "fetching"
    /\ IF attempts[r] < MaxRetries
       THEN attempts' = [attempts EXCEPT ![r] = @ + 1] /\ UNCHANGED phase
       ELSE Goto(r, "failed") /\ UNCHANGED attempts
    /\ UNCHANGED <<market, catalogs, end, cursor, answer, cache, target, left>>

Agrees(r) == Store!Verdict(canon, cursor[r], answer[r]) # "conflict"

PutRaw(r) ==
    /\ canon' = Store!Put(canon, cursor[r], answer[r])
    /\ receipt' = [receipt EXCEPT ![cursor[r]] = IF canon[cursor[r]] = None THEN r ELSE @]
    /\ UNCHANGED <<normalized, edges, snapshots>>

Remember(r, received) ==
    cache' = [cache EXCEPT ![r][cursor[r]] = [answer |-> answer[r], received |-> received]]

\* Mutant: a conflict is not an error.
StoreRawIgnoringConflict(r) ==
    /\ phase[r] = "storing"
    /\ PutRaw(r)
    /\ Remember(r, receipt'[cursor[r]])
    /\ answer' = [answer EXCEPT ![r] = None]
    /\ Goto(r, "seeking")
    /\ UNCHANGED <<market, end, cursor, attempts, target, left>>

\* Mutant: the observer returns nothing, the provider keeps its own clock.
StoreRawOwnTime(r) ==
    /\ phase[r] = "storing"
    /\ Agrees(r)
    /\ PutRaw(r)
    /\ Remember(r, r)
    /\ answer' = [answer EXCEPT ![r] = None]
    /\ Goto(r, "seeking")
    /\ UNCHANGED <<market, end, cursor, attempts, target, left>>

\* Mutant: a day without rows is not cached.
StoreRawForgettingClosed(r) ==
    /\ phase[r] = "storing"
    /\ Agrees(r)
    /\ PutRaw(r)
    /\ IF answer[r] = Empty THEN UNCHANGED cache ELSE Remember(r, receipt'[cursor[r]])
    /\ answer' = [answer EXCEPT ![r] = None]
    /\ Goto(r, "seeking")
    /\ UNCHANGED <<market, end, cursor, attempts, target, left>>

\* record_daily_raw; the answer is cached with the canonical time of receipt.
StoreRaw(r) ==
    /\ phase[r] = "storing"
    /\ Agrees(r)
    /\ PutRaw(r)
    /\ Remember(r, receipt'[cursor[r]])
    /\ answer' = [answer EXCEPT ![r] = None]
    /\ Goto(r, "seeking")
    /\ UNCHANGED <<market, end, cursor, attempts, target, left>>

\* KrxRawPersistenceConflictError.
RawConflict(r) ==
    /\ phase[r] = "storing"
    /\ ~Agrees(r)
    /\ Goto(r, "raw_conflict")
    /\ UNCHANGED <<market, catalogs, end, cursor, attempts, answer, cache, target, left>>

-----------------------------------------------------------------------------
(* The targets, one after the other. *)

\* Weekdays from the first to the last trading date found; get_bars reads them all.
Span(r) == {d \in Weekdays : \E first, last \in Open(r) : first <= d /\ d <= last}

BarDays(r, t) == {d \in Span(r) \cap Open(r) : cache[r][d].answer[t] # Absent}

BarOf(r, t, d) == [value |-> cache[r][d].answer[t], received |-> cache[r][d].received]

\* Mutant: some bar is enough.
CoveredAtAll(r) == BarDays(r, target[r]) # {}

\* verify_trading_day_coverage and meets_minimum: the resolver knows the closed
\* weekdays from the answers themselves.
Covered(r) ==
    LET expected == Span(r) \ Closed(r)
    IN  expected \subseteq BarDays(r, target[r]) /\ Cardinality(expected) >= MinDays

Cover(r) ==
    /\ phase[r] = "covering"
    /\ Covered(r)
    /\ left' = [left EXCEPT ![r] = BarDays(r, target[r])]
    /\ Goto(r, "saving")
    /\ UNCHANGED <<market, catalogs, end, cursor, attempts, answer, cache, target>>

Incomplete(r) ==
    /\ phase[r] = "covering"
    /\ ~Covered(r)
    /\ Goto(r, "incomplete")
    /\ UNCHANGED <<market, catalogs, end, cursor, attempts, answer, cache, target, left>>

\* save_normalized_record_idempotent: insert, or compare with what is there.
SaveNormalized(r, d) ==
    /\ phase[r] = "saving"
    /\ IsEarliest(d, left[r])
    /\ LET child == <<target[r], d>>
           bar == BarOf(r, target[r], d)
       IN  IF normalized[child] \in {None, bar}
           THEN normalized' = [normalized EXCEPT ![child] = bar] /\ Goto(r, "linking")
           ELSE UNCHANGED normalized /\ Goto(r, "normalized_conflict")
    /\ UNCHANGED <<market, canon, receipt, edges, snapshots, end, cursor, attempts, answer,
                   cache, target, left>>

Edge(r, t, d) == [run |-> r, raw |-> <<d, cache[r][d].received>>, child |-> <<t, d>>]

\* add_lineage_edge, in a transaction of its own; then the next bar or target.
Link(r, d) ==
    /\ phase[r] = "linking"
    /\ IsEarliest(d, left[r])
    /\ edges' = edges \cup {Edge(r, target[r], d)}
    /\ left' = [left EXCEPT ![r] = @ \ {d}]
    /\ IF left[r] # {d} THEN Goto(r, "saving") /\ UNCHANGED target
       ELSE IF target[r] < NumTargets
       THEN Goto(r, "covering") /\ target' = [target EXCEPT ![r] = @ + 1]
       ELSE Goto(r, "writing") /\ UNCHANGED target
    /\ UNCHANGED <<market, canon, receipt, normalized, snapshots, end, cursor, attempts,
                   answer, cache>>

\* ParquetSnapshotWriter.write: the bars are those held in memory.
WriteSnapshot(r) ==
    /\ phase[r] = "writing"
    /\ snapshots' = [snapshots EXCEPT ![r] =
          {row \in Rows : /\ row.day \in BarDays(r, row.target)
                          /\ row.value = BarOf(r, row.target, row.day).value}]
    /\ Goto(r, "done")
    /\ UNCHANGED <<market, canon, receipt, normalized, edges, end, cursor, attempts, answer,
                   cache, target, left>>

\* The process dies, or KRX, the database or the disk raises: nothing is undone.
Fail(r) ==
    /\ phase[r] \in Working
    /\ Goto(r, "failed")
    /\ UNCHANGED <<market, catalogs, end, cursor, attempts, answer, cache, target, left>>

-----------------------------------------------------------------------------

Step(r) ==
    \/ NextDay(r) \/ TooFewDays(r) \/ EnoughDays(r)
    \/ Fetch(r) \/ RateLimited(r) \/ StoreRaw(r) \/ RawConflict(r)
    \/ Cover(r) \/ Incomplete(r) \/ WriteSnapshot(r)
    \/ \E d \in Days : SaveNormalized(r, d) \/ Link(r, d)

Next ==
    \/ \E r \in Runs : Begin(r) \/ Blocked(r) \/ Step(r) \/ Fail(r)
    \/ \E d \in Days : Publish(d) \/ Revise(d)

Spec == Init /\ [][Next]_vars

\* Requests have timeouts and waits are finite, so a live process makes its steps.
FairSpec == Spec /\ \A r \in Runs : WF_vars(Step(r))

-----------------------------------------------------------------------------

\* Every row of a snapshot can be traced: it is the normalized record of its
\* target and day, linked by that run to the canonical raw record, whose answer
\* holds the value; also when KRX corrects a day between two runs.
SnapshotTraceable ==
    \A r \in Runs : \A row \in snapshots[r] :
        LET d == row.day
            child == <<row.target, d>>
        IN  /\ normalized[child] = [value |-> row.value, received |-> receipt[d]]
            /\ [run |-> r, raw |-> <<d, receipt[d]>>, child |-> child] \in edges
            /\ canon[d] \notin {None, Empty} /\ canon[d][row.target] = row.value

\* Repeating a backfill, or running two at once, never contradicts a normalized
\* record: what differs between the answers is caught at the raw record.
RerunsNeverConflict == \A r \in Runs : phase[r] # "normalized_conflict"

\* After the prefetch get_bars finds every weekday it reads in the cache, so a
\* run asks KRX for a day at most once.
OneRequestPerDay ==
    \A r \in Runs : phase[r] \in {"covering", "saving", "linking", "writing"} =>
        Span(r) \subseteq Cached(r)

\* A snapshot holds every target on the latest MinDays trading days up to its end
\* date, without a gap, unless KRX answered one of them without rows.
SnapshotComplete ==
    \A r \in Runs : phase[r] = "done" =>
        LET days == {d \in TradingDays : d <= end[r]}
            latest == {d \in days : Cardinality({e \in days : e > d}) < MinDays}
        IN  Closed(r) \cap TradingDays = {} =>
                {<<row.target, row.day>> : row \in snapshots[r]} = Targets \X latest

\* A normalized record has a raw parent, unless the run that saved it is about
\* to link it.
NormalizedHasParent ==
    \A x \in Targets \X Days : normalized[x] # None =>
        \/ \E e \in edges : e.child = x
        \/ \E r \in Runs : phase[r] = "linking" /\ target[r] = x[1] /\ IsEarliest(x[2], left[r])

\* Every run comes to an end, however often KRX limits its requests.
RunsEnd == \A r \in Runs : (phase[r] \in Working) ~> (phase[r] \in Over)

=============================================================================
