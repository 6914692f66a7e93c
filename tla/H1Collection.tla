---------------------------- MODULE H1Collection ----------------------------
(***************************************************************************)
(* The scheduler that records the KIS public stream around the close of    *)
(* every trading day (H1CollectionScheduler.run and _execute_collection),  *)
(* with the collector it drives (H1SharedRawCollector.store_frame) and the *)
(* canonical store that collector writes to.                               *)
(*                                                                         *)
(* Time is counted in ticks.  A tick is longer than the loop interval (5 s)*)
(* and the recv timeout (1 s), so it wakes a sleeping loop and ends a wait *)
(* for a message, and shorter than the window.  The approval request and   *)
(* the connection have timeouts (10 s each), so they last at most MaxDelay *)
(* ticks.                                                                  *)
(***************************************************************************)
EXTENDS Integers, FiniteSets, Sequences

CONSTANTS
    LastDay,                  \* bound: the days are 0..LastDay
    TradingDays,              \* those of them that is_trading_day accepts
    DayLength,                \* ticks of a day
    WindowStart, WindowEnd,   \* 14:59:50 and 15:30:10, as ticks of a day
    AuctionStart, AuctionEnd, \* 15:20 and 15:30
    PruneAbove, KeepLast,     \* 10 and 5 completed dates
    Roles,                    \* feed roles; "book" is the order book
    Bodies,                   \* field values of a record
    ForeignBodies,            \* those that belong to another symbol
    None,                     \* no run, no payload
    MaxDelay,                 \* bound: ticks from the decision to the open socket
    Faults,                   \* from FaultKinds
    MaxFaults,                \* bound: faults in a behaviour
    MaxFrames                 \* bound: data frames in a behaviour

\* "key"     : the approval key request fails or times out.
\* "connect" : connecting or subscribing fails.
\* "close"   : the provider closes the socket (ConnectionClosed).
\* "store"   : RawRecorder.store raises for a record.
\* "crash"   : the process dies; launchd starts it again (KeepAlive).
\* "stop"    : SIGINT or SIGTERM.
FaultKinds == {"key", "connect", "close", "store", "crash", "stop"}

ASSUME CalendarAssumption ==
    /\ LastDay \in Nat /\ TradingDays \subseteq 0..LastDay
    /\ {DayLength, WindowStart, WindowEnd, AuctionStart, AuctionEnd} \subseteq Nat
    /\ WindowStart <= AuctionStart /\ AuctionStart <= AuctionEnd
    /\ AuctionEnd <= WindowEnd /\ WindowEnd < DayLength
ASSUME PruneAssumption == {PruneAbove, KeepLast} \subseteq Nat /\ 0 < KeepLast
ASSUME RecordAssumption == "book" \in Roles /\ ForeignBodies \subseteq Bodies
ASSUME FaultAssumption ==
    Faults \subseteq FaultKinds /\ {MaxDelay, MaxFaults, MaxFrames} \subseteq Nat

VARIABLES
    now,          \* ticks since the start of the first day
    mode,         \* where run() is
    run,          \* the collection run in progress, or None
    stop,         \* _stop_event
    completed,    \* _completed_dates
    pending,      \* records of the current frame that are not stored yet
    canon,        \* raw_record_catalog: dedupe key -> payload
    frames,       \* data frames received so far
    faults,       \* faults so far
    finished,     \* history: days this process has recorded as completed
    lost          \* history: valid records of received frames that were dropped

vars == <<now, mode, run, stop, completed, pending, canon, frames, faults,
          finished, lost>>
history == <<finished, lost>>

-----------------------------------------------------------------------------
(* Time. *)

LastTick == (LastDay + 1) * DayLength - 1
Today == now \div DayLength
TimeOf(t) == t % DayLength
At(day, time) == day * DayLength + time

\* is_within_window: both ends belong to the window.
WithinWindow(t) == WindowStart <= TimeOf(t) /\ TimeOf(t) <= WindowEnd
Remaining == WindowEnd - TimeOf(now)

-----------------------------------------------------------------------------
(* Records and their keys. *)

Times == 0..(DayLength - 1)

\* A record says a time of day only; its date is the trading date of the run.
Records == [role : Roles, event : Times, body : Bodies]

\* A frame of one or two records arrived as receipt number n at tick t; both
\* are in the payload of each of its records, and only there.
Payloads == [receipt : 1..MaxFrames, received : 0..LastTick]

Datasets == Roles \cup {"close_indicative"}

Dataset(r) ==
    IF r.role = "book" /\ AuctionStart <= r.event /\ r.event <= AuctionEnd
    THEN "close_indicative" ELSE r.role

Keys == [dataset : Datasets, day : TradingDays, event : WindowStart..WindowEnd,
         body : Bodies \ ForeignBodies]

\* compute_dedupe_key: neither the receive time nor the frame is part of it.
DedupeKey(day, r) ==
    [dataset |-> Dataset(r), day |-> day, event |-> r.event, body |-> r.body]

\* Mutant: the receive time is not checked against the window.
AcceptableLate(day, r, received) ==
    /\ r.body \notin ForeignBodies
    /\ WindowStart <= r.event /\ r.event <= WindowEnd
    /\ At(day, r.event) <= received

\* store_packet's checks: the symbol, then _assert_capture_window.
Acceptable(day, r, received) ==
    /\ r.body \notin ForeignBodies
    /\ WindowStart <= r.event /\ r.event <= WindowEnd
    /\ At(day, WindowStart) <= received /\ received <= At(day, WindowEnd)
    /\ At(day, r.event) <= received

Store == INSTANCE CanonicalStore WITH
            Collectors <- {"h1"}, request <- [c \in {"h1"} |-> None]

-----------------------------------------------------------------------------

Modes == {"down", "deciding", "approving", "connecting", "looping", "waiting",
          "storing", "sleeping", "stopped"}

Runs == [day : TradingDays, duration : 1..DayLength, until : 0..(LastTick + DayLength)]

TypeOK ==
    /\ now \in 0..LastTick
    /\ mode \in Modes
    /\ run \in Runs \cup {None}
    /\ stop \in BOOLEAN
    /\ completed \in SUBSET TradingDays
    /\ pending \in [records : Seq(Records), payload : Payloads \cup {None}]
    /\ canon \in [Keys -> Payloads \cup {None}]
    /\ frames \in 0..MaxFrames
    /\ faults \in 0..MaxFaults
    /\ finished \in SUBSET TradingDays
    /\ lost \in SUBSET (TradingDays \X Records)

NoFrame == [records |-> <<>>, payload |-> None]

Init ==
    /\ now = 0
    /\ mode = "down"
    /\ run = None
    /\ stop = FALSE
    /\ completed = {}
    /\ pending = NoFrame
    /\ canon = [k \in Keys |-> None]
    /\ frames = 0
    /\ faults = 0
    /\ finished = {}
    /\ lost = {}

-----------------------------------------------------------------------------
(* The main loop of run(). *)

\* A new process: run() clears the stop event; nothing of the old process is left.
Start ==
    /\ mode = "down"
    /\ mode' = "deciding"
    /\ stop' = FALSE
    /\ UNCHANGED <<now, run, completed, pending, canon, frames, faults, history>>

\* Mutant: sorted_dates[:5] instead of sorted_dates[-5:].
PruneLatest(days) ==
    IF Cardinality(days) <= PruneAbove THEN days
    ELSE {d \in days : Cardinality({e \in days : e < d}) < KeepLast}

\* Above PruneAbove dates only the KeepLast latest are kept.
Prune(days) ==
    IF Cardinality(days) <= PruneAbove THEN days
    ELSE {d \in days : Cardinality({e \in days : e > d}) < KeepLast}

\* Mutant: the remaining time is not compared with zero.
DueAtTheEnd ==
    Today \in TradingDays /\ Today \notin completed /\ WithinWindow(now)

\* Mutant: a run is due at the start of the window only.
DueOnce ==
    Today \in TradingDays /\ Today \notin completed /\ TimeOf(now) = WindowStart

Due ==
    /\ Today \in TradingDays
    /\ Today \notin completed
    /\ WithinWindow(now)
    /\ Remaining > 0

StartRun ==
    /\ mode = "deciding" /\ ~stop
    /\ Due
    /\ mode' = "approving"
    /\ run' = [day |-> Today, duration |-> Remaining, until |-> 0]
    /\ UNCHANGED <<now, stop, completed, pending, canon, frames, faults, history>>

NothingDue ==
    /\ mode = "deciding" /\ ~stop
    /\ ~Due
    /\ mode' = "sleeping"
    /\ completed' = Prune(completed)
    /\ UNCHANGED <<now, run, stop, pending, canon, frames, faults, history>>

Leave ==
    /\ mode = "deciding" /\ stop
    /\ mode' = "stopped"
    /\ UNCHANGED <<now, run, stop, completed, pending, canon, frames, faults, history>>

\* _execute_collection returned: the date is recorded as completed, however the
\* collection ended.
Finish ==
    /\ completed' = Prune(completed \cup {run.day})
    /\ finished' = finished \cup {run.day}
    /\ run' = None
    /\ mode' = "sleeping"
    /\ UNCHANGED <<now, stop, pending, canon, frames, lost>>

\* Mutant: the date is recorded in a finally clause.
AbandonCompleted ==
    /\ completed' = Prune(completed \cup {run.day})
    /\ finished' = finished \cup {run.day}
    /\ run' = None
    /\ mode' = "sleeping"
    /\ UNCHANGED <<now, stop, pending, canon, frames, lost>>

\* _execute_collection raised: logged, and retried by the next loop.
Abandon ==
    /\ completed' = Prune(completed)
    /\ run' = None
    /\ mode' = "sleeping"
    /\ UNCHANGED <<now, stop, pending, canon, frames, history>>

-----------------------------------------------------------------------------
(* _execute_collection. *)

Fault(kind) ==
    /\ kind \in Faults
    /\ faults < MaxFaults
    /\ faults' = faults + 1

GetKey ==
    /\ mode = "approving"
    /\ mode' = "connecting"
    /\ UNCHANGED <<now, run, stop, completed, pending, canon, frames, faults, history>>

KeyFails == mode = "approving" /\ Fault("key") /\ Abandon

\* The duration was fixed when the loop decided; it runs from here.
Connect ==
    /\ mode = "connecting"
    /\ mode' = "looping"
    /\ run' = [run EXCEPT !.until = now + run.duration]
    /\ UNCHANGED <<now, stop, completed, pending, canon, frames, faults, history>>

ConnectFails == mode = "connecting" /\ Fault("connect") /\ Abandon

\* The head of the receive loop.
Expire ==
    /\ mode = "looping"
    /\ stop \/ now >= run.until
    /\ Finish
    /\ UNCHANGED faults

Await ==
    /\ mode = "looping"
    /\ ~stop /\ now < run.until
    /\ mode' = "waiting"
    /\ UNCHANGED <<now, run, stop, completed, pending, canon, frames, faults, history>>

\* except ConnectionClosed: break.
SocketCloses == mode = "waiting" /\ Fault("close") /\ Finish

\* A data frame that decode_h1_data_frame accepts.  Events may be a tick old, or
\* a tick ahead of this machine's clock.  Other messages, and the recv timeout,
\* change nothing.
Receive(records) ==
    /\ mode = "waiting"
    /\ frames < MaxFrames
    /\ frames' = frames + 1
    /\ pending' = [records |-> records,
                   payload |-> [receipt |-> frames + 1, received |-> now]]
    /\ mode' = "storing"
    /\ UNCHANGED <<now, run, stop, completed, canon, faults, history>>

LiveRecords == {r \in Records : r.event - TimeOf(now) \in {-1, 0, 1}}

ReceiveAny ==
    \/ \E r \in LiveRecords : Receive(<<r>>)
    \/ \E r, s \in LiveRecords : r.role = s.role /\ Receive(<<r, s>>)

-----------------------------------------------------------------------------
(* store_frame: one record after the other. *)

\* What an exception of a record leaves unstored: logged, and the loop goes on.
DropFrame ==
    /\ lost' = lost \cup
          {<<run.day, r>> : r \in {q \in {pending.records[i] : i \in DOMAIN pending.records} :
              /\ Acceptable(run.day, q, pending.payload.received)
              /\ canon[DedupeKey(run.day, q)] = None}}
    /\ pending' = NoFrame
    /\ mode' = "looping"
    /\ UNCHANGED <<now, run, stop, completed, canon, frames, finished>>

NextRecord == Head(pending.records)

StoreRecord ==
    /\ mode = "storing" /\ pending.records # <<>>
    /\ Acceptable(run.day, NextRecord, pending.payload.received)
    /\ LET k == DedupeKey(run.day, NextRecord)
       IN  /\ Store!Verdict(canon, k, pending.payload) # "conflict"
           /\ canon' = Store!Put(canon, k, pending.payload)
    /\ pending' = [pending EXCEPT !.records = Tail(@)]
    /\ UNCHANGED <<now, mode, run, stop, completed, frames, faults, history>>

\* H1SharedRawCollectorError before, H1RawPersistenceConflictError after store().
RejectRecord ==
    /\ mode = "storing" /\ pending.records # <<>>
    /\ \/ ~Acceptable(run.day, NextRecord, pending.payload.received)
       \/ /\ Acceptable(run.day, NextRecord, pending.payload.received)
          /\ Store!Verdict(canon, DedupeKey(run.day, NextRecord), pending.payload) = "conflict"
    /\ DropFrame
    /\ UNCHANGED faults

StoreFails == mode = "storing" /\ pending.records # <<>> /\ Fault("store") /\ DropFrame

FrameDone ==
    /\ mode = "storing" /\ pending.records = <<>>
    /\ pending' = NoFrame
    /\ mode' = "looping"
    /\ UNCHANGED <<now, run, stop, completed, canon, frames, faults, history>>

-----------------------------------------------------------------------------
(* The environment. *)

\* Work between two awaits takes no time, and no signal handler runs in it.
Awaiting == {"approving", "connecting", "waiting", "sleeping"}

StartedAt == At(run.day, WindowEnd) - run.duration

Tick ==
    /\ now < LastTick
    /\ mode \in Awaiting
    /\ mode \in {"approving", "connecting"} => now - StartedAt < MaxDelay
    /\ now' = now + 1
    /\ mode' = CASE mode = "sleeping" -> "deciding"
                 [] mode = "waiting"  -> "looping"
                 [] OTHER             -> mode
    /\ UNCHANGED <<run, stop, completed, pending, canon, frames, faults, history>>

Signal ==
    /\ Fault("stop")
    /\ mode \in Awaiting /\ ~stop
    /\ stop' = TRUE
    /\ UNCHANGED <<now, mode, run, completed, pending, canon, frames, history>>

Down ==
    /\ mode' = "down"
    /\ run' = None
    /\ completed' = {}
    /\ finished' = {}
    /\ pending' = NoFrame
    /\ UNCHANGED <<now, stop, canon, frames, lost>>

Crash == mode # "down" /\ Fault("crash") /\ Down

\* KeepAlive: launchd also restarts a process that left its loop.
Exit == mode = "stopped" /\ Down /\ UNCHANGED faults

\* The last tick of the instance.
End == now = LastTick /\ mode \in {"waiting", "sleeping"} /\ UNCHANGED vars

Process ==
    \/ StartRun \/ NothingDue \/ Leave
    \/ GetKey \/ Connect \/ Expire \/ Await
    \/ StoreRecord \/ RejectRecord \/ FrameDone

Next ==
    \/ Start \/ Exit
    \/ Process
    \/ ReceiveAny
    \/ KeyFails \/ ConnectFails \/ SocketCloses \/ StoreFails
    \/ Tick \/ Signal \/ Crash
    \/ End

Spec == Init /\ [][Next]_vars

\* The event loop, launchd and the clock go on; faults and frames need not come.
FairSpec == Spec /\ WF_vars(Process) /\ WF_vars(Start) /\ WF_vars(Exit) /\ WF_vars(Tick)

-----------------------------------------------------------------------------

\* Every stored record belongs to a trading day, happened and was received inside
\* the capture window of that day, and was not received before it happened, also
\* when a run outlasts the window because connecting took time.
StoredInsideWindow ==
    \A k \in Keys :
        LET p == canon[k]
        IN  p # None =>
                /\ At(k.day, WindowStart) <= p.received
                /\ p.received <= At(k.day, WindowEnd)
                /\ At(k.day, k.event) <= p.received

\* A process collects a day at most once after recording it as completed, even
\* when pruning has shortened _completed_dates since.
NoRunAfterCompletion == run # None => run.day \notin finished

\* A date is recorded as completed only when its window is over.
CompletedOnlyAfterWindow == \A d \in finished : now >= At(d, WindowEnd)

\* Only a stop signal or a closed socket completes a day before that: no failed
\* request, no failed connection and no record that cannot be stored does.
CompletedEarlyOnlyWhenCut ==
    [][\A d \in finished' \ finished :
          now >= At(d, WindowEnd) \/ stop \/ (mode = "waiting" /\ faults' > faults)]_vars

\* A valid record that reached the process in a frame is stored, also when another
\* record of the frame is not.
FramesStoredWhole == lost = {}

\* Failed requests are tried again and a process that died or was stopped is started
\* again, until one process has collected the day up to the end of its window; a few
\* ticks are enough, unless the next fault comes.
WindowCollected ==
    \A d \in TradingDays, f \in 0..MaxFaults :
        (Today = d /\ WithinWindow(now) /\ Remaining > MaxDelay + 2 /\ faults = f)
            ~> (faults > f \/ (d \in finished /\ now >= At(d, WindowEnd)))

=============================================================================
