------------------------- MODULE H1CollectionProofs -------------------------
\* Theorems about H1Collection, for any calendar, window, bounds and faults.
EXTENDS H1Collection, FiniteSetTheorems, WellFoundedInduction, TLAPS

\* The catalog is a table over the dedupe keys.
CanonIsTable == canon = [k \in Keys |-> canon[k]]

\* Only StoreRecord changes the catalog.
LEMMA OtherStepsKeepCatalog ==
    ASSUME [Next]_vars, ~StoreRecord
    PROVE  canon' = canon
BY DEF Next, vars, history, Start, Exit, Process, ReceiveAny, Receive, StartRun,
       NothingDue, Leave, GetKey, Connect, Expire, Await, RejectRecord, FrameDone,
       KeyFails, ConnectFails, SocketCloses, StoreFails, Finish, Abandon, DropFrame,
       Tick, Signal, Crash, Down, End

\* StoreRecord fills one empty entry with the payload of the current frame, after
\* store_packet accepted the record.
LEMMA StoreRecordStep ==
    ASSUME CanonIsTable, StoreRecord, NEW k \in Keys, canon'[k] # canon[k]
    PROVE  /\ k = DedupeKey(run.day, NextRecord)
           /\ canon'[k] = pending.payload
           /\ Acceptable(run.day, NextRecord, pending.payload.received)
BY DEF CanonIsTable, StoreRecord, Store!Put

\* The catalog never gains or loses a key.
THEOREM CanonIsTableTheorem == Spec => []CanonIsTable
<1>1. Init => CanonIsTable
  BY DEF Init, CanonIsTable
<1>2. CanonIsTable /\ [Next]_vars => CanonIsTable'
  <2>1. CASE StoreRecord
    BY <2>1 DEF CanonIsTable, StoreRecord, Store!Put
  <2>2. CASE ~StoreRecord
    BY <2>2, OtherStepsKeepCatalog DEF CanonIsTable
  <2>3. QED
    BY <2>1, <2>2
<1>3. QED
  BY <1>1, <1>2, PTL DEF Spec

\* Nothing outside the capture window of its trading day is ever stored.
THEOREM StoredInsideWindowTheorem == Spec => []StoredInsideWindow
<1>1. Init => StoredInsideWindow
  BY DEF Init, StoredInsideWindow
<1>2. CanonIsTable /\ StoredInsideWindow /\ [Next]_vars => StoredInsideWindow'
  <2> SUFFICES ASSUME CanonIsTable, StoredInsideWindow, [Next]_vars,
                      NEW k \in Keys, canon'[k] # None
               PROVE  /\ At(k.day, WindowStart) <= canon'[k].received
                      /\ canon'[k].received <= At(k.day, WindowEnd)
                      /\ At(k.day, k.event) <= canon'[k].received
    BY DEF StoredInsideWindow
  <2>1. CASE canon'[k] = canon[k]
    BY <2>1 DEF StoredInsideWindow
  <2>2. CASE canon'[k] # canon[k]
    <3>1. StoreRecord
      BY <2>2, OtherStepsKeepCatalog
    <3>2. /\ k = DedupeKey(run.day, NextRecord)
          /\ canon'[k] = pending.payload
          /\ Acceptable(run.day, NextRecord, pending.payload.received)
      BY <2>2, <3>1, StoreRecordStep
    <3>3. k.day = run.day /\ k.event = NextRecord.event
      BY <3>2 DEF DedupeKey
    <3>4. QED
      BY <3>2, <3>3 DEF Acceptable
  <2>3. QED
    BY <2>1, <2>2
<1>3. QED
  BY <1>1, <1>2, CanonIsTableTheorem, PTL DEF Spec

-----------------------------------------------------------------------------

\* The modes in which a collection run is in progress, and in which it has the
\* open socket.
Active == {"approving", "connecting", "looping", "waiting", "storing"}
Open == {"looping", "waiting", "storing"}

ModeInv == IF mode \in Active THEN run \in Runs ELSE run = None

\* The days recorded as completed have begun, and pruning keeps a day that is
\* not before any of them.
CompletedInv ==
    /\ completed \subseteq finished
    /\ \A d \in finished : d <= Today
    /\ \A d \in finished : \E e \in completed : d <= e

\* A run is for a day that has begun and is not recorded yet; it will last until
\* the end of the day's window at least.
ScheduleInv ==
    /\ mode \in Active => /\ run.day <= Today /\ run.day \notin finished
                          /\ At(run.day, WindowEnd) <= now + run.duration
    /\ mode \in Open => At(run.day, WindowEnd) <= run.until

H1Inv == TypeOK /\ ModeInv /\ CompletedInv /\ ScheduleInv

-----------------------------------------------------------------------------

LEMMA LeastNatural ==
    ASSUME NEW S \in SUBSET Nat, S # {}
    PROVE  \E x \in S : \A y \in S : x <= y
<1> DEFINE R == OpToRel(<, Nat)
<1>1. IsWellFoundedOn(R, Nat)
  BY NatLessThanWellFounded
<1>2. \A y, x \in Nat : y < x => <<y, x>> \in R
  BY DEF OpToRel
<1> HIDE DEF R
<1>3. PICK x \in S : \A y \in S : ~ (<<y, x>> \in R)
  BY <1>1, WFMin
<1>4. \A y \in S : ~ (y < x)
  BY <1>2, <1>3
<1>5. QED
  BY <1>4

LEMMA LatestDay ==
    ASSUME NEW S \in SUBSET TradingDays, S # {}
    PROVE  \E x \in S : \A y \in S : y <= x
<1> DEFINE T == {LastDay - d : d \in S}
<1>1. LastDay \in Nat /\ S \subseteq 0..LastDay
  BY CalendarAssumption
<1>2. T \in SUBSET Nat /\ T # {}
  <2>1. \A d \in S : LastDay - d \in Nat
    BY <1>1
  <2>2. QED
    BY <2>1
<1> HIDE DEF T
<1>3. PICK t \in T : \A u \in T : t <= u
  BY <1>2, LeastNatural
<1>4. PICK x \in S : t = LastDay - x
  BY DEF T
<1>5. \A y \in S : LastDay - y \in T
  BY DEF T
<1>6. \A y \in S : LastDay - x <= LastDay - y
  BY <1>3, <1>4, <1>5
<1>7. QED
  BY <1>1, <1>6

\* Pruning keeps a part of the dates, and the latest of them.
LEMMA PruneKeepsLatest ==
    ASSUME NEW days \in SUBSET TradingDays
    PROVE  /\ Prune(days) \subseteq days
           /\ \A d \in days : \E e \in Prune(days) : d <= e
<1>1. days \subseteq Int
  BY CalendarAssumption
<1>2. Prune(days) \subseteq days
  BY DEF Prune
<1>3. ASSUME NEW d \in days
      PROVE  \E e \in Prune(days) : d <= e
  <2>1. PICK x \in days : \A y \in days : y <= x
    BY LatestDay
  <2>2. {e \in days : e > x} = {}
    <3>1. \A e \in days : ~(e > x)
      BY <1>1, <2>1
    <3>2. QED
      BY <3>1
  <2>3. Cardinality({e \in days : e > x}) = 0
    BY <2>2, FS_EmptySet
  <2>4. x \in Prune(days)
    BY <2>3, PruneAssumption DEF Prune
  <2>5. QED
    BY <2>1, <2>4
<1>4. QED
  BY <1>2, <1>3

\* The parts of a moment, and days do not go backwards.
LEMMA Moments ==
    ASSUME NEW t \in Nat
    PROVE  /\ t \div DayLength \in Nat /\ t % DayLength \in 0..(DayLength - 1)
           /\ t = At(t \div DayLength, t % DayLength)
           /\ \A u \in Nat : t <= u => t \div DayLength <= u \div DayLength
<1>1. DayLength \in Nat \ {0}
  BY CalendarAssumption
<1>2. t = ((t \div DayLength) * DayLength) + (t % DayLength)
  BY <1>1
<1>3. t \div DayLength \in Nat /\ t % DayLength \in 0..(DayLength - 1)
  BY <1>1
<1>4. \A u \in Nat : t <= u => t \div DayLength <= u \div DayLength
  BY <1>1
<1>5. QED
  BY <1>2, <1>3, <1>4 DEF At

-----------------------------------------------------------------------------

LEMMA TickTypes ==
    /\ LastTick \in Int /\ DayLength \in Nat \ {0} /\ WindowEnd \in 0..(DayLength - 1)
    /\ TypeOK => now \in Nat /\ Today \in Nat /\ now = At(Today, TimeOf(now))
                 /\ TimeOf(now) \in 0..(DayLength - 1)
<1>1. /\ DayLength \in Nat \ {0} /\ WindowEnd \in 0..(DayLength - 1)
      /\ (LastDay + 1) * DayLength \in Int
  BY CalendarAssumption
<1>2. LastTick \in Int
  BY <1>1 DEF LastTick
<1>3. TypeOK => now \in Nat
  BY <1>2 DEF TypeOK
<1>4. QED
  BY <1>1, <1>2, <1>3, Moments DEF Today, TimeOf

\* Steps that leave the run, the records and the catalog as they are.
LEMMA QuietSteps ==
    ASSUME TypeOK, ModeInv,
           \/ Start \/ NothingDue \/ Leave \/ GetKey \/ Await \/ FrameDone
           \/ Tick \/ Signal \/ End \/ UNCHANGED vars
    PROVE  TypeOK' /\ ModeInv'
<1>1. CASE Start \/ Leave \/ GetKey \/ Await \/ End \/ UNCHANGED vars
  BY <1>1 DEF TypeOK, ModeInv, Active, Modes, vars, history, Start, Leave, GetKey, Await, End
<1>2. CASE NothingDue
  <2>1. Prune(completed) \in SUBSET TradingDays
    BY PruneKeepsLatest DEF TypeOK
  <2>2. QED
    BY <1>2, <2>1 DEF TypeOK, ModeInv, Active, Modes, history, NothingDue
<1>3. CASE FrameDone
  BY <1>3 DEF TypeOK, ModeInv, Active, Modes, history, FrameDone, NoFrame
<1>4. CASE Tick
  <2>1. now' \in 0..LastTick
    BY <1>4, TickTypes DEF Tick, TypeOK
  <2>2. mode' \in Modes /\ (mode' \in Active <=> mode \in Active)
    BY <1>4 DEF Tick, Awaiting, Modes, Active
  <2>3. QED
    BY <1>4, <2>1, <2>2 DEF TypeOK, ModeInv, history, Tick
<1>5. CASE Signal
  BY <1>5, FaultAssumption DEF TypeOK, ModeInv, history, Signal, Fault
<1>6. QED
  BY <1>1, <1>2, <1>3, <1>4, <1>5

\* Steps that begin, connect, end or give up a run, and a process that dies.
LEMMA RunSteps ==
    ASSUME TypeOK, ModeInv,
           \/ StartRun \/ Connect \/ Expire \/ SocketCloses \/ KeyFails \/ ConnectFails
           \/ Crash \/ Exit
    PROVE  TypeOK' /\ ModeInv'
<1>1. CASE StartRun
  <2>1. Remaining \in 1..DayLength
    BY <1>1, TickTypes DEF StartRun, Due, Remaining
  <2>2. 0 \in 0..(LastTick + DayLength)
    BY TickTypes DEF TypeOK
  <2>3. run' \in Runs
    BY <1>1, <2>1, <2>2 DEF StartRun, Due, Runs
  <2>4. QED
    BY <1>1, <2>3 DEF TypeOK, ModeInv, Active, Modes, history, StartRun
<1>2. CASE Connect
  <2>1. run \in Runs
    BY <1>2 DEF Connect, ModeInv, Active
  <2>2. now + run.duration \in 0..(LastTick + DayLength)
    BY <2>1, TickTypes DEF TypeOK, Runs
  <2>3. run' \in Runs
    BY <1>2, <2>1, <2>2 DEF Connect, Runs
  <2>4. QED
    BY <1>2, <2>3 DEF TypeOK, ModeInv, Active, Modes, history, Connect
<1>3. CASE Expire \/ SocketCloses
  <2>1. /\ Finish /\ faults' \in 0..MaxFaults /\ mode \in Active
    BY <1>3, FaultAssumption DEF Expire, SocketCloses, Fault, Active, TypeOK
  <2>2. run.day \in TradingDays
    BY <2>1 DEF ModeInv, Runs
  <2>3. Prune(completed \cup {run.day}) \in SUBSET TradingDays
    BY <2>2, PruneKeepsLatest DEF TypeOK
  <2>4. QED
    BY <2>1, <2>2, <2>3 DEF TypeOK, ModeInv, Active, Modes, Finish
<1>4. CASE KeyFails \/ ConnectFails
  <2>1. Abandon /\ faults' \in 0..MaxFaults
    BY <1>4, FaultAssumption DEF KeyFails, ConnectFails, Fault, TypeOK
  <2>2. Prune(completed) \in SUBSET TradingDays
    BY PruneKeepsLatest DEF TypeOK
  <2>3. QED
    BY <2>1, <2>2 DEF TypeOK, ModeInv, Active, Modes, Abandon, history
<1>5. CASE Crash \/ Exit
  <2>1. Down /\ faults' \in 0..MaxFaults
    BY <1>5, FaultAssumption DEF Crash, Exit, Fault, TypeOK
  <2>2. QED
    BY <2>1 DEF TypeOK, ModeInv, Active, Modes, Down, NoFrame
<1>6. QED
  BY <1>1, <1>2, <1>3, <1>4, <1>5

\* Steps that handle the records of a frame.
LEMMA FrameSteps ==
    ASSUME TypeOK, ModeInv, ReceiveAny \/ StoreRecord \/ RejectRecord \/ StoreFails
    PROVE  TypeOK' /\ ModeInv'
<1>1. ASSUME NEW records \in Seq(Records), Receive(records)
      PROVE  TypeOK' /\ ModeInv'
  <2>1. frames' \in 0..MaxFrames /\ frames + 1 \in 1..MaxFrames
    BY <1>1, FaultAssumption DEF Receive, TypeOK
  <2>2. pending' \in [records : Seq(Records), payload : Payloads \cup {None}]
    BY <1>1, <2>1 DEF Receive, Payloads, TypeOK
  <2>3. QED
    BY <1>1, <2>1, <2>2 DEF TypeOK, ModeInv, Active, Modes, Receive, history
<1>2. CASE ReceiveAny
  <2>1. \A r, q \in LiveRecords : <<r>> \in Seq(Records) /\ <<r, q>> \in Seq(Records)
    BY DEF LiveRecords
  <2>2. QED
    BY <1>1, <1>2, <2>1 DEF ReceiveAny
<1>3. CASE StoreRecord
  <2>1. pending.records \in Seq(Records) /\ pending.records # <<>>
    BY <1>3 DEF StoreRecord, TypeOK
  <2>2. Tail(pending.records) \in Seq(Records)
    BY <2>1
  <2> DEFINE rest == Tail(pending.records)
  <2> HIDE DEF rest
  <2>3. pending' = [pending EXCEPT !.records = rest]
    BY <1>3 DEF StoreRecord, rest
  <2>4. pending' \in [records : Seq(Records), payload : Payloads \cup {None}]
    BY <2>2, <2>3 DEF TypeOK, rest
  <2>5. canon' \in [Keys -> Payloads \cup {None}]
    BY <1>3 DEF StoreRecord, Store!Put, TypeOK
  <2>6. QED
    BY <1>3, <2>4, <2>5 DEF TypeOK, ModeInv, Active, StoreRecord, history
<1>4. CASE RejectRecord \/ StoreFails
  <2>1. DropFrame /\ faults' \in 0..MaxFaults /\ mode = "storing"
    BY <1>4, FaultAssumption DEF RejectRecord, StoreFails, Fault, TypeOK
  <2>2. run \in Runs
    BY <2>1 DEF ModeInv, Active
  <2>3. {pending.records[i] : i \in DOMAIN pending.records} \subseteq Records
    BY DEF TypeOK
  <2>4. lost' \in SUBSET (TradingDays \X Records)
    BY <2>1, <2>2, <2>3 DEF DropFrame, TypeOK, Runs
  <2>5. QED
    BY <2>1, <2>2, <2>4 DEF TypeOK, ModeInv, Active, Modes, DropFrame, NoFrame
<1>5. QED
  BY <1>2, <1>3, <1>4

LEMMA TypeStep == TypeOK /\ ModeInv /\ [Next]_vars => TypeOK' /\ ModeInv'
BY QuietSteps, RunSteps, FrameSteps DEF Next, Process

LEMMA TypeInit == Init => TypeOK /\ ModeInv
<1> SUFFICES ASSUME Init PROVE TypeOK /\ ModeInv
  OBVIOUS
<1>1. 0 \in 0..LastTick /\ 0 \in 0..MaxFrames /\ 0 \in 0..MaxFaults
  <2> DEFINE ticks == (LastDay + 1) * DayLength
  <2>1. ticks \in Int /\ ticks >= 1 /\ LastTick = ticks - 1
    BY CalendarAssumption DEF LastTick
  <2> HIDE DEF ticks
  <2>2. LastTick \in Int /\ LastTick >= 0
    BY <2>1
  <2>3. MaxFrames \in Nat /\ MaxFaults \in Nat
    BY FaultAssumption
  <2>4. QED
    BY <2>2, <2>3
<1>2. NoFrame \in [records : Seq(Records), payload : Payloads \cup {None}]
  <2>1. <<>> \in Seq(Records)
    OBVIOUS
  <2>2. QED
    BY <2>1 DEF NoFrame
<1>3. canon \in [Keys -> Payloads \cup {None}]
  BY DEF Init
<1>4. QED
  BY <1>1, <1>2, <1>3 DEF Init, TypeOK, ModeInv, Active, Modes

-----------------------------------------------------------------------------

LEMMA DaysAreNumbers == TradingDays \subseteq Int /\ \A d \in TradingDays : At(d, WindowEnd) \in Int
<1>1. TradingDays \subseteq Int /\ DayLength \in Int /\ WindowEnd \in Int
  BY CalendarAssumption
<1>2. QED
  BY <1>1 DEF At

LEMMA ClockStep == TypeOK /\ [Next]_vars => now' = now \/ now' = now + 1
BY DEF Next, vars, history, Start, Exit, Process, ReceiveAny, Receive, StartRun,
       NothingDue, Leave, GetKey, Connect, Expire, Await, StoreRecord, RejectRecord, FrameDone,
       KeyFails, ConnectFails, SocketCloses, StoreFails, Finish, Abandon, DropFrame,
       Tick, Signal, Crash, Down, End

\* Days do not go backwards.
LEMMA DaysPass ==
    ASSUME TypeOK, TypeOK', [Next]_vars
    PROVE  /\ now \in Nat /\ now' \in Nat /\ now <= now'
           /\ Today \in Nat /\ Today' \in Nat /\ Today <= Today'
<1>1. now \in Nat /\ now' \in Nat
  BY TickTypes DEF TypeOK
<1>2. now <= now'
  BY <1>1, ClockStep
<1>3. QED
  BY <1>1, <1>2, Moments DEF Today

\* A day that begins a run is not recorded, although pruning may have dropped it:
\* it would be the latest day recorded, which pruning keeps.
LEMMA DueIsNew ==
    ASSUME TypeOK, CompletedInv, Due
    PROVE  Today \notin finished
<1> SUFFICES ASSUME Today \in finished PROVE FALSE
  OBVIOUS
<1>1. PICK e \in completed : Today <= e
  BY DEF CompletedInv
<1>2. e <= Today /\ e \in Int
  BY DaysAreNumbers DEF CompletedInv, TypeOK
<1>3. e = Today
  BY <1>1, <1>2, TickTypes
<1>4. QED
  BY <1>1, <1>3 DEF Due

\* What recording a day, or none, and pruning keeps.
LEMMA Recorded ==
    ASSUME TypeOK, CompletedInv, NEW new \in SUBSET TradingDays, \A d \in new : d <= Today
    PROVE  /\ Prune(completed \cup new) \subseteq finished \cup new
           /\ \A d \in finished \cup new : d <= Today
           /\ \A d \in finished \cup new : \E e \in Prune(completed \cup new) : d <= e
<1> DEFINE kept == Prune(completed \cup new)
<1>1. completed \cup new \in SUBSET TradingDays /\ TradingDays \subseteq Int
  BY CalendarAssumption DEF TypeOK
<1>2. kept \subseteq completed \cup new /\ \A d \in completed \cup new : \E e \in kept : d <= e
  BY <1>1, PruneKeepsLatest
<1> HIDE DEF kept
<1>3. ASSUME NEW d \in finished \cup new
      PROVE  \E e \in kept : d <= e
  <2>1. PICK c \in completed \cup new : d <= c
    <3>1. CASE d \in new
      BY <1>1, <3>1
    <3>2. CASE d \in finished
      BY <3>2 DEF CompletedInv
    <3>3. QED
      BY <3>1, <3>2
  <2>2. PICK e \in kept : c <= e
    BY <1>2
  <2>3. d \in Int /\ c \in Int /\ e \in Int
    BY <1>1, <1>2 DEF TypeOK
  <2>4. QED
    BY <2>1, <2>2, <2>3
<1>4. QED
  BY <1>2, <1>3 DEF CompletedInv, kept

LEMMA CompletedStep ==
    ASSUME TypeOK, ModeInv, CompletedInv, ScheduleInv, TypeOK', [Next]_vars
    PROVE  CompletedInv'
<1>1. Today <= Today' /\ Today \in Nat /\ Today' \in Nat /\ finished \subseteq Int
  BY DaysPass, DaysAreNumbers DEF TypeOK
<1>2. CASE UNCHANGED <<completed, finished>>
  BY <1>1, <1>2 DEF CompletedInv
<1>3. CASE NothingDue \/ KeyFails \/ ConnectFails
  <2>1. completed' = Prune(completed) /\ finished' = finished /\ now' = now
    BY <1>3 DEF NothingDue, KeyFails, ConnectFails, Abandon, history
  <2>2. completed \cup {} = completed /\ finished \cup {} = finished /\ {} \in SUBSET TradingDays
    OBVIOUS
  <2>3. /\ Prune(completed) \subseteq finished
        /\ \A d \in finished : \E e \in Prune(completed) : d <= e
    BY <2>2, Recorded
  <2>4. QED
    BY <1>1, <2>1, <2>3 DEF CompletedInv
<1>4. CASE Expire \/ SocketCloses
  <2>1. Finish /\ mode \in Active
    BY <1>4 DEF Expire, SocketCloses, Active
  <2>2. run.day \in TradingDays /\ run.day <= Today
    BY <2>1 DEF ModeInv, Runs, ScheduleInv
  <2>3. /\ completed' = Prune(completed \cup {run.day}) /\ finished' = finished \cup {run.day}
        /\ now' = now
    BY <2>1 DEF Finish
  <2>4. Today' = Today
    BY <2>3 DEF Today
  <2>5. /\ Prune(completed \cup {run.day}) \subseteq finished \cup {run.day}
        /\ \A d \in finished \cup {run.day} : d <= Today
        /\ \A d \in finished \cup {run.day} : \E e \in Prune(completed \cup {run.day}) : d <= e
    BY <2>2, Recorded
  <2>6. QED
    BY <2>3, <2>4, <2>5 DEF CompletedInv
<1>5. CASE Crash \/ Exit
  BY <1>5 DEF CompletedInv, Crash, Exit, Down
<1>6. QED
  BY <1>2, <1>3, <1>4, <1>5
  DEF Next, vars, history, Start, Process, ReceiveAny, Receive, StartRun, Leave, GetKey, Connect,
      Await, StoreRecord, RejectRecord, FrameDone, StoreFails, DropFrame, Tick, Signal, End

LEMMA ScheduleStep ==
    ASSUME TypeOK, ModeInv, CompletedInv, ScheduleInv, TypeOK', [Next]_vars
    PROVE  ScheduleInv'
<1>1. /\ Today <= Today' /\ Today \in Nat /\ Today' \in Nat
      /\ now \in Nat /\ now' \in Nat /\ now <= now'
  BY DaysPass
<1>2. \A day \in TradingDays : day \in Int /\ At(day, WindowEnd) \in Int
  BY DaysAreNumbers
<1>3. mode \in Active => run \in Runs /\ run.day \in TradingDays /\ run.duration \in Nat
  BY TickTypes DEF ModeInv, Runs
<1>4. CASE StartRun
  <2>1. run' = [day |-> Today, duration |-> Remaining, until |-> 0] /\ now' = now
        /\ mode' = "approving" /\ finished' = finished
    BY <1>4 DEF StartRun, history
  <2>2. Today' = Today /\ Today \notin finished
    BY <1>4, <2>1, DueIsNew DEF StartRun, Today
  <2>3. At(Today, WindowEnd) = now + Remaining
    <3> DEFINE days == Today * DayLength
    <3>1. now = days + TimeOf(now) /\ days \in Int /\ TimeOf(now) \in Int /\ WindowEnd \in Int
      BY TickTypes DEF At
    <3>2. At(Today, WindowEnd) = days + WindowEnd
      BY DEF At
    <3> HIDE DEF days
    <3>3. QED
      BY <3>1, <3>2 DEF Remaining
  <2>4. At(Today, WindowEnd) \in Int
    BY <1>2, <1>4 DEF StartRun, Due
  <2>5. QED
    BY <1>1, <2>1, <2>2, <2>3, <2>4 DEF ScheduleInv, Open, Active
<1>5. CASE Connect
  <2>1. /\ mode \in Active /\ now' = now /\ finished' = finished
        /\ run' = [run EXCEPT !.until = now + run.duration]
    BY <1>5 DEF Connect, Active, history
  <2>2. run'.day = run.day /\ run'.duration = run.duration /\ run'.until = now + run.duration
    BY <1>3, <2>1 DEF Runs
  <2>3. Today' = Today
    BY <2>1 DEF Today
  <2>4. QED
    BY <2>1, <2>2, <2>3 DEF ScheduleInv
<1>6. CASE mode' \notin Active
  BY <1>6 DEF ScheduleInv, Active, Open
<1>7. CASE /\ run' = run /\ finished' = finished /\ mode \in Active
           /\ mode' \in Open => mode \in Open
  <2>1. At(run.day, WindowEnd) \in Int /\ run.day \in Int
    BY <1>2, <1>3, <1>7
  <2>2. QED
    BY <1>1, <1>3, <1>7, <2>1 DEF ScheduleInv
<1>8. QED
  <2>1. CASE \/ GetKey \/ Await \/ ReceiveAny \/ StoreRecord \/ RejectRecord \/ StoreFails
             \/ FrameDone
    BY <1>7, <2>1 DEF GetKey, Await, ReceiveAny, Receive, StoreRecord, RejectRecord, StoreFails,
                      DropFrame, FrameDone, Active, Open, history
  <2>2. CASE \/ Start \/ Exit \/ NothingDue \/ Leave \/ Expire \/ KeyFails \/ ConnectFails
             \/ SocketCloses \/ Crash
    BY <1>6, <2>2 DEF Start, Exit, NothingDue, Leave, Expire, KeyFails, ConnectFails, SocketCloses,
                      Crash, Finish, Abandon, Down, Active
  <2>3. CASE Tick
    BY <1>6, <1>7, <2>3 DEF Tick, Awaiting, Active, Open, history
  <2>4. CASE Signal \/ End \/ UNCHANGED vars
    BY <1>6, <1>7, <2>4 DEF Signal, End, vars, history
  <2>5. QED
    BY <1>4, <1>5, <2>1, <2>2, <2>3, <2>4 DEF Next, Process

LEMMA H1InvHolds == Spec => []H1Inv
<1>1. Init => H1Inv
  BY TypeInit DEF H1Inv, Init, CompletedInv, ScheduleInv, Active, Open
<1>2. H1Inv /\ [Next]_vars => H1Inv'
  BY TypeStep, CompletedStep, ScheduleStep DEF H1Inv
<1>3. QED
  BY <1>1, <1>2, PTL DEF Spec

\* The scheduler keeps its types: in particular a run is one of a trading day, and
\* what is stored is a payload of a frame that was received.
THEOREM TypeCorrect == Spec => []TypeOK
BY H1InvHolds, PTL DEF H1Inv

\* A process never collects a day again that it has recorded as completed,
\* although _completed_dates is pruned: the latest day survives every pruning and
\* the clock never goes back behind it.
THEOREM NoRunAfterCompletionTheorem == Spec => []NoRunAfterCompletion
<1>1. H1Inv => NoRunAfterCompletion
  BY DEF H1Inv, ModeInv, ScheduleInv, NoRunAfterCompletion
<1>2. QED
  BY <1>1, H1InvHolds, PTL

\* Only a stop signal or a closed socket makes a process record a day before its
\* window is over: the time that approval and connection took is added at the end.
THEOREM CompletedEarlyOnlyWhenCutTheorem == Spec => CompletedEarlyOnlyWhenCut
<1>1. ASSUME H1Inv, [Next]_vars, NEW d \in finished' \ finished
      PROVE  now >= At(d, WindowEnd) \/ stop \/ (mode = "waiting" /\ faults' > faults)
  <2>1. CASE Expire
    <3>1. d = run.day /\ mode \in Open /\ (stop \/ now >= run.until)
      BY <1>1, <2>1 DEF Expire, Finish, Open
    <3>2. run \in Runs /\ At(run.day, WindowEnd) <= run.until
      BY <1>1, <3>1 DEF H1Inv, ModeInv, ScheduleInv, Active, Open
    <3>3. At(run.day, WindowEnd) \in Int /\ run.until \in Int /\ now \in Int
      <4>1. run.day \in TradingDays /\ run.until \in 0..(LastTick + DayLength)
        BY <3>2 DEF Runs
      <4>2. run.until \in Int
        BY <4>1, TickTypes
      <4>3. now \in Int
        BY <1>1, TickTypes DEF H1Inv
      <4>4. QED
        BY <4>1, <4>2, <4>3, DaysAreNumbers
    <3>4. QED
      BY <3>1, <3>2, <3>3
  <2>2. CASE SocketCloses
    BY <1>1, <2>2, FaultAssumption DEF SocketCloses, Fault, H1Inv, TypeOK
  <2>3. CASE finished' \subseteq finished
    BY <1>1, <2>3
  <2>4. QED
    BY <1>1, <2>1, <2>2, <2>3
    DEF Next, vars, history, Start, Exit, Process, ReceiveAny, Receive, StartRun, NothingDue, Leave,
        GetKey, Connect, Await, StoreRecord, RejectRecord, FrameDone, KeyFails, ConnectFails,
        StoreFails, Abandon, DropFrame, Tick, Signal, Crash, Down, End
<1>2. H1Inv /\ [Next]_vars =>
        [\A d \in finished' \ finished :
            now >= At(d, WindowEnd) \/ stop \/ (mode = "waiting" /\ faults' > faults)]_vars
  BY <1>1
<1>3. QED
  BY <1>2, H1InvHolds, PTL DEF Spec, CompletedEarlyOnlyWhenCut

=============================================================================
