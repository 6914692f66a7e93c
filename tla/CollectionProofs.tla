--------------------------- MODULE CollectionProofs ---------------------------
(***************************************************************************)
(* Theorems about the commands around the raw store: the gate journal, the *)
(* ETP backfills it gates and the files of the flow study, for any number  *)
(* of seeds, reviews, gates, runs, days, answers, processes and csv files. *)
(*                                                                         *)
(* The journal: a seed settles its gates.  There is a newest decision of   *)
(* each gate, and only one, because a gate and a time name one decision    *)
(* (JournalInv).  What a seed has loaded was newest at some moment after   *)
(* it began, and what it inserts is only older than decisions saved after  *)
(* it began (SeederInv).                                                   *)
(***************************************************************************)
EXTENDS EtpBackfill, FlowBackfill, FiniteSetTheorems, WellFoundedInduction, TLAPS

GateRows ==
    {Reviewed(review, stamp) : review \in Reviews, stamp \in Nat}
        \cup {Seeded(gate, stamp) : gate \in ToSet(SeedOrder), stamp \in Nat}

SeederState ==
    [phase : {"off", "load", "save", "done", "failed"}, stamp : Nat, began : Nat,
     existing : SUBSET GateRows, at : Nat \ {0}]

GateTypeOK ==
    /\ journal \in Seq(GateRows) /\ gateClock \in Nat
    /\ seeder \in [Seeders -> SeederState]

NewestIn(rows, k) ==
    \A m \in DOMAIN rows : rows[m].gate = rows[k].gate => rows[m].recorded <= rows[k].recorded

\* Each gate has a newest decision, and a time names one of its decisions.
WellKept(rows) ==
    /\ \A i, k \in DOMAIN rows :
        rows[i].gate = rows[k].gate /\ rows[i].recorded = rows[k].recorded => i = k
    /\ \A i \in DOMAIN rows : \E k \in DOMAIN rows :
        rows[k].gate = rows[i].gate /\ NewestIn(rows, k)

JournalInv ==
    /\ WellKept(journal)
    /\ \A i \in DOMAIN journal : journal[i].recorded <= gateClock

\* The newest decision of a gate is the shipped one or came after row "began".
SettledIn(rows, began, gate) ==
    \E k \in DOMAIN rows :
        /\ rows[k].gate = gate /\ NewestIn(rows, k)
        /\ SameContent(rows[k], Seeded(gate, 0)) \/ k > began

\* The decisions loaded were newest among the first n, n not before "began".
LoadedFrom(rows, began, existing) ==
    \E n \in Nat :
        /\ began <= n /\ n <= Len(rows)
        /\ \A e \in existing : \E k \in 1..n :
            /\ rows[k] = e
            /\ \A m \in 1..n : rows[m].gate = e.gate => rows[m].recorded <= e.recorded

SeederGood(state, rows, now) ==
    /\ state.began <= Len(rows)
    /\ state.phase \in {"load", "save"} =>
        /\ state.stamp <= now
        /\ \A i \in 1..state.began : rows[i].recorded <= state.stamp
    /\ state.phase \in {"off", "load"} => state.at = 1
    /\ state.phase = "save" =>
        /\ LoadedFrom(rows, state.began, state.existing)
        /\ \A j \in DOMAIN SeedOrder : j < state.at => SettledIn(rows, state.began, SeedOrder[j])
    /\ state.phase = "done" =>
        \A j \in DOMAIN SeedOrder : SettledIn(rows, state.began, SeedOrder[j])

SeederInv == \A s \in Seeders : SeederGood(seeder[s], journal, gateClock)

GateInv == GateTypeOK /\ JournalInv /\ SeederInv

-----------------------------------------------------------------------------

LEMMA RowFields ==
    /\ \A d \in GateRows : d.recorded \in Nat
    /\ \A gate \in ToSet(SeedOrder), stamp \in Nat :
        /\ Seeded(gate, stamp) \in GateRows
        /\ Seeded(gate, stamp).gate = gate /\ Seeded(gate, stamp).recorded = stamp
    /\ \A review \in Reviews, stamp \in Nat :
        Reviewed(review, stamp) \in GateRows /\ Reviewed(review, stamp).recorded = stamp
<1>1. \A gate \in ToSet(SeedOrder), stamp \in Nat :
        /\ Seeded(gate, stamp) \in GateRows
        /\ Seeded(gate, stamp).gate = gate /\ Seeded(gate, stamp).recorded = stamp
  BY DEF GateRows, Seeded
<1>2. \A review \in Reviews, stamp \in Nat :
        Reviewed(review, stamp) \in GateRows /\ Reviewed(review, stamp).recorded = stamp
  BY DEF GateRows, Reviewed
<1>3. QED
  BY <1>1, <1>2 DEF GateRows

LEMMA SeedGates == \A j \in DOMAIN SeedOrder : SeedOrder[j] \in ToSet(SeedOrder)
BY DEF ToSet

LEMMA Appended ==
    ASSUME NEW rows \in Seq(GateRows), NEW d \in GateRows
    PROVE  /\ Append(rows, d) \in Seq(GateRows) /\ Len(rows) \in Nat
           /\ Len(Append(rows, d)) = Len(rows) + 1
           /\ DOMAIN rows = 1..Len(rows) /\ DOMAIN Append(rows, d) = 1..(Len(rows) + 1)
           /\ \A i \in 1..Len(rows) : Append(rows, d)[i] = rows[i] /\ rows[i] \in GateRows
           /\ Append(rows, d)[Len(rows) + 1] = d
OBVIOUS

\* A decision that the key accepts is the newest of its gate, or the newest
\* one before stays it; the others stay what they are.
LEMMA NewestAfterAppend ==
    ASSUME NEW rows \in Seq(GateRows), NEW d \in GateRows,
           NEW k \in DOMAIN rows, NewestIn(rows, k)
    PROVE  \/ NewestIn(Append(rows, d), k)
           \/ d.gate = rows[k].gate /\ NewestIn(Append(rows, d), Len(rows) + 1)
<1> DEFINE new == Append(rows, d)
<1>1. /\ DOMAIN rows = 1..Len(rows) /\ DOMAIN new = 1..(Len(rows) + 1) /\ Len(rows) \in Nat
      /\ \A i \in 1..Len(rows) : new[i] = rows[i] /\ rows[i] \in GateRows
      /\ new[Len(rows) + 1] = d
  BY Appended
<1>2. d.recorded \in Nat /\ \A i \in 1..Len(rows) : rows[i].recorded \in Nat
  BY <1>1, RowFields
<1> HIDE DEF new
<1>3. CASE d.gate = rows[k].gate /\ ~(d.recorded <= rows[k].recorded)
  <2>1. ASSUME NEW m \in DOMAIN new, new[m].gate = d.gate PROVE new[m].recorded <= d.recorded
    <3>1. CASE m = Len(rows) + 1
      BY <1>1, <1>2, <3>1
    <3>2. CASE m \in 1..Len(rows)
      <4>1. rows[m].recorded <= rows[k].recorded
        BY <1>1, <1>3, <2>1, <3>2 DEF NewestIn
      <4>2. QED
        BY <1>1, <1>2, <1>3, <3>2, <4>1
    <3>3. QED
      BY <1>1, <2>1, <3>1, <3>2
  <2>2. NewestIn(new, Len(rows) + 1)
    BY <1>1, <2>1 DEF NewestIn
  <2>3. QED
    BY <1>3, <2>2 DEF new
<1>4. CASE d.gate = rows[k].gate => d.recorded <= rows[k].recorded
  <2>1. ASSUME NEW m \in DOMAIN new, new[m].gate = rows[k].gate
        PROVE  new[m].recorded <= rows[k].recorded
    <3>1. CASE m = Len(rows) + 1
      BY <1>1, <1>4, <2>1, <3>1
    <3>2. CASE m \in 1..Len(rows)
      BY <1>1, <2>1, <3>2 DEF NewestIn
    <3>3. QED
      BY <1>1, <2>1, <3>1, <3>2
  <2>2. NewestIn(new, k)
    BY <1>1, <2>1 DEF NewestIn
  <2>3. QED
    BY <2>2 DEF new
<1>5. QED
  BY <1>3, <1>4

LEMMA KeptAfterAppend ==
    ASSUME NEW rows \in Seq(GateRows), NEW d \in GateRows, WellKept(rows), ~Refused(rows, d)
    PROVE  WellKept(Append(rows, d))
<1> DEFINE new == Append(rows, d)
<1>1. /\ DOMAIN rows = 1..Len(rows) /\ DOMAIN new = 1..(Len(rows) + 1) /\ Len(rows) \in Nat
      /\ \A i \in 1..Len(rows) : new[i] = rows[i] /\ rows[i] \in GateRows
      /\ new[Len(rows) + 1] = d
  BY Appended
<1>2. \A i \in 1..Len(rows) : ~(rows[i].gate = d.gate /\ rows[i].recorded = d.recorded)
  BY <1>1 DEF Refused, ToSet
<1>3. \A k \in 1..Len(rows) : NewestIn(rows, k) =>
        NewestIn(new, k) \/ (d.gate = rows[k].gate /\ NewestIn(new, Len(rows) + 1))
  BY <1>1, NewestAfterAppend
<1> HIDE DEF new
<1>4. ASSUME NEW i \in DOMAIN new, NEW k \in DOMAIN new,
             new[i].gate = new[k].gate, new[i].recorded = new[k].recorded
      PROVE  i = k
  <2>1. CASE i \in 1..Len(rows) /\ k \in 1..Len(rows)
    BY <1>1, <1>4, <2>1 DEF WellKept
  <2>2. CASE i = Len(rows) + 1 /\ k = Len(rows) + 1
    BY <2>2
  <2>3. CASE i \in 1..Len(rows) /\ k = Len(rows) + 1
    BY <1>1, <1>2, <1>4, <2>3
  <2>4. CASE i = Len(rows) + 1 /\ k \in 1..Len(rows)
    BY <1>1, <1>2, <1>4, <2>4
  <2>5. QED
    BY <1>1, <2>1, <2>2, <2>3, <2>4
<1>5. ASSUME NEW i \in DOMAIN new
      PROVE  \E k \in DOMAIN new : new[k].gate = new[i].gate /\ NewestIn(new, k)
  <2>1. ASSUME NEW j \in 1..Len(rows)
        PROVE  \E k \in DOMAIN new : new[k].gate = rows[j].gate /\ NewestIn(new, k)
    <3>1. PICK k \in 1..Len(rows) : rows[k].gate = rows[j].gate /\ NewestIn(rows, k)
      BY <1>1 DEF WellKept
    <3>2. CASE NewestIn(new, k)
      BY <1>1, <3>1, <3>2
    <3>3. CASE d.gate = rows[k].gate /\ NewestIn(new, Len(rows) + 1)
      BY <1>1, <3>1, <3>3
    <3>4. QED
      BY <1>3, <3>1, <3>2, <3>3
  <2>2. CASE i \in 1..Len(rows)
    BY <1>1, <2>1, <2>2
  <2>3. CASE i = Len(rows) + 1 /\ \E j \in 1..Len(rows) : rows[j].gate = d.gate
    BY <1>1, <2>1, <2>3
  <2>4. CASE i = Len(rows) + 1 /\ ~ \E j \in 1..Len(rows) : rows[j].gate = d.gate
    <3>1. d.recorded \in Nat
      BY RowFields
    <3>2. ASSUME NEW m \in DOMAIN new, new[m].gate = d.gate PROVE new[m].recorded <= d.recorded
      BY <1>1, <2>4, <3>1, <3>2
    <3>3. NewestIn(new, i)
      BY <1>1, <2>4, <3>2 DEF NewestIn
    <3>4. QED
      BY <1>1, <3>3
  <2>5. QED
    BY <1>1, <2>2, <2>3, <2>4
<1>6. WellKept(new)
  BY <1>4, <1>5 DEF WellKept
<1>7. QED
  BY <1>6 DEF new

\* What is settled stays so: what comes later came after "began".
LEMMA SettledStays ==
    ASSUME NEW rows \in Seq(GateRows), NEW d \in GateRows, NEW began \in Nat,
           began <= Len(rows), NEW gate, SettledIn(rows, began, gate)
    PROVE  SettledIn(Append(rows, d), began, gate)
<1> DEFINE new == Append(rows, d)
<1>1. PICK k \in DOMAIN rows :
        /\ rows[k].gate = gate /\ NewestIn(rows, k)
        /\ SameContent(rows[k], Seeded(gate, 0)) \/ k > began
  BY DEF SettledIn
<1>2. /\ DOMAIN rows = 1..Len(rows) /\ DOMAIN new = 1..(Len(rows) + 1) /\ Len(rows) \in Nat
      /\ new[k] = rows[k] /\ new[Len(rows) + 1] = d
  BY Appended
<1>3. NewestIn(new, k) \/ (d.gate = rows[k].gate /\ NewestIn(new, Len(rows) + 1))
  BY <1>1, NewestAfterAppend
<1> HIDE DEF new
<1>4. CASE NewestIn(new, k)
  <2>1. SettledIn(new, began, gate)
    BY <1>1, <1>2, <1>4 DEF SettledIn
  <2>2. QED
    BY <2>1 DEF new
<1>5. CASE d.gate = rows[k].gate /\ NewestIn(new, Len(rows) + 1)
  <2>1. Len(rows) + 1 \in DOMAIN new /\ Len(rows) + 1 > began
    BY <1>2
  <2>2. SettledIn(new, began, gate)
    BY <1>1, <1>2, <1>5, <2>1 DEF SettledIn
  <2>3. QED
    BY <2>2 DEF new
<1>6. QED
  BY <1>3, <1>4, <1>5

\* An inserted decision settles its gate: only those saved after the command
\* took its time can be newer.
LEMMA SettledByInsert ==
    ASSUME NEW rows \in Seq(GateRows), NEW d \in GateRows, NEW began \in Nat,
           began <= Len(rows), WellKept(rows), ~Refused(rows, d),
           \A i \in 1..began : rows[i].recorded <= d.recorded
    PROVE  SettledIn(Append(rows, d), began, d.gate)
<1> DEFINE new == Append(rows, d)
<1>1. /\ DOMAIN rows = 1..Len(rows) /\ DOMAIN new = 1..(Len(rows) + 1) /\ Len(rows) \in Nat
      /\ \A i \in 1..Len(rows) : new[i] = rows[i] /\ rows[i] \in GateRows
      /\ new[Len(rows) + 1] = d
  BY Appended
<1>2. WellKept(new)
  BY KeptAfterAppend
<1> HIDE DEF new
<1>3. PICK k \in DOMAIN new : new[k].gate = d.gate /\ NewestIn(new, k)
  <2>1. Len(rows) + 1 \in DOMAIN new /\ new[Len(rows) + 1].gate = d.gate
    BY <1>1
  <2>2. QED
    BY <1>2, <2>1 DEF WellKept
<1>4. k > began
  <2>1. SUFFICES ASSUME k \in 1..began PROVE FALSE
    BY <1>1, <1>3
  <2>2. new[k] = rows[k] /\ rows[k].recorded \in Nat /\ d.recorded \in Nat
    BY <1>1, <2>1, RowFields
  <2>3. d.recorded <= rows[k].recorded
    BY <1>1, <1>3, <2>2 DEF NewestIn
  <2>4. rows[k].recorded = d.recorded /\ rows[k].gate = d.gate
    BY <1>3, <2>1, <2>2, <2>3
  <2>5. QED
    BY <1>1, <2>1, <2>4 DEF Refused, ToSet
<1>5. SettledIn(new, began, d.gate)
  BY <1>3, <1>4 DEF SettledIn
<1>6. QED
  BY <1>5 DEF new

\* A gate found current is settled: what was loaded is still the newest, or
\* the newest came later.
LEMMA SettledByCurrent ==
    ASSUME NEW rows \in Seq(GateRows), NEW began \in Nat, NEW existing \in SUBSET GateRows,
           WellKept(rows), LoadedFrom(rows, began, existing),
           NEW gate \in ToSet(SeedOrder), NEW stamp \in Nat,
           NEW e \in existing, SameContent(e, Seeded(gate, stamp))
    PROVE  SettledIn(rows, began, gate)
<1>1. e.gate = gate /\ SameContent(e, Seeded(gate, 0))
  <2>1. e.gate = [e EXCEPT !.recorded = 0].gate
    <3>1. CASE \E review \in Reviews, time \in Nat : e = Reviewed(review, time)
      BY <3>1 DEF Reviewed
    <3>2. CASE \E g \in ToSet(SeedOrder), time \in Nat : e = Seeded(g, time)
      BY <3>2 DEF Seeded
    <3>3. QED
      BY <3>1, <3>2 DEF GateRows
  <2>2. [Seeded(gate, stamp) EXCEPT !.recorded = 0] = [Seeded(gate, 0) EXCEPT !.recorded = 0]
    BY DEF Seeded
  <2>3. [Seeded(gate, stamp) EXCEPT !.recorded = 0].gate = gate
    BY DEF Seeded
  <2>4. QED
    BY <2>1, <2>2, <2>3 DEF SameContent
<1>2. DOMAIN rows = 1..Len(rows) /\ Len(rows) \in Nat /\ \A i \in 1..Len(rows) : rows[i] \in GateRows
  OBVIOUS
<1>3. PICK n \in Nat :
        /\ began <= n /\ n <= Len(rows)
        /\ \A x \in existing : \E k \in 1..n :
            /\ rows[k] = x
            /\ \A m \in 1..n : rows[m].gate = x.gate => rows[m].recorded <= x.recorded
  BY DEF LoadedFrom
<1>4. PICK k \in 1..n :
        /\ rows[k] = e
        /\ \A m \in 1..n : rows[m].gate = e.gate => rows[m].recorded <= e.recorded
  BY <1>3
<1>5. PICK l \in DOMAIN rows : rows[l].gate = gate /\ NewestIn(rows, l)
  <2>1. k \in DOMAIN rows /\ rows[k].gate = gate
    BY <1>1, <1>2, <1>3, <1>4
  <2>2. QED
    BY <2>1 DEF WellKept
<1>6. CASE l > n
  BY <1>2, <1>3, <1>5, <1>6 DEF SettledIn
<1>7. CASE l <= n
  <2>1. k \in DOMAIN rows /\ l \in 1..n /\ rows[k].gate = rows[l].gate
    BY <1>1, <1>2, <1>3, <1>4, <1>5, <1>7
  <2>2. rows[l].recorded <= rows[k].recorded /\ rows[k].recorded <= rows[l].recorded
    BY <1>1, <1>4, <1>5, <2>1 DEF NewestIn
  <2>3. rows[k].recorded \in Nat /\ rows[l].recorded \in Nat
    BY <1>2, <2>1, RowFields
  <2>4. rows[k].recorded = rows[l].recorded
    BY <2>2, <2>3
  <2>5. k = l
    BY <2>1, <2>4 DEF WellKept
  <2>6. QED
    BY <1>1, <1>4, <1>5, <2>5 DEF SettledIn
<1>8. QED
  BY <1>2, <1>3, <1>5, <1>6, <1>7

LEMMA LoadedStays ==
    ASSUME NEW rows \in Seq(GateRows), NEW d \in GateRows, NEW began, NEW existing,
           LoadedFrom(rows, began, existing)
    PROVE  LoadedFrom(Append(rows, d), began, existing)
<1> DEFINE new == Append(rows, d)
<1>1. /\ Len(rows) \in Nat /\ Len(new) = Len(rows) + 1
      /\ \A i \in 1..Len(rows) : new[i] = rows[i]
  BY Appended
<1> HIDE DEF new
<1>2. PICK n \in Nat :
        /\ began <= n /\ n <= Len(rows)
        /\ \A x \in existing : \E k \in 1..n :
            /\ rows[k] = x
            /\ \A m \in 1..n : rows[m].gate = x.gate => rows[m].recorded <= x.recorded
  BY DEF LoadedFrom
<1>3. \A i \in 1..n : new[i] = rows[i]
  BY <1>1, <1>2
<1>4. \A x \in existing : \E k \in 1..n :
        /\ new[k] = x
        /\ \A m \in 1..n : new[m].gate = x.gate => new[m].recorded <= x.recorded
  <2> TAKE x \in existing
  <2>1. PICK k \in 1..n :
            /\ rows[k] = x
            /\ \A m \in 1..n : rows[m].gate = x.gate => rows[m].recorded <= x.recorded
    BY <1>2
  <2>2. ASSUME NEW m \in 1..n, new[m].gate = x.gate PROVE new[m].recorded <= x.recorded
    <3>1. new[m] = rows[m]
      BY <1>3
    <3>2. rows[m].gate = x.gate => rows[m].recorded <= x.recorded
      BY <2>1
    <3> QED BY <2>2, <3>1, <3>2
  <2>3. new[k] = x
    BY <1>3, <2>1
  <2> QED BY <2>2, <2>3
<1>5. n <= Len(new)
  BY <1>1, <1>2
<1>6. LoadedFrom(new, began, existing)
  BY <1>2, <1>4, <1>5 DEF LoadedFrom
<1>7. QED
  BY <1>6 DEF new

\* What a seed loads is the newest of each gate at that moment.
LEMMA LoadedNow ==
    ASSUME NEW rows \in Seq(GateRows), NEW began \in Nat, began <= Len(rows)
    PROVE  LoadedFrom(rows, began, Latest(rows)) /\ Latest(rows) \in SUBSET GateRows
<1>1. DOMAIN rows = 1..Len(rows) /\ Len(rows) \in Nat /\ \A i \in 1..Len(rows) : rows[i] \in GateRows
  OBVIOUS
<1>2. ASSUME NEW e \in Latest(rows)
      PROVE  /\ e \in GateRows
             /\ \E k \in 1..Len(rows) :
                /\ rows[k] = e
                /\ \A m \in 1..Len(rows) : rows[m].gate = e.gate => rows[m].recorded <= e.recorded
  BY <1>1, <1>2 DEF Latest, ToSet
<1>3. QED
  BY <1>1, <1>2 DEF LoadedFrom

-----------------------------------------------------------------------------

\* A seed is as good with time passed, and after a decision of somebody else.
LEMMA GoodWithTime ==
    ASSUME NEW rows \in Seq(GateRows), NEW state \in SeederState,
           NEW now \in Nat, NEW later \in Nat, now <= later, SeederGood(state, rows, now)
    PROVE  SeederGood(state, rows, later)
<1>1. state.stamp \in Nat
  BY DEF SeederState
<1>2. QED
  BY <1>1 DEF SeederGood

LEMMA GoodStays ==
    ASSUME NEW rows \in Seq(GateRows), NEW d \in GateRows, NEW state \in SeederState,
           NEW now \in Nat, NEW later \in Nat, now <= later, SeederGood(state, rows, now)
    PROVE  SeederGood(state, Append(rows, d), later)
<1> DEFINE new == Append(rows, d)
<1>1. /\ Len(rows) \in Nat /\ Len(new) = Len(rows) + 1
      /\ \A i \in 1..Len(rows) : new[i] = rows[i]
  BY Appended
<1>2. state.began \in Nat /\ state.stamp \in Nat /\ state.began <= Len(rows)
  BY DEF SeederState, SeederGood
<1>3. LoadedFrom(rows, state.began, state.existing) => LoadedFrom(new, state.began, state.existing)
  BY LoadedStays
<1>4. \A j \in DOMAIN SeedOrder : SettledIn(rows, state.began, SeedOrder[j]) =>
        SettledIn(new, state.began, SeedOrder[j])
  BY <1>2, SettledStays
<1> HIDE DEF new
<1>5. SeederGood(state, new, later)
  BY <1>1, <1>2, <1>3, <1>4 DEF SeederGood
<1>6. QED
  BY <1>5 DEF new

\* What every step does to the journal and the clock.
LEMMA StepIs ==
    ASSUME GateTypeOK, SeederInv, [GateNext]_gateVars
    PROVE  /\ gateClock' \in Nat /\ gateClock <= gateClock'
           /\ \/ journal' = journal
              \/ \E d \in GateRows :
                    /\ journal' = Append(journal, d) /\ ~Refused(journal, d)
                    /\ d.recorded <= gateClock
<1>1. CASE RecordReview
  <2>1. PICK review \in Reviews, stamp \in {gateClock, gateClock - 1} \cap Nat :
            /\ ~Refused(journal, Reviewed(review, stamp))
            /\ journal' = Append(journal, Reviewed(review, stamp))
    BY <1>1 DEF RecordReview
  <2>2. stamp \in Nat /\ stamp <= gateClock
    BY DEF GateTypeOK
  <2>3. QED
    BY <1>1, <2>1, <2>2, RowFields DEF RecordReview, GateTypeOK
<1>2. ASSUME NEW s \in Seeders, SeedGate(s) PROVE
        \/ journal' = journal
        \/ \E d \in GateRows : /\ journal' = Append(journal, d) /\ ~Refused(journal, d)
                               /\ d.recorded <= gateClock
  <2> DEFINE d == Seeded(SeedOrder[seeder[s].at], seeder[s].stamp)
  <2>1. journal' = journal \/ (journal' = Append(journal, d) /\ ~Refused(journal, d))
    <3>1. CASE Current(s, d)
      BY <1>2, <3>1 DEF SeedGate
    <3>2. CASE ~Current(s, d) /\ Refused(journal, d)
      BY <1>2, <3>2 DEF SeedGate
    <3>3. CASE ~Current(s, d) /\ ~Refused(journal, d)
      BY <1>2, <3>3 DEF SeedGate
    <3>4. QED
      BY <3>1, <3>2, <3>3
  <2>2. seeder[s].at \in Nat \ {0} /\ seeder[s].stamp \in Nat
    BY DEF GateTypeOK, SeederState
  <2>3. seeder[s].at \in DOMAIN SeedOrder
    BY <1>2, <2>2, SeedAssumption DEF SeedGate
  <2>4. d \in GateRows /\ d.recorded = seeder[s].stamp
    BY <2>2, <2>3, SeedGates, RowFields
  <2>5. seeder[s].stamp <= gateClock
    BY <1>2 DEF SeedGate, SeederInv, SeederGood
  <2>6. QED
    BY <2>1, <2>4, <2>5
<1>3. ASSUME NEW s \in Seeders, SeedGate(s) PROVE gateClock' = gateClock
  BY <1>3 DEF SeedGate
<1>4. CASE GateTick
  BY <1>4 DEF GateTick, GateTypeOK
<1>5. CASE \E s \in Seeders : StartSeed(s) \/ LoadExisting(s) \/ EndSeed(s) \/ RestartSeed(s)
  BY <1>5 DEF StartSeed, LoadExisting, EndSeed, RestartSeed, GateTypeOK
<1>6. CASE UNCHANGED gateVars
  BY <1>6 DEF gateVars, GateTypeOK
<1>7. CASE \E s \in Seeders : SeedGate(s)
  BY <1>2, <1>3, <1>7 DEF GateTypeOK
<1>8. QED
  BY <1>1, <1>4, <1>5, <1>6, <1>7 DEF GateNext

\* The seeds a step does not belong to stay as they were.
LEMMA OtherSeedersStay ==
    ASSUME GateTypeOK, [GateNext]_gateVars, NEW q \in Seeders
    PROVE  \/ seeder'[q] = seeder[q]
           \/ StartSeed(q) \/ LoadExisting(q) \/ SeedGate(q) \/ EndSeed(q) \/ RestartSeed(q)
<1>1. DOMAIN seeder = Seeders
  BY DEF GateTypeOK
<1>2. ASSUME NEW s \in Seeders, s # q,
             StartSeed(s) \/ LoadExisting(s) \/ EndSeed(s) \/ RestartSeed(s)
      PROVE  seeder'[q] = seeder[q]
  BY <1>1, <1>2 DEF StartSeed, LoadExisting, EndSeed, Ended, RestartSeed
<1>3. ASSUME NEW s \in Seeders, s # q, SeedGate(s) PROVE seeder'[q] = seeder[q]
  <2>1. \/ seeder' = [seeder EXCEPT ![s].at = seeder[s].at + 1]
        \/ Ended(s, "failed")
    BY <1>3 DEF SeedGate
  <2>2. QED
    BY <1>1, <1>3, <2>1 DEF Ended
<1>4. CASE RecordReview \/ GateTick \/ UNCHANGED gateVars
  BY <1>4 DEF RecordReview, GateTick, gateVars
<1>5. QED
  BY <1>2, <1>3, <1>4 DEF GateNext

\* What the steps of a seed make of its own state.
LEMMA SeederSteps ==
    ASSUME GateTypeOK, NEW s \in Seeders
    PROVE  /\ StartSeed(s) =>
                seeder'[s] = [seeder[s] EXCEPT !.phase = "load", !.stamp = gateClock,
                                               !.began = Len(journal)]
           /\ LoadExisting(s) =>
                seeder'[s] = [seeder[s] EXCEPT !.phase = "save", !.existing = Latest(journal)]
           /\ SeedGate(s) =>
                \/ seeder'[s] = [seeder[s] EXCEPT !.at = seeder[s].at + 1]
                \/ seeder'[s] = [IdleSeeder EXCEPT !.phase = "failed", !.began = seeder[s].began]
           /\ EndSeed(s) =>
                seeder'[s] = [IdleSeeder EXCEPT !.phase = "done", !.began = seeder[s].began]
           /\ RestartSeed(s) => seeder'[s] = IdleSeeder
<1>1. DOMAIN seeder = Seeders
  BY DEF GateTypeOK
<1>2. SeedGate(s) => \/ seeder' = [seeder EXCEPT ![s].at = seeder[s].at + 1]
                     \/ Ended(s, "failed")
  BY DEF SeedGate
<1>3. QED
  BY <1>1, <1>2 DEF StartSeed, LoadExisting, EndSeed, Ended, RestartSeed

LEMMA GateTypeStep ==
    ASSUME GateTypeOK, SeederInv, [GateNext]_gateVars
    PROVE  GateTypeOK'
<1>1. journal' \in Seq(GateRows) /\ gateClock' \in Nat
  BY StepIs, Appended DEF GateTypeOK
<1>2. seeder \in [Seeders -> SeederState] /\ IdleSeeder \in SeederState
      /\ Len(journal) \in Nat /\ gateClock \in Nat
  BY DEF GateTypeOK, IdleSeeder, SeederState
<1>3. ASSUME NEW q \in Seeders PROVE seeder'[q] \in SeederState
  <2>1. CASE seeder'[q] = seeder[q]
    BY <1>2, <2>1
  <2>2. CASE StartSeed(q)
    <3>1. [seeder[q] EXCEPT !.phase = "load", !.stamp = gateClock, !.began = Len(journal)]
            \in SeederState
      BY <1>2 DEF SeederState
    <3>2. QED
      BY <2>2, <3>1, SeederSteps
  <2>3. CASE LoadExisting(q)
    <3>1. Latest(journal) \in SUBSET GateRows
      BY <2>3, LoadedNow DEF GateTypeOK, SeederInv, SeederGood, SeederState
    <3>2. [seeder[q] EXCEPT !.phase = "save", !.existing = Latest(journal)] \in SeederState
      BY <1>2, <3>1 DEF SeederState
    <3>3. QED
      BY <2>3, <3>2, SeederSteps
  <2>4. CASE SeedGate(q)
    <3>1. seeder[q].began \in Nat /\ seeder[q].at + 1 \in Nat \ {0} /\ seeder[q] \in SeederState
      BY <1>2 DEF SeederState
    <3>2. [IdleSeeder EXCEPT !.phase = "failed", !.began = seeder[q].began] \in SeederState
      BY <1>2, <3>1 DEF SeederState
    <3>3. [seeder[q] EXCEPT !.at = seeder[q].at + 1] \in SeederState
      BY <3>1 DEF SeederState
    <3>4. QED
      BY <2>4, <3>2, <3>3, SeederSteps
  <2>5. CASE EndSeed(q) \/ RestartSeed(q)
    <3>1. seeder[q].began \in Nat
      BY <1>2 DEF SeederState
    <3>2. [IdleSeeder EXCEPT !.phase = "done", !.began = seeder[q].began] \in SeederState
      BY <1>2, <3>1 DEF SeederState
    <3>3. QED
      BY <1>2, <2>5, <3>2, SeederSteps
  <2>6. QED
    BY <2>1, <2>2, <2>3, <2>4, <2>5, OtherSeedersStay
<1>4. seeder' = [q \in Seeders |-> seeder'[q]]
  <2>1. ASSUME NEW s \in Seeders, SeedGate(s) PROVE seeder' = [q \in Seeders |-> seeder'[q]]
    <3>1. \/ seeder' = [seeder EXCEPT ![s].at = seeder[s].at + 1]
          \/ Ended(s, "failed")
      BY <2>1 DEF SeedGate
    <3>2. QED
      BY <1>2, <3>1 DEF Ended
  <2>2. ASSUME NEW s \in Seeders, StartSeed(s) \/ LoadExisting(s) \/ EndSeed(s) \/ RestartSeed(s)
        PROVE  seeder' = [q \in Seeders |-> seeder'[q]]
    BY <1>2, <2>2 DEF StartSeed, LoadExisting, EndSeed, Ended, RestartSeed
  <2>3. CASE RecordReview \/ GateTick \/ UNCHANGED gateVars
    BY <1>2, <2>3 DEF RecordReview, GateTick, gateVars
  <2>4. QED
    BY <2>1, <2>2, <2>3 DEF GateNext
<1>5. QED
  BY <1>1, <1>3, <1>4 DEF GateTypeOK

LEMMA JournalStep ==
    ASSUME GateTypeOK, JournalInv, SeederInv, [GateNext]_gateVars
    PROVE  JournalInv'
<1>1. gateClock' \in Nat /\ gateClock <= gateClock' /\ gateClock \in Nat /\ journal \in Seq(GateRows)
  BY StepIs DEF GateTypeOK
<1>2. \A i \in DOMAIN journal : journal[i].recorded \in Nat
  BY <1>1, RowFields
<1>3. CASE journal' = journal
  BY <1>1, <1>2, <1>3 DEF JournalInv, WellKept, NewestIn
<1>4. ASSUME NEW d \in GateRows, journal' = Append(journal, d), ~Refused(journal, d),
             d.recorded <= gateClock
      PROVE  JournalInv'
  <2>1. WellKept(journal')
    BY <1>1, <1>4, KeptAfterAppend DEF JournalInv
  <2>2. /\ DOMAIN journal = 1..Len(journal) /\ DOMAIN journal' = 1..(Len(journal) + 1)
        /\ \A i \in 1..Len(journal) : journal'[i] = journal[i]
        /\ journal'[Len(journal) + 1] = d /\ Len(journal) \in Nat /\ d.recorded \in Nat
    BY <1>1, <1>4, Appended, RowFields
  <2>3. \A i \in DOMAIN journal' : journal'[i].recorded <= gateClock'
    BY <1>1, <1>2, <1>4, <2>2 DEF JournalInv
  <2>4. QED
    BY <2>1, <2>3 DEF JournalInv
<1>5. QED
  BY <1>3, <1>4, StepIs

\* A seed starts after everything that is in the journal, and in time order.
LEMMA StartIsGood ==
    ASSUME GateTypeOK, JournalInv, SeederInv, NEW s \in Seeders, StartSeed(s)
    PROVE  SeederGood(seeder'[s], journal', gateClock')
<1>1. seeder[s] \in SeederState /\ Len(journal) \in Nat /\ DOMAIN journal = 1..Len(journal)
      /\ gateClock \in Nat
  BY DEF GateTypeOK
<1>2. seeder'[s].phase = "load" /\ seeder'[s].stamp = gateClock /\ seeder'[s].began = Len(journal)
        /\ seeder'[s].at = seeder[s].at
  <2> DEFINE started == [seeder[s] EXCEPT !.phase = "load", !.stamp = gateClock, !.began = Len(journal)]
  <2>1. seeder'[s] = started
    BY SeederSteps
  <2>2. /\ started.phase = "load" /\ started.stamp = gateClock /\ started.began = Len(journal)
        /\ started.at = seeder[s].at
    BY <1>1 DEF SeederState
  <2>3. QED
    BY <2>1, <2>2
<1>3. seeder[s].phase = "off" => seeder[s].at = 1
  BY DEF SeederInv, SeederGood
<1>4. QED
  BY <1>1, <1>2, <1>3 DEF StartSeed, SeederGood, JournalInv

LEMMA LoadIsGood ==
    ASSUME GateTypeOK, SeederInv, NEW s \in Seeders, LoadExisting(s)
    PROVE  SeederGood(seeder'[s], journal', gateClock')
<1>1. seeder[s] \in SeederState /\ SeederGood(seeder[s], journal, gateClock)
      /\ seeder[s].phase = "load" /\ UNCHANGED <<journal, gateClock>>
  BY DEF GateTypeOK, SeederInv, LoadExisting
<1>2. /\ seeder'[s].phase = "save" /\ seeder'[s].existing = Latest(journal)
      /\ seeder'[s].stamp = seeder[s].stamp /\ seeder'[s].began = seeder[s].began
      /\ seeder'[s].at = seeder[s].at
  <2> DEFINE latest == Latest(journal)
             loaded == [seeder[s] EXCEPT !.phase = "save", !.existing = latest]
  <2>1. seeder'[s] = loaded
    BY SeederSteps
  <2> HIDE DEF latest
  <2>2. /\ loaded.phase = "save" /\ loaded.existing = latest
        /\ loaded.stamp = seeder[s].stamp /\ loaded.began = seeder[s].began
        /\ loaded.at = seeder[s].at
    BY <1>1 DEF SeederState
  <2>3. QED
    BY <2>1, <2>2 DEF latest
<1>3. seeder[s].at = 1 /\ seeder[s].began <= Len(journal) /\ seeder[s].began \in Nat
  BY <1>1 DEF SeederGood, SeederState
<1>4. LoadedFrom(journal, seeder[s].began, Latest(journal))
  BY <1>3, LoadedNow DEF GateTypeOK
<1>5. \A j \in DOMAIN SeedOrder : ~(j < 1)
  BY SeedAssumption
<1>6. QED
  BY <1>1, <1>2, <1>3, <1>4, <1>5 DEF SeederGood

LEMMA SeedIsGood ==
    ASSUME GateTypeOK, JournalInv, SeederInv, NEW s \in Seeders, SeedGate(s)
    PROVE  SeederGood(seeder'[s], journal', gateClock')
<1> DEFINE old == seeder[s]
           gate == SeedOrder[old.at]
           d == Seeded(gate, old.stamp)
           moved == [old EXCEPT !.at = old.at + 1]
           failed == [IdleSeeder EXCEPT !.phase = "failed", !.began = old.began]
<1>1. /\ old \in SeederState /\ SeederGood(old, journal, gateClock)
      /\ old.phase = "save" /\ gateClock' = gateClock /\ gateClock \in Nat
      /\ journal \in Seq(GateRows) /\ DOMAIN seeder = Seeders
  BY DEF GateTypeOK, SeederInv, SeedGate
<1>2. old.at \in DOMAIN SeedOrder /\ gate \in ToSet(SeedOrder) /\ old.stamp \in Nat /\ old.began \in Nat
      /\ old.existing \in SUBSET GateRows
  BY <1>1, SeedAssumption, SeedGates DEF SeedGate, SeederState
<1>3. d \in GateRows /\ d.gate = gate /\ d.recorded = old.stamp
  BY <1>2, RowFields
<1>4. \/ Current(s, d) /\ seeder'[s] = moved /\ journal' = journal
      \/ seeder'[s] = failed /\ journal' = journal
      \/ ~Refused(journal, d) /\ seeder'[s] = moved /\ journal' = Append(journal, d)
  <2>1. CASE Current(s, d)
    BY <1>1, <2>1 DEF SeedGate
  <2>2. CASE ~Current(s, d) /\ Refused(journal, d)
    BY <1>1, <2>2 DEF SeedGate, Ended
  <2>3. CASE ~Current(s, d) /\ ~Refused(journal, d)
    BY <1>1, <2>3 DEF SeedGate
  <2>4. QED
    BY <2>1, <2>2, <2>3
<1>5. old.began <= Len(journal) /\ LoadedFrom(journal, old.began, old.existing)
  BY <1>1 DEF SeederGood
<1>6. CASE seeder'[s] = failed /\ journal' = journal
  <2>1. failed.phase = "failed" /\ failed.began = old.began
    BY DEF IdleSeeder
  <2>2. QED
    BY <1>5, <1>6, <2>1 DEF SeederGood
<1>7. ASSUME NEW rows, SeederGood(old, rows, gateClock), SettledIn(rows, old.began, gate)
      PROVE  SeederGood(moved, rows, gateClock)
  <2>1. /\ moved.phase = "save" /\ moved.began = old.began /\ moved.existing = old.existing
        /\ moved.stamp = old.stamp /\ moved.at = old.at + 1
    BY <1>1 DEF SeederState
  <2>2. ASSUME NEW j \in DOMAIN SeedOrder, j < moved.at
        PROVE  SettledIn(rows, old.began, SeedOrder[j])
    <3>1. j = old.at \/ j < old.at
      BY <1>2, <2>1, <2>2, SeedAssumption
    <3>2. QED
      BY <1>1, <1>7, <3>1 DEF SeederGood
  <2> HIDE DEF moved
  <2>3. QED
    BY <1>1, <1>7, <2>1, <2>2 DEF SeederGood
<1>8. CASE Current(s, d) /\ seeder'[s] = moved /\ journal' = journal
  <2>1. PICK e \in old.existing : SameContent(e, d)
    BY <1>8 DEF Current
  <2>2. SettledIn(journal, old.began, gate)
    BY <1>1, <1>2, <1>5, <2>1, SettledByCurrent DEF JournalInv
  <2>3. QED
    BY <1>1, <1>7, <1>8, <2>2
<1>9. CASE ~Refused(journal, d) /\ seeder'[s] = moved /\ journal' = Append(journal, d)
  <2>1. \A i \in 1..old.began : journal[i].recorded <= d.recorded
    BY <1>1, <1>3 DEF SeederGood
  <2>2. SettledIn(Append(journal, d), old.began, d.gate)
    BY <1>1, <1>2, <1>3, <1>5, <1>9, <2>1, SettledByInsert DEF JournalInv
  <2>3. SeederGood(old, Append(journal, d), gateClock)
    BY <1>1, <1>3, GoodStays
  <2>4. QED
    BY <1>1, <1>3, <1>7, <1>9, <2>2, <2>3
<1>10. QED
  BY <1>4, <1>6, <1>8, <1>9

LEMMA SeederStep ==
    ASSUME GateTypeOK, JournalInv, SeederInv, [GateNext]_gateVars
    PROVE  SeederInv'
<1> SUFFICES ASSUME NEW q \in Seeders
             PROVE  SeederGood(seeder'[q], journal', gateClock')
  BY DEF SeederInv
<1>1. /\ journal \in Seq(GateRows) /\ gateClock \in Nat /\ seeder[q] \in SeederState
      /\ SeederGood(seeder[q], journal, gateClock)
  BY DEF GateTypeOK, SeederInv
<1>2. CASE seeder'[q] = seeder[q]
  <2>1. gateClock' \in Nat /\ gateClock <= gateClock'
    BY StepIs
  <2>2. ASSUME NEW d \in GateRows
        PROVE  SeederGood(seeder[q], Append(journal, d), gateClock')
    BY <1>1, <2>1, GoodStays
  <2>3. CASE journal' = journal
    BY <1>1, <1>2, <2>1, <2>3, GoodWithTime
  <2>4. ASSUME NEW d \in GateRows, journal' = Append(journal, d)
        PROVE  SeederGood(seeder'[q], journal', gateClock')
    BY <1>2, <2>2, <2>4
  <2>5. QED
    BY <2>3, <2>4, StepIs
<1>3. CASE EndSeed(q)
  <2>1. /\ seeder'[q].phase = "done" /\ seeder'[q].began = seeder[q].began
        /\ UNCHANGED <<journal, gateClock>>
    BY <1>3, SeederSteps DEF EndSeed, IdleSeeder
  <2>2. seeder[q].at \in Nat /\ Len(SeedOrder) \in Nat /\ DOMAIN SeedOrder = 1..Len(SeedOrder)
    BY <1>1, SeedAssumption DEF SeederState
  <2>3. \A j \in DOMAIN SeedOrder : j < seeder[q].at
    BY <1>3, <2>2 DEF EndSeed
  <2>4. QED
    BY <1>1, <1>3, <2>1, <2>3 DEF SeederGood, EndSeed
<1>4. CASE RestartSeed(q)
  <2>1. seeder'[q] = IdleSeeder /\ UNCHANGED <<journal, gateClock>>
    BY <1>4, SeederSteps DEF RestartSeed
  <2>2. QED
    BY <1>1, <2>1 DEF SeederGood, IdleSeeder
<1>5. QED
  BY <1>2, <1>3, <1>4, StartIsGood, LoadIsGood, SeedIsGood, OtherSeedersStay

-----------------------------------------------------------------------------

LEMMA GateInvInit == GateInit => GateInv
<1> SUFFICES ASSUME GateInit PROVE GateInv
  OBVIOUS
<1>1. IdleSeeder \in SeederState
  BY DEF IdleSeeder, SeederState
<1>2. GateTypeOK
  BY <1>1 DEF GateInit, GateTypeOK
<1>3. DOMAIN journal = {} /\ Len(journal) = 0
  BY DEF GateInit
<1>4. JournalInv
  BY <1>3 DEF JournalInv, WellKept
<1>5. \A s \in Seeders : seeder[s].phase = "off" /\ seeder[s].began = 0 /\ seeder[s].at = 1
  BY DEF GateInit, IdleSeeder
<1>6. SeederInv
  BY <1>3, <1>5 DEF SeederInv, SeederGood
<1>7. QED
  BY <1>2, <1>4, <1>6 DEF GateInv

LEMMA GateInvSettles == GateInv => SeedSettlesGates
<1> SUFFICES ASSUME GateInv, NEW s \in Seeders, seeder[s].phase = "done",
                    NEW gate \in ToSet(SeedOrder)
             PROVE  \E d \in Latest(journal) :
                        /\ d.gate = gate
                        /\ \/ SameContent(d, Seeded(gate, 0))
                           \/ \E i \in DOMAIN journal : i > seeder[s].began /\ journal[i] = d
  BY DEF SeedSettlesGates
<1>1. PICK j \in DOMAIN SeedOrder : SeedOrder[j] = gate
  BY DEF ToSet
<1>2. SettledIn(journal, seeder[s].began, gate)
  BY <1>1 DEF GateInv, SeederInv, SeederGood
<1>3. PICK k \in DOMAIN journal :
        /\ journal[k].gate = gate /\ NewestIn(journal, k)
        /\ SameContent(journal[k], Seeded(gate, 0)) \/ k > seeder[s].began
  BY <1>2 DEF SettledIn
<1>4. journal[k] \in Latest(journal)
  BY <1>3 DEF Latest, NewestIn, ToSet
<1>5. QED
  BY <1>3, <1>4

\* When "gate seed" ends well its confirmations are in force, or what overrides
\* them was saved after it began: the journal only grows, a gate and a time name
\* one decision, and a seed's own time is not older than what it found.
THEOREM SeedSettlesGatesTheorem == GateSpec => []SeedSettlesGates
<1>1. GateInv /\ [GateNext]_gateVars => GateInv'
  BY GateTypeStep, JournalStep, SeederStep DEF GateInv
<1>2. QED
  BY GateInvInit, <1>1, GateInvSettles, PTL DEF GateSpec

-----------------------------------------------------------------------------
(***************************************************************************)
(* The backfills: none gets past gates whose latest decision, when the run *)
(* read the journal, was not a complete confirmation that had not expired  *)
(* at the run's time.                                                      *)
(***************************************************************************)

Before == {"off", "gates", "blocked"}
RunFields == {"phase", "asOf", "saw", "day", "kind", "attempts", "answers", "ids", "left"}

\* The rows a run has seen, and what they told it.
Standing(rows, saw, asOf) ==
    \A gate \in BackfillGates : \E k \in 1..saw :
        /\ rows[k].gate = gate /\ rows[k].status = "CONFIRMED"
        /\ ValidConfirmation(rows[k]) /\ asOf < rows[k].until
        /\ \A m \in 1..saw : rows[m].gate = gate => rows[m].recorded <= rows[k].recorded

RunInv ==
    /\ DOMAIN etpRun = EtpRuns
    /\ \A r \in EtpRuns : DOMAIN etpRun[r] = RunFields
    /\ \A r \in EtpRuns : etpRun[r].phase \notin Before =>
        /\ etpRun[r].saw \in Nat /\ etpRun[r].saw <= Len(journal)
        /\ Standing(journal, etpRun[r].saw, etpRun[r].asOf)

EtpGateInv == GateInv /\ RunInv

-----------------------------------------------------------------------------

\* What a run reads in open gates.
LEMMA OpenIsStanding ==
    ASSUME NEW rows \in Seq(GateRows), NEW asOf, Loadable(rows), GatesOpen(rows, asOf)
    PROVE  Standing(rows, Len(rows), asOf)
<1>1. DOMAIN rows = 1..Len(rows)
  OBVIOUS
<1>2. SUFFICES ASSUME NEW gate \in BackfillGates
               PROVE  \E k \in 1..Len(rows) :
                        /\ rows[k].gate = gate /\ rows[k].status = "CONFIRMED"
                        /\ ValidConfirmation(rows[k]) /\ asOf < rows[k].until
                        /\ \A m \in 1..Len(rows) :
                            rows[m].gate = gate => rows[m].recorded <= rows[k].recorded
  BY DEF Standing
<1>3. PICK d \in Latest(rows) : d.gate = gate /\ d.status = "CONFIRMED" /\ asOf < d.until
  BY DEF GatesOpen, IsResolved
<1>4. ValidConfirmation(d)
  BY <1>3 DEF Loadable
<1>5. PICK k \in 1..Len(rows) : rows[k] = d
  BY <1>1, <1>3 DEF Latest, ToSet
<1>6. \A m \in 1..Len(rows) : rows[m].gate = gate => rows[m].recorded <= d.recorded
  BY <1>1, <1>3 DEF Latest, ToSet
<1>7. QED
  BY <1>3, <1>4, <1>5, <1>6

\* The journal only grows: what a run has seen stays as it was.
LEMMA StandingStays ==
    ASSUME NEW rows \in Seq(GateRows), NEW d \in GateRows, NEW saw \in Nat, saw <= Len(rows),
           NEW asOf, Standing(rows, saw, asOf)
    PROVE  Standing(Append(rows, d), saw, asOf) /\ saw <= Len(Append(rows, d))
<1> DEFINE new == Append(rows, d)
<1>1. /\ Len(rows) \in Nat /\ Len(new) = Len(rows) + 1
      /\ \A i \in 1..Len(rows) : new[i] = rows[i]
  BY Appended
<1> HIDE DEF new
<1>2. \A i \in 1..saw : new[i] = rows[i]
  BY <1>1
<1>3. Standing(new, saw, asOf) /\ saw <= Len(new)
  BY <1>1, <1>2 DEF Standing
<1>4. QED
  BY <1>3 DEF new

\* A step of a run past its gates, and one that opens them.
Keeps(old, new) ==
    /\ DOMAIN new = RunFields
    /\ old.phase \notin Before /\ new.saw = old.saw /\ new.asOf = old.asOf

Opens(old, new) ==
    /\ DOMAIN new = RunFields
    /\ Loadable(journal) /\ GatesOpen(journal, old.asOf)
    /\ new.saw = Len(journal) /\ new.asOf = old.asOf

StaysBefore(new) == DOMAIN new = RunFields /\ new.phase \in Before

RunStep(p) ==
    /\ DOMAIN etpRun' = EtpRuns
    /\ \A r \in EtpRuns \ {p} : etpRun'[r] = etpRun[r]
    /\ \/ StaysBefore(etpRun'[p])
       \/ Keeps(etpRun[p], etpRun'[p])
       \/ Opens(etpRun[p], etpRun'[p])

\* A run past its gates goes to another phase.
LEMMA Goes ==
    ASSUME RunInv, NEW p \in EtpRuns, etpRun[p].phase \notin Before, NEW phase, EtpGoto(p, phase)
    PROVE  RunStep(p)
BY DEF EtpGoto, RunInv, RunFields, RunStep, Keeps

LEMMA RunSteps ==
    ASSUME RunInv, NEW p \in EtpRuns,
           \/ StartEtp(p) \/ CheckGates(p) \/ FetchEtp(p) \/ StoreEtp(p)
           \/ SaveEtp(p) \/ LinkEtp(p) \/ NextEtpDay(p) \/ CrashEtp(p)
    PROVE  RunStep(p)
<1>1. CASE StartEtp(p)
  BY <1>1 DEF RunInv, RunFields, Before, StartEtp, RunStep, StaysBefore
<1>2. CASE CheckGates(p)
  <2> DEFINE old == etpRun[p]
             rows == Len(journal)
             opened == [old EXCEPT !.phase = "fetch", !.saw = rows]
             closed == [IdleRun EXCEPT !.phase = "blocked"]
  <2>1. CASE Loadable(journal) /\ GatesOpen(journal, old.asOf)
    <3>1. etpRun' = [etpRun EXCEPT ![p] = opened]
      BY <1>2, <2>1 DEF CheckGates
    <3>2. DOMAIN old = RunFields
      BY DEF RunInv
    <3> HIDE DEF old, rows
    <3>3. DOMAIN opened = RunFields /\ opened.saw = rows /\ opened.asOf = old.asOf
      BY <3>2 DEF RunFields
    <3> HIDE DEF opened
    <3>4. DOMAIN etpRun' = EtpRuns /\ (\A r \in EtpRuns \ {p} : etpRun'[r] = etpRun[r])
          /\ etpRun'[p] = opened
      BY <3>1 DEF RunInv
    <3>5. QED
      BY <2>1, <3>3, <3>4 DEF RunStep, Opens, old, rows
  <2>2. CASE ~(Loadable(journal) /\ GatesOpen(journal, old.asOf))
    <3>1. etpRun' = [etpRun EXCEPT ![p] = closed]
      BY <1>2, <2>2 DEF CheckGates
    <3>2. DOMAIN closed = RunFields /\ closed.phase \in Before
      BY DEF IdleRun, RunFields, Before
    <3> HIDE DEF closed
    <3>3. QED
      BY <3>1, <3>2 DEF RunInv, RunStep, StaysBefore
  <2>3. QED
    BY <2>1, <2>2
<1>3. CASE FetchEtp(p)
  <2>1. etpRun[p].phase \notin Before
    BY <1>3 DEF FetchEtp, Before
  <2>2. CASE EtpGoto(p, "failed")
    BY <2>1, <2>2, Goes
  <2>3. CASE etpRun' = [etpRun EXCEPT ![p].attempts = @ + 1]
    BY <2>1, <2>3 DEF RunInv, RunFields, RunStep, Keeps
  <2>4. CASE etpRun' = [etpRun EXCEPT ![p].phase = "store", ![p].attempts = 0,
                            ![p].answers = Append(@, etpKrx[Kinds[etpRun[p].kind]][etpRun[p].day])]
    <3> DEFINE got == Append(etpRun[p].answers, etpKrx[Kinds[etpRun[p].kind]][etpRun[p].day])
    <3>1. etpRun' = [etpRun EXCEPT ![p].phase = "store", ![p].attempts = 0, ![p].answers = got]
      BY <2>4
    <3> HIDE DEF got
    <3>2. QED
      BY <2>1, <3>1 DEF RunInv, RunFields, RunStep, Keeps
  <2>5. QED
    BY <1>3, <2>2, <2>3, <2>4 DEF FetchEtp
<1>4. CASE StoreEtp(p)
  <2> DEFINE named == Append(etpRun[p].ids, StoredBy(p))
             products == Observed(etpRun[p].answers)
  <2>1. etpRun[p].phase \notin Before
    BY <1>4 DEF StoreEtp, Before
  <2>2. CASE RawConflicts(p)
    BY <1>4, <2>1, <2>2, Goes DEF StoreEtp
  <2>3. CASE ~RawConflicts(p) /\ etpRun[p].kind = 1
    <3>1. etpRun' = [etpRun EXCEPT ![p].ids = named, ![p].kind = 2, ![p].phase = "fetch"]
      BY <1>4, <2>3 DEF StoreEtp
    <3> HIDE DEF named
    <3>2. QED
      BY <2>1, <3>1 DEF RunInv, RunFields, RunStep, Keeps
  <2>4. CASE ~RawConflicts(p) /\ etpRun[p].kind # 1
    <3>1. etpRun' = [etpRun EXCEPT ![p].ids = named, ![p].left = products, ![p].phase = "save"]
      BY <1>4, <2>4 DEF StoreEtp
    <3> HIDE DEF named, products
    <3>2. QED
      BY <2>1, <3>1 DEF RunInv, RunFields, RunStep, Keeps
  <2>5. QED
    BY <2>2, <2>3, <2>4
<1>5. CASE SaveEtp(p) \/ CrashEtp(p)
  <2>1. etpRun[p].phase \notin Before
    BY <1>5 DEF SaveEtp, CrashEtp, Before
  <2>2. \E phase \in {"link", "conflict", "failed"} : EtpGoto(p, phase)
    BY <1>5 DEF SaveEtp, CrashEtp
  <2>3. QED
    BY <2>1, <2>2, Goes
<1>6. CASE LinkEtp(p)
  <2> DEFINE others == etpRun[p].left \ {First(etpRun[p].left)}
  <2>1. etpRun[p].phase \notin Before
    BY <1>6 DEF LinkEtp, Before
  <2>2. etpRun' = [etpRun EXCEPT ![p].phase = "save", ![p].left = others]
    BY <1>6 DEF LinkEtp
  <2> HIDE DEF others
  <2>3. QED
    BY <2>1, <2>2 DEF RunInv, RunFields, RunStep, Keeps
<1>7. CASE NextEtpDay(p)
  <2>1. etpRun[p].phase \notin Before
    BY <1>7 DEF NextEtpDay, Before
  <2>2. CASE etpRun[p].day = EtpDays
    BY <1>7, <2>1, <2>2, Goes DEF NextEtpDay
  <2>3. CASE etpRun[p].day # EtpDays
    <3>1. etpRun' = [etpRun EXCEPT ![p].phase = "fetch", ![p].day = etpRun[p].day + 1, ![p].kind = 1,
                                   ![p].answers = <<>>, ![p].ids = <<>>]
      BY <1>7, <2>3 DEF NextEtpDay
    <3>2. QED
      BY <2>1, <3>1 DEF RunInv, RunFields, RunStep, Keeps
  <2>4. QED
    BY <2>2, <2>3
<1>8. QED
  BY <1>1, <1>2, <1>3, <1>4, <1>5, <1>6, <1>7

\* The runs while the journal stays.
LEMMA RunsMove ==
    ASSUME GateTypeOK, RunInv, EtpNext
    PROVE  RunInv'
<1>1. UNCHANGED journal /\ journal \in Seq(GateRows)
  BY DEF EtpNext, gateVars, GateTypeOK
<1>2. CASE ReviseEtp
  BY <1>1, <1>2 DEF ReviseEtp, RunInv, Standing
<1>3. ASSUME NEW p \in EtpRuns, RunStep(p)
      PROVE  RunInv'
  <2>1. ASSUME NEW r \in EtpRuns, etpRun'[r].phase \notin Before
        PROVE  /\ etpRun'[r].saw \in Nat /\ etpRun'[r].saw <= Len(journal)
               /\ Standing(journal, etpRun'[r].saw, etpRun'[r].asOf)
    <3>1. CASE r # p
      BY <1>3, <2>1, <3>1 DEF RunInv, RunStep
    <3>2. CASE r = p /\ Keeps(etpRun[p], etpRun'[p])
      BY <3>2 DEF RunInv, Keeps
    <3>3. CASE r = p /\ Opens(etpRun[p], etpRun'[p])
      BY <1>1, <3>3, OpenIsStanding DEF Opens
    <3>4. QED
      BY <1>3, <2>1, <3>1, <3>2, <3>3 DEF RunStep, StaysBefore
  <2>2. DOMAIN etpRun' = EtpRuns /\ \A r \in EtpRuns : DOMAIN etpRun'[r] = RunFields
    BY <1>3 DEF RunInv, RunStep, Keeps, Opens, StaysBefore
  <2>3. QED
    BY <1>1, <2>1, <2>2 DEF RunInv
<1>4. QED
  BY <1>2, <1>3, RunSteps DEF EtpNext

\* The journal while the runs stay.
LEMMA JournalMoves ==
    ASSUME GateInv, RunInv, [GateNext]_gateVars, UNCHANGED etpRun
    PROVE  RunInv'
<1>1. journal \in Seq(GateRows)
  BY DEF GateInv, GateTypeOK
<1>2. CASE journal' = journal
  BY <1>2 DEF RunInv, Standing
<1>3. ASSUME NEW d \in GateRows, journal' = Append(journal, d)
      PROVE  RunInv'
  <2>1. ASSUME NEW r \in EtpRuns, etpRun[r].phase \notin Before
        PROVE  /\ etpRun[r].saw \in Nat /\ etpRun[r].saw <= Len(journal')
               /\ Standing(journal', etpRun[r].saw, etpRun[r].asOf)
    BY <1>1, <1>3, <2>1, StandingStays DEF RunInv
  <2>2. QED
    BY <2>1 DEF RunInv
<1>4. QED
  BY <1>2, <1>3, StepIs DEF GateInv

LEMMA EtpGateInvStep ==
    ASSUME EtpGateInv,
           [EtpNext \/ (GateNext /\ UNCHANGED etpVars)]_<<gateVars, etpVars>>
    PROVE  EtpGateInv'
<1>1. [GateNext]_gateVars
  BY DEF EtpNext
<1>2. GateInv'
  BY <1>1, GateTypeStep, JournalStep, SeederStep DEF EtpGateInv, GateInv
<1>3. RunInv'
  <2>1. CASE EtpNext
    BY <2>1, RunsMove DEF EtpGateInv, GateInv
  <2>2. CASE UNCHANGED etpRun
    BY <1>1, <2>2, JournalMoves DEF EtpGateInv
  <2>3. QED
    BY <2>1, <2>2 DEF etpVars
<1>4. QED
  BY <1>2, <1>3 DEF EtpGateInv

LEMMA EtpGateInvInit == GateInit /\ EtpInit => EtpGateInv
<1> SUFFICES ASSUME GateInit, EtpInit PROVE EtpGateInv
  OBVIOUS
<1>1. RunInv
  BY DEF EtpInit, IdleRun, RunInv, RunFields, Before
<1>2. QED
  BY <1>1, GateInvInit DEF EtpGateInv

LEMMA SeenRows ==
    ASSUME NEW rows \in Seq(GateRows), NEW saw \in Nat, saw <= Len(rows)
    PROVE  ToSet(SubSeq(rows, 1, saw)) = {rows[k] : k \in 1..saw}
<1>1. Len(rows) \in Nat /\ DOMAIN rows = 1..Len(rows)
  OBVIOUS
<1>2. DOMAIN SubSeq(rows, 1, saw) = 1..saw /\ \A k \in 1..saw : SubSeq(rows, 1, saw)[k] = rows[k]
  BY <1>1
<1>3. QED
  BY <1>2 DEF ToSet

LEMMA EtpGateInvStands == EtpGateInv => RunsUnderStandingConfirmation
<1> SUFFICES ASSUME EtpGateInv, NEW r \in EtpRuns, etpRun[r].phase \notin Before,
                    NEW gate \in BackfillGates
             PROVE  LET seen == ToSet(SubSeq(journal, 1, etpRun[r].saw))
                    IN  \E d \in seen :
                            /\ d.gate = gate /\ d.status = "CONFIRMED"
                            /\ ValidConfirmation(d) /\ etpRun[r].asOf < d.until
                            /\ \A e \in seen : e.gate = gate => e.recorded <= d.recorded
  BY DEF RunsUnderStandingConfirmation, Before
<1>1. /\ journal \in Seq(GateRows) /\ etpRun[r].saw \in Nat /\ etpRun[r].saw <= Len(journal)
      /\ Standing(journal, etpRun[r].saw, etpRun[r].asOf)
  BY DEF EtpGateInv, GateInv, GateTypeOK, RunInv
<1>2. ToSet(SubSeq(journal, 1, etpRun[r].saw)) = {journal[k] : k \in 1..etpRun[r].saw}
  BY <1>1, SeenRows
<1>3. QED
  BY <1>1, <1>2 DEF Standing

\* No ETP backfill asks KRX for anything unless, when it read the journal, the
\* newest decision of each of its gates was a complete confirmation that had
\* not expired: whatever seeds and reviewers insert meanwhile.
THEOREM RunsUnderStandingConfirmationTheorem == EtpSpec => []RunsUnderStandingConfirmation
<1>1. EtpGateInv /\ [EtpNext \/ (GateNext /\ UNCHANGED etpVars)]_<<gateVars, etpVars>> => EtpGateInv'
  BY EtpGateInvStep
<1>2. QED
  BY EtpGateInvInit, <1>1, EtpGateInvStands, PTL DEF EtpSpec

-----------------------------------------------------------------------------
(***************************************************************************)
(* The snapshots.  No catalog entry is ever replaced; a run past its gates *)
(* holds the answers that the raw records of its day hold, and has saved   *)
(* and linked every product of them that it has not left, and every        *)
(* product of the days before.                                             *)
(***************************************************************************)

CatalogTypeOK ==
    /\ etpKrx \in [ToSet(Kinds) -> [EtpDates -> AllAnswers]]
    /\ etpRaw \in [ToSet(Kinds) \X EtpDates -> RawRecords \cup {Unset}]
    /\ etpSnapshots \in [EtpSymbols \X EtpDates -> SnapshotRecords \cup {Unset}]

Early == {"off", "gates", "fetch"}
Late == {"save", "link"}

\* The local state of a run that has not ended.
LocalOK(x) ==
    x.phase \in Early \cup {"store"} \cup Late =>
        /\ x.day \in EtpDates /\ x.kind \in {1, 2}
        /\ x.answers \in Seq(AllAnswers) /\ x.ids \in Seq(EtpRuns)
        /\ x.phase \in Early => Len(x.answers) = x.kind - 1 /\ Len(x.ids) = x.kind - 1
        /\ x.phase = "store" => Len(x.answers) = x.kind /\ Len(x.ids) = x.kind - 1
        /\ x.phase \in Late => Len(x.answers) = 2 /\ Len(x.ids) = 2

\* The answers whose records the run knows are those of the raw catalog.
StoredOK(x) ==
    x.phase \in Early \cup {"store"} \cup Late =>
        \A k \in 1..Len(x.ids) :
            /\ etpRaw[<<Kinds[k], x.day>>] # Unset
            /\ etpRaw[<<Kinds[k], x.day>>].rows = x.answers[k]
            /\ etpRaw[<<Kinds[k], x.day>>].by = x.ids[k]

Linked(r, d, p) ==
    LET child == <<p.row.symbol, d>>
    IN  /\ etpSnapshots[child] # Unset
        /\ [run |-> r, raw |-> etpSnapshots[child].raw, child |-> child] \in etpEdges

WorkOK(r) ==
    /\ etpRun[r].phase \in Late =>
        /\ etpRun[r].left \subseteq Observed(etpRun[r].answers)
        /\ \A p \in Observed(etpRun[r].answers) \ etpRun[r].left : Linked(r, etpRun[r].day, p)
    /\ etpRun[r].phase = "link" =>
        LET p == First(etpRun[r].left)
        IN  /\ etpRun[r].left # {}
            /\ etpSnapshots[<<p.row.symbol, etpRun[r].day>>] = EtpSnapshot(r, p)

DayDone(r, d) ==
    /\ \A k \in {1, 2} : etpRaw[<<Kinds[k], d>>] # Unset
    /\ \A p \in Observed([k \in {1, 2} |-> etpRaw[<<Kinds[k], d>>].rows]) : Linked(r, d, p)

PastOK(r) ==
    \A d \in EtpDates :
        \/ etpRun[r].phase \in Early \cup {"store"} \cup Late /\ d < etpRun[r].day
        \/ etpRun[r].phase = "done"
        => DayDone(r, d)

RunTraced(r) == LocalOK(etpRun[r]) /\ StoredOK(etpRun[r]) /\ WorkOK(r) /\ PastOK(r)

SnapshotOf(s, d) ==
    LET raw == etpRaw[<<s.kind, d>>]
    IN  raw # Unset /\ s.raw = <<s.kind, d, raw.by>> /\ s.row \in ToSet(raw.rows)

SnapshotsOK ==
    \A child \in EtpSymbols \X EtpDates :
        etpSnapshots[child] # Unset => SnapshotOf(etpSnapshots[child], child[2])

EtpTraceInv == CatalogTypeOK /\ SnapshotsOK /\ \A r \in EtpRuns : RunTraced(r)

-----------------------------------------------------------------------------

\* A nonempty set of natural numbers has a least one.
LEMMA LeastNatural ==
    ASSUME NEW S \in SUBSET Nat, S # {}
    PROVE  \E n \in S : \A m \in S : n <= m
<1> DEFINE R == OpToRel(<, Nat)
<1>1. IsWellFoundedOn(R, Nat)
  BY NatLessThanWellFounded
<1>2. \A x, y \in Nat : y < x => <<y, x>> \in R
  BY DEF OpToRel
<1> HIDE DEF R
<1>3. PICK n \in S : \A m \in S : ~(<<m, n>> \in R)
  BY <1>1, WFMin
<1>4. \A m \in S : ~(m < n)
  BY <1>2, <1>3
<1>5. QED
  BY <1>4

LEMMA KindSet ==
    /\ ToSet(Kinds) = {"ETF", "ETN"} /\ Kinds[1] = "ETF" /\ Kinds[2] = "ETN"
    /\ AllAnswers = EtpAnswers["ETF"] \cup EtpAnswers["ETN"]
<1>1. ToSet(Kinds) = {"ETF", "ETN"}
  <2>1. DOMAIN Kinds = {1, 2} /\ Kinds[1] = "ETF" /\ Kinds[2] = "ETN"
    BY DEF Kinds
  <2>2. QED
    BY <2>1 DEF ToSet
<1>2. QED
  BY <1>1 DEF AllAnswers, Kinds

\* The rows of an answer.
LEMMA AnswerRows ==
    ASSUME NEW rows \in AllAnswers
    PROVE  /\ rows \in Seq(AllRows) /\ DOMAIN rows = 1..Len(rows) /\ Len(rows) \in Nat
           /\ \A i \in DOMAIN rows : rows[i] \in ToSet(rows) /\ rows[i] \in AllRows
           /\ \A row \in AllRows : row.symbol \in EtpSymbols
           /\ EtpSymbols \subseteq Nat
<1>1. rows \in Seq(AllRows) /\ EtpSymbols \subseteq Nat
  BY AnswerAssumption
<1>2. DOMAIN rows = 1..Len(rows) /\ Len(rows) \in Nat
  BY <1>1
<1>3. \A i \in DOMAIN rows : rows[i] \in ToSet(rows) /\ rows[i] \in AllRows
  BY <1>1, <1>2 DEF ToSet
<1>4. QED
  BY <1>1, <1>2, <1>3 DEF EtpSymbols

\* What is put together of two answers.
LEMMA TaggedRows ==
    ASSUME NEW answers, answers[1] \in AllAnswers, answers[2] \in AllAnswers
    PROVE  /\ DOMAIN Tagged(answers) \subseteq Int
           /\ \A i \in DOMAIN Tagged(answers) :
                /\ 1 <= i
                /\ \A k \in 1..(i - 1) : k \in DOMAIN Tagged(answers)
                /\ \/ \E row \in ToSet(answers[1]) : Tagged(answers)[i] = [kind |-> "ETF", row |-> row]
                   \/ \E row \in ToSet(answers[2]) : Tagged(answers)[i] = [kind |-> "ETN", row |-> row]
<1> DEFINE s == answers[1]
           t == answers[2]
           Of(kind) == {[kind |-> kind, row |-> row] : row \in AllRows}
           a == [i \in DOMAIN s |-> [kind |-> "ETF", row |-> s[i]]]
           b == [i \in DOMAIN t |-> [kind |-> "ETN", row |-> t[i]]]
<1>1. /\ DOMAIN s = 1..Len(s) /\ Len(s) \in Nat /\ \A i \in DOMAIN s : s[i] \in ToSet(s) /\ s[i] \in AllRows
      /\ DOMAIN t = 1..Len(t) /\ Len(t) \in Nat /\ \A i \in DOMAIN t : t[i] \in ToSet(t) /\ t[i] \in AllRows
  BY AnswerRows
<1> HIDE DEF s, t
<1>2. a \in [1..Len(s) -> Of("ETF")] /\ b \in [1..Len(t) -> Of("ETN")]
  BY <1>1
<1>3. \A i \in 1..Len(s) : a[i] = [kind |-> "ETF", row |-> s[i]]
  BY <1>1
<1>4. \A i \in 1..Len(t) : b[i] = [kind |-> "ETN", row |-> t[i]]
  BY <1>1
<1> HIDE DEF a, b, Of
<1>5. /\ a \in Seq(Of("ETF")) /\ Len(a) = Len(s)
      /\ b \in Seq(Of("ETN")) /\ Len(b) = Len(t)
  BY <1>1, <1>2
<1>6. /\ DOMAIN (a \o b) = 1..(Len(s) + Len(t))
      /\ \A i \in 1..(Len(s) + Len(t)) :
            (a \o b)[i] = IF i <= Len(s) THEN a[i] ELSE b[i - Len(s)]
  BY <1>1, <1>5
<1>7. Tagged(answers) = a \o b
  BY DEF Tagged, a, b, s, t
<1>8. ASSUME NEW i \in 1..(Len(s) + Len(t))
      PROVE  \/ \E row \in ToSet(s) : (a \o b)[i] = [kind |-> "ETF", row |-> row]
             \/ \E row \in ToSet(t) : (a \o b)[i] = [kind |-> "ETN", row |-> row]
  <2>1. CASE i <= Len(s)
    BY <1>1, <1>3, <1>6, <2>1
  <2>2. CASE ~(i <= Len(s))
    <3>1. i - Len(s) \in 1..Len(t)
      BY <1>1, <2>2
    <3>2. (a \o b)[i] = b[i - Len(s)]
      BY <1>6, <2>2
    <3>3. QED
      BY <1>1, <1>4, <3>1, <3>2
  <2>3. QED
    BY <2>1, <2>2
<1>9. \A i \in 1..(Len(s) + Len(t)) :
        1 <= i /\ i \in Int /\ \A k \in 1..(i - 1) : k \in 1..(Len(s) + Len(t))
  BY <1>1
<1>10. QED
  BY <1>6, <1>7, <1>8, <1>9 DEF s, t

\* The products observed are rows of the answers, and one of each symbol.
LEMMA ObservedRows ==
    ASSUME NEW answers, answers[1] \in AllAnswers, answers[2] \in AllAnswers
    PROVE  /\ \A p \in Observed(answers) :
                /\ p.row \in AllRows /\ p.row.symbol \in EtpSymbols /\ p.row.symbol \in Nat
                /\ \/ p.kind = "ETF" /\ p.row \in ToSet(answers[1])
                   \/ p.kind = "ETN" /\ p.row \in ToSet(answers[2])
           /\ \A p, q \in Observed(answers) : p.row.symbol = q.row.symbol => p = q
<1> DEFINE all == Tagged(answers)
           Found(i) == all[i].row.single /\ Classified(all[i].row) /\ all[i].row.target
           Firsts == {i \in DOMAIN all :
                        /\ Found(i)
                        /\ \A k \in 1..(i - 1) : Found(k) => all[k].row.symbol # all[i].row.symbol}
<1>1. Observed(answers) \subseteq {all[i] : i \in Firsts}
  BY DEF Observed, Discovered
<1> HIDE DEF all
<1>2. ASSUME NEW p \in Observed(answers)
      PROVE  /\ p.row \in AllRows /\ p.row.symbol \in EtpSymbols /\ p.row.symbol \in Nat
             /\ \/ p.kind = "ETF" /\ p.row \in ToSet(answers[1])
                \/ p.kind = "ETN" /\ p.row \in ToSet(answers[2])
  <2>1. PICK i \in DOMAIN all : p = all[i]
    BY <1>1
  <2>2. \/ \E row \in ToSet(answers[1]) : p = [kind |-> "ETF", row |-> row]
        \/ \E row \in ToSet(answers[2]) : p = [kind |-> "ETN", row |-> row]
    BY <2>1, TaggedRows DEF all
  <2>3. \/ p.kind = "ETF" /\ p.row \in ToSet(answers[1])
        \/ p.kind = "ETN" /\ p.row \in ToSet(answers[2])
    BY <2>2
  <2>4. ToSet(answers[1]) \subseteq AllRows /\ ToSet(answers[2]) \subseteq AllRows
    BY AnswerRows DEF ToSet
  <2>5. QED
    BY <2>3, <2>4, AnswerRows
<1>3. ASSUME NEW i \in Firsts, NEW k \in Firsts, all[i].row.symbol = all[k].row.symbol
      PROVE  i = k
  <2>1. i \in Int /\ k \in Int /\ 1 <= i /\ 1 <= k
    BY TaggedRows DEF all
  <2>2. ~(i < k)
    BY <1>3, <2>1
  <2>3. ~(k < i)
    BY <1>3, <2>1
  <2>4. QED
    BY <2>1, <2>2, <2>3
<1> HIDE DEF Firsts
<1>4. \A p, q \in Observed(answers) : p.row.symbol = q.row.symbol => p = q
  BY <1>1, <1>3
<1>5. QED
  BY <1>2, <1>4

\* The products in the order they are worked on have a first one.
LEMMA FirstIsThere ==
    ASSUME NEW answers, answers[1] \in AllAnswers, answers[2] \in AllAnswers,
           NEW left \in SUBSET Observed(answers), left # {}
    PROVE  First(left) \in left
<1> DEFINE Comes(p, q) == \/ p.kind = "ETF" /\ q.kind = "ETN"
                          \/ p.kind = q.kind /\ p.row.symbol <= q.row.symbol
           Of(kind) == {p \in left : p.kind = kind}
<1>1. \A p \in left : p.row.symbol \in Nat /\ p.kind \in {"ETF", "ETN"}
  BY ObservedRows
<1>2. ASSUME NEW kind, Of(kind) # {}
      PROVE  \E p \in Of(kind) : \A q \in Of(kind) : p.row.symbol <= q.row.symbol
  <2> DEFINE symbols == {p.row.symbol : p \in Of(kind)}
  <2>1. symbols \in SUBSET Nat /\ symbols # {}
    BY <1>1, <1>2
  <2>2. PICK n \in symbols : \A m \in symbols : n <= m
    BY <2>1, LeastNatural
  <2>3. QED
    BY <2>2
<1>3. \E p \in left : \A q \in left : Comes(p, q)
  <2>1. CASE Of("ETF") # {}
    <3>1. PICK p \in Of("ETF") : \A q \in Of("ETF") : p.row.symbol <= q.row.symbol
      BY <1>2, <2>1
    <3>2. \A q \in left : Comes(p, q)
      BY <1>1, <3>1
    <3>3. QED
      BY <3>1, <3>2
  <2>2. CASE Of("ETF") = {}
    <3>1. \A p \in left : p.kind = "ETN"
      BY <1>1, <2>2
    <3>2. Of("ETN") # {}
      BY <3>1
    <3>3. QED
      BY <1>2, <3>1, <3>2
  <2>3. QED
    BY <2>1, <2>2
<1>4. QED
  BY <1>3 DEF First

\* Only the rows of the two answers matter.
LEMMA ObservedSame ==
    ASSUME NEW a, NEW b, a[1] = b[1], a[2] = b[2]
    PROVE  Observed(a) = Observed(b)
BY DEF Observed, Discovered, Tagged

-----------------------------------------------------------------------------

Same(x, y) == y.day = x.day /\ y.kind = x.kind /\ y.answers = x.answers /\ y.ids = x.ids

\* What each step makes of the run that takes it.
MovesTo(p, y) ==
    LET x == etpRun[p]
    IN  \/ y.phase \in {"blocked", "failed", "conflict"}
        \/ StartEtp(p) /\ x.phase = "off" /\ y.phase = "gates" /\ Same(x, y)
        \/ CheckGates(p) /\ x.phase = "gates" /\ y.phase = "fetch" /\ Same(x, y)
        \/ FetchEtp(p) /\ x.phase = "fetch" /\ y.phase = "fetch" /\ Same(x, y)
        \/ /\ FetchEtp(p) /\ x.phase = "fetch" /\ y.phase = "store"
           /\ y.day = x.day /\ y.kind = x.kind /\ y.ids = x.ids
           /\ y.answers = Append(x.answers, etpKrx[Kinds[x.kind]][x.day])
        \/ /\ StoreEtp(p) /\ x.phase = "store" /\ ~RawConflicts(p)
           /\ y.ids = Append(x.ids, StoredBy(p)) /\ y.day = x.day /\ y.answers = x.answers
           /\ y.kind = 2
           /\ \/ x.kind = 1 /\ y.phase = "fetch"
              \/ x.kind # 1 /\ y.phase = "save" /\ y.left = Observed(x.answers)
        \/ /\ SaveEtp(p) /\ x.phase = "save" /\ x.left # {} /\ y.phase = "link"
           /\ Same(x, y) /\ y.left = x.left
        \/ /\ LinkEtp(p) /\ x.phase = "link" /\ y.phase = "save"
           /\ Same(x, y) /\ y.left = x.left \ {First(x.left)}
        \/ /\ NextEtpDay(p) /\ x.phase = "save" /\ x.left = {} /\ y.phase = "done"
           /\ Same(x, y) /\ x.day = EtpDays
        \/ /\ NextEtpDay(p) /\ x.phase = "save" /\ x.left = {} /\ y.phase = "fetch"
           /\ x.day # EtpDays /\ y.day = x.day + 1 /\ y.kind = 1
           /\ y.answers = <<>> /\ y.ids = <<>>

\* A run that only goes to another phase keeps the rest.
LEMMA GoesSame ==
    ASSUME RunInv, NEW p \in EtpRuns, NEW phase, EtpGoto(p, phase)
    PROVE  /\ etpRun'[p].phase = phase /\ Same(etpRun[p], etpRun'[p])
           /\ etpRun'[p].left = etpRun[p].left
BY DEF EtpGoto, RunInv, RunFields, Same

LEMMA RunMoves ==
    ASSUME RunInv, NEW p \in EtpRuns, LocalOK(etpRun[p]),
           \/ StartEtp(p) \/ CheckGates(p) \/ FetchEtp(p) \/ StoreEtp(p)
           \/ SaveEtp(p) \/ LinkEtp(p) \/ NextEtpDay(p) \/ CrashEtp(p)
    PROVE  MovesTo(p, etpRun'[p])
<1>1. CASE StartEtp(p)
  BY <1>1 DEF StartEtp, RunInv, RunFields, Same, MovesTo
<1>2. CASE CheckGates(p)
  <2> DEFINE rows == Len(journal)
             opened == [etpRun[p] EXCEPT !.phase = "fetch", !.saw = rows]
             closed == [IdleRun EXCEPT !.phase = "blocked"]
  <2>1. CASE Loadable(journal) /\ GatesOpen(journal, etpRun[p].asOf)
    <3>1. etpRun[p].phase = "gates" /\ etpRun' = [etpRun EXCEPT ![p] = opened]
      BY <1>2, <2>1 DEF CheckGates
    <3> HIDE DEF rows
    <3>2. opened.phase = "fetch" /\ Same(etpRun[p], opened)
      BY DEF RunInv, RunFields, Same
    <3> HIDE DEF opened
    <3>3. etpRun'[p] = opened
      BY <3>1 DEF RunInv
    <3>4. QED
      BY <1>2, <3>1, <3>2, <3>3 DEF MovesTo
  <2>2. CASE ~(Loadable(journal) /\ GatesOpen(journal, etpRun[p].asOf))
    <3>1. etpRun' = [etpRun EXCEPT ![p] = closed]
      BY <1>2, <2>2 DEF CheckGates
    <3>2. closed.phase = "blocked"
      BY DEF IdleRun
    <3> HIDE DEF closed
    <3>3. QED
      BY <3>1, <3>2 DEF RunInv, MovesTo
  <2>3. QED
    BY <2>1, <2>2
<1>3. CASE FetchEtp(p)
  <2>1. etpRun[p].phase = "fetch"
    BY <1>3 DEF FetchEtp
  <2>2. CASE EtpGoto(p, "failed")
    BY <2>2, GoesSame DEF MovesTo
  <2>3. CASE etpRun' = [etpRun EXCEPT ![p].attempts = @ + 1]
    <3> DEFINE more == etpRun[p].attempts + 1
    <3>1. etpRun' = [etpRun EXCEPT ![p].attempts = more]
      BY <2>3
    <3> HIDE DEF more
    <3>2. etpRun'[p].phase = "fetch" /\ Same(etpRun[p], etpRun'[p])
      BY <2>1, <3>1 DEF RunInv, RunFields, Same
    <3>3. QED
      BY <1>3, <2>1, <3>2 DEF MovesTo
  <2>4. CASE etpRun' = [etpRun EXCEPT ![p].phase = "store", ![p].attempts = 0,
                            ![p].answers = Append(@, etpKrx[Kinds[etpRun[p].kind]][etpRun[p].day])]
    <3> DEFINE got == Append(etpRun[p].answers, etpKrx[Kinds[etpRun[p].kind]][etpRun[p].day])
    <3>1. etpRun' = [etpRun EXCEPT ![p].phase = "store", ![p].attempts = 0, ![p].answers = got]
      BY <2>4
    <3> HIDE DEF got
    <3>2. /\ etpRun'[p].phase = "store" /\ etpRun'[p].answers = got
          /\ etpRun'[p].day = etpRun[p].day /\ etpRun'[p].kind = etpRun[p].kind
          /\ etpRun'[p].ids = etpRun[p].ids
      BY <3>1 DEF RunInv, RunFields
    <3>3. QED
      BY <1>3, <2>1, <3>2 DEF MovesTo, got
  <2>5. QED
    BY <1>3, <2>2, <2>3, <2>4 DEF FetchEtp
<1>4. CASE StoreEtp(p)
  <2> DEFINE named == Append(etpRun[p].ids, StoredBy(p))
             products == Observed(etpRun[p].answers)
  <2>1. etpRun[p].phase = "store" /\ etpRun[p].kind \in {1, 2}
    BY <1>4 DEF StoreEtp, LocalOK
  <2>2. CASE RawConflicts(p)
    BY <1>4, <2>2, GoesSame DEF StoreEtp, MovesTo
  <2>3. CASE ~RawConflicts(p) /\ etpRun[p].kind = 1
    <3>1. etpRun' = [etpRun EXCEPT ![p].ids = named, ![p].kind = 2, ![p].phase = "fetch"]
      BY <1>4, <2>3 DEF StoreEtp
    <3> HIDE DEF named
    <3>2. /\ etpRun'[p].phase = "fetch" /\ etpRun'[p].ids = named /\ etpRun'[p].kind = 2
          /\ etpRun'[p].day = etpRun[p].day /\ etpRun'[p].answers = etpRun[p].answers
      BY <3>1 DEF RunInv, RunFields
    <3>3. QED
      BY <1>4, <2>1, <2>3, <3>2 DEF MovesTo, named
  <2>4. CASE ~RawConflicts(p) /\ etpRun[p].kind # 1
    <3>1. etpRun' = [etpRun EXCEPT ![p].ids = named, ![p].left = products, ![p].phase = "save"]
      BY <1>4, <2>4 DEF StoreEtp
    <3> HIDE DEF named, products
    <3>2. /\ etpRun'[p].phase = "save" /\ etpRun'[p].ids = named
          /\ etpRun'[p].kind = etpRun[p].kind /\ etpRun'[p].left = products
          /\ etpRun'[p].day = etpRun[p].day /\ etpRun'[p].answers = etpRun[p].answers
      BY <3>1 DEF RunInv, RunFields
    <3>3. etpRun'[p].kind = 2
      BY <2>1, <2>4, <3>2
    <3>4. QED
      BY <1>4, <2>1, <2>4, <3>2, <3>3 DEF MovesTo, named, products
  <2>5. QED
    BY <2>2, <2>3, <2>4
<1>5. CASE SaveEtp(p) \/ CrashEtp(p)
  <2>1. \/ SaveEtp(p) /\ etpRun[p].phase = "save" /\ etpRun[p].left # {} /\ EtpGoto(p, "link")
        \/ EtpGoto(p, "conflict") \/ EtpGoto(p, "failed")
    BY <1>5 DEF SaveEtp, CrashEtp
  <2>2. QED
    BY <2>1, GoesSame DEF MovesTo
<1>6. CASE LinkEtp(p)
  <2> DEFINE others == etpRun[p].left \ {First(etpRun[p].left)}
  <2>1. /\ etpRun[p].phase = "link"
        /\ etpRun' = [etpRun EXCEPT ![p].phase = "save", ![p].left = others]
    BY <1>6 DEF LinkEtp
  <2> HIDE DEF others
  <2>2. etpRun'[p].phase = "save" /\ Same(etpRun[p], etpRun'[p]) /\ etpRun'[p].left = others
    BY <2>1 DEF RunInv, RunFields, Same
  <2>3. QED
    BY <1>6, <2>1, <2>2 DEF MovesTo, others
<1>7. CASE NextEtpDay(p)
  <2>1. etpRun[p].phase = "save" /\ etpRun[p].left = {}
    BY <1>7 DEF NextEtpDay
  <2>2. CASE etpRun[p].day = EtpDays
    BY <1>7, <2>1, <2>2, GoesSame DEF NextEtpDay, MovesTo
  <2>3. CASE etpRun[p].day # EtpDays
    <3> DEFINE next == etpRun[p].day + 1
    <3>1. etpRun' = [etpRun EXCEPT ![p].phase = "fetch", ![p].day = next, ![p].kind = 1,
                                   ![p].answers = <<>>, ![p].ids = <<>>]
      BY <1>7, <2>3 DEF NextEtpDay
    <3> HIDE DEF next
    <3>2. /\ etpRun'[p].phase = "fetch" /\ etpRun'[p].day = next /\ etpRun'[p].kind = 1
          /\ etpRun'[p].answers = <<>> /\ etpRun'[p].ids = <<>>
      BY <3>1 DEF RunInv, RunFields
    <3>3. QED
      BY <1>7, <2>1, <2>3, <3>2 DEF MovesTo, next
  <2>4. QED
    BY <2>2, <2>3
<1>8. QED
  BY <1>1, <1>2, <1>3, <1>4, <1>5, <1>6, <1>7

-----------------------------------------------------------------------------

\* No entry is ever replaced.
Grows ==
    /\ \A x \in ToSet(Kinds) \X EtpDates : etpRaw[x] # Unset => etpRaw'[x] = etpRaw[x]
    /\ \A x \in EtpSymbols \X EtpDates :
        etpSnapshots[x] # Unset => etpSnapshots'[x] = etpSnapshots[x]
    /\ etpEdges \subseteq etpEdges'

LEMMA LinkedStays ==
    ASSUME Grows, NEW r, NEW d \in EtpDates, NEW p, p.row.symbol \in EtpSymbols, Linked(r, d, p)
    PROVE  Linked(r, d, p)'
<1> DEFINE child == <<p.row.symbol, d>>
<1>1. child \in EtpSymbols \X EtpDates
  OBVIOUS
<1>2. etpSnapshots[child] # Unset
      /\ [run |-> r, raw |-> etpSnapshots[child].raw, child |-> child] \in etpEdges
  BY DEF Linked
<1>3. etpSnapshots'[child] = etpSnapshots[child] /\ etpEdges \subseteq etpEdges'
  BY <1>1, <1>2 DEF Grows
<1>4. QED
  BY <1>2, <1>3 DEF Linked

\* The two answers of a day in the raw catalog.
LEMMA RawPair ==
    ASSUME CatalogTypeOK, NEW d \in EtpDates, \A k \in {1, 2} : etpRaw[<<Kinds[k], d>>] # Unset
    PROVE  \A k \in {1, 2} : /\ <<Kinds[k], d>> \in ToSet(Kinds) \X EtpDates
                             /\ etpRaw[<<Kinds[k], d>>].rows \in AllAnswers
<1>1. \A k \in {1, 2} : <<Kinds[k], d>> \in ToSet(Kinds) \X EtpDates
  BY KindSet
<1>2. \A k \in {1, 2} : etpRaw[<<Kinds[k], d>>] \in RawRecords
  BY <1>1 DEF CatalogTypeOK
<1>3. QED
  BY <1>1, <1>2 DEF RawRecords

LEMMA DayDoneStays ==
    ASSUME CatalogTypeOK, Grows, NEW r, NEW d \in EtpDates, DayDone(r, d)
    PROVE  DayDone(r, d)'
<1> DEFINE rows == [k \in {1, 2} |-> etpRaw[<<Kinds[k], d>>].rows]
<1>1. \A k \in {1, 2} : /\ <<Kinds[k], d>> \in ToSet(Kinds) \X EtpDates
                        /\ etpRaw[<<Kinds[k], d>>].rows \in AllAnswers
                        /\ etpRaw[<<Kinds[k], d>>] # Unset
  BY RawPair DEF DayDone
<1>2. \A k \in {1, 2} : etpRaw'[<<Kinds[k], d>>] = etpRaw[<<Kinds[k], d>>]
  BY <1>1 DEF Grows
<1>3. rows' = rows
  BY <1>2
<1>4. rows[1] \in AllAnswers /\ rows[2] \in AllAnswers
  BY <1>1
<1>5. \A p \in Observed(rows) : Linked(r, d, p)
  BY DEF DayDone
<1>6. \A p \in Observed(rows) : p.row.symbol \in EtpSymbols
  <2> HIDE DEF rows
  <2>1. QED
    BY <1>4, ObservedRows
<1>7. \A p \in Observed(rows) : Linked(r, d, p)'
  <2> HIDE DEF rows
  <2>1. QED
    BY <1>5, <1>6, LinkedStays
<1>8. QED
  BY <1>1, <1>2, <1>3, <1>7 DEF DayDone

\* What a run that saves and links products holds.
LEMMA Holds ==
    ASSUME NEW x, LocalOK(x), x.phase \in Late
    PROVE  /\ x.day \in EtpDates /\ x.answers \in Seq(AllAnswers) /\ x.ids \in Seq(EtpRuns)
           /\ Len(x.answers) = 2 /\ Len(x.ids) = 2
           /\ x.answers[1] \in AllAnswers /\ x.answers[2] \in AllAnswers
           /\ x.ids[1] \in EtpRuns /\ x.ids[2] \in EtpRuns
<1>1. /\ x.day \in EtpDates /\ x.answers \in Seq(AllAnswers) /\ x.ids \in Seq(EtpRuns)
      /\ Len(x.answers) = 2 /\ Len(x.ids) = 2
  BY DEF LocalOK
<1>2. QED
  BY <1>1

\* The snapshot of a product names the raw record that holds its row.
LEMMA ProductOfRun ==
    ASSUME CatalogTypeOK, NEW r \in EtpRuns, LocalOK(etpRun[r]), StoredOK(etpRun[r]),
           etpRun[r].phase \in Late, NEW p \in Observed(etpRun[r].answers)
    PROVE  /\ p.row.symbol \in EtpSymbols
           /\ EtpSnapshot(r, p) \in SnapshotRecords /\ EtpSnapshot(r, p) # Unset
           /\ EtpSnapshot(r, p).raw = RawId(r, p)
           /\ SnapshotOf(EtpSnapshot(r, p), etpRun[r].day)
<1> DEFINE x == etpRun[r]
           k == IF p.kind = "ETF" THEN 1 ELSE 2
<1>1. /\ x.day \in EtpDates /\ Len(x.ids) = 2
      /\ x.answers[1] \in AllAnswers /\ x.answers[2] \in AllAnswers
      /\ x.ids[1] \in EtpRuns /\ x.ids[2] \in EtpRuns
  BY Holds
<1>2. /\ p.row \in AllRows /\ p.row.symbol \in EtpSymbols
      /\ \/ p.kind = "ETF" /\ p.row \in ToSet(x.answers[1])
         \/ p.kind = "ETN" /\ p.row \in ToSet(x.answers[2])
  BY <1>1, ObservedRows
<1>3. /\ k \in {1, 2} /\ Kinds[k] = p.kind /\ p.kind \in ToSet(Kinds)
      /\ p.row \in ToSet(x.answers[k]) /\ x.ids[k] \in EtpRuns
  BY <1>1, <1>2, KindSet
<1>4. /\ etpRaw[<<Kinds[k], x.day>>] # Unset
      /\ etpRaw[<<Kinds[k], x.day>>].rows = x.answers[k]
      /\ etpRaw[<<Kinds[k], x.day>>].by = x.ids[k]
  BY <1>1, <1>3 DEF StoredOK
<1>5. RawId(r, p) = <<p.kind, x.day, x.ids[k]>>
  BY DEF RawId
<1>6. RawId(r, p) \in ToSet(Kinds) \X EtpDates \X EtpRuns
  BY <1>1, <1>3, <1>5
<1> HIDE DEF k
<1>7. /\ EtpSnapshot(r, p).kind = p.kind /\ EtpSnapshot(r, p).row = p.row
      /\ EtpSnapshot(r, p).raw = RawId(r, p)
      /\ EtpSnapshot(r, p) \in SnapshotRecords
  BY <1>2, <1>3, <1>6 DEF EtpSnapshot, SnapshotRecords
<1>8. EtpSnapshot(r, p) # Unset
  BY <1>7, AnswerAssumption
<1> HIDE DEF x
<1>9. SnapshotOf(EtpSnapshot(r, p), x.day)
  BY <1>3, <1>4, <1>5, <1>7 DEF SnapshotOf
<1>10. QED
  BY <1>2, <1>7, <1>8, <1>9 DEF x

\* Storing an answer: the record of the day then holds it, and has the name the run
\* is given.
LEMMA StoreWrites ==
    ASSUME CatalogTypeOK, NEW p \in EtpRuns, LocalOK(etpRun[p]), etpRun[p].phase = "store",
           ~RawConflicts(p), StoreEtp(p)
    PROVE  /\ etpRaw' \in [ToSet(Kinds) \X EtpDates -> RawRecords \cup {Unset}]
           /\ \A x \in ToSet(Kinds) \X EtpDates : etpRaw[x] # Unset => etpRaw'[x] = etpRaw[x]
           /\ etpRaw'[Slot(p)] # Unset
           /\ etpRaw'[Slot(p)].rows = etpRun[p].answers[etpRun[p].kind]
           /\ etpRaw'[Slot(p)].by = StoredBy(p) /\ StoredBy(p) \in EtpRuns
<1> DEFINE x == etpRun[p]
           slot == Slot(p)
           new == [rows |-> Last(x.answers), by |-> p]
<1>1. /\ x.day \in EtpDates /\ x.kind \in {1, 2}
      /\ x.answers \in Seq(AllAnswers) /\ Len(x.answers) = x.kind
  BY DEF LocalOK
<1>2. Last(x.answers) = x.answers[x.kind] /\ Last(x.answers) \in AllAnswers
  BY <1>1 DEF Last
<1>3. slot \in ToSet(Kinds) \X EtpDates
  BY <1>1, KindSet DEF Slot
<1>4. /\ new \in RawRecords /\ new # Unset
      /\ new.rows = x.answers[x.kind] /\ new.by = p
  BY <1>2, AnswerAssumption DEF RawRecords
<1>5. etpRaw' = [etpRaw EXCEPT ![slot] = IF etpRaw[slot] = Unset THEN new ELSE etpRaw[slot]]
  BY DEF StoreEtp
<1>6. etpRaw[slot] # Unset => etpRaw[slot].rows = x.answers[x.kind]
  BY <1>2 DEF RawConflicts
<1>7. etpRaw[slot] # Unset => etpRaw[slot] \in RawRecords /\ etpRaw[slot].by \in EtpRuns
  BY <1>3 DEF CatalogTypeOK, RawRecords
<1>8. StoredBy(p) = IF etpRaw[slot] = Unset THEN p ELSE etpRaw[slot].by
  BY DEF StoredBy
<1> HIDE DEF x, slot, new
<1>9. etpRaw \in [ToSet(Kinds) \X EtpDates -> RawRecords \cup {Unset}]
  BY DEF CatalogTypeOK
<1>10. etpRaw'[slot] = IF etpRaw[slot] = Unset THEN new ELSE etpRaw[slot]
  BY <1>3, <1>5, <1>9
<1>11. etpRaw' \in [ToSet(Kinds) \X EtpDates -> RawRecords \cup {Unset}]
  BY <1>4, <1>5, <1>9
<1>12. \A y \in ToSet(Kinds) \X EtpDates : etpRaw[y] # Unset => etpRaw'[y] = etpRaw[y]
  BY <1>3, <1>5, <1>9
<1>13. /\ etpRaw'[slot] # Unset /\ etpRaw'[slot].rows = x.answers[x.kind]
       /\ etpRaw'[slot].by = StoredBy(p) /\ StoredBy(p) \in EtpRuns
  BY <1>4, <1>6, <1>7, <1>8, <1>10
<1>14. QED
  BY <1>11, <1>12, <1>13 DEF slot, x

\* What a step writes to the catalogs; the rest stays.
LEMMA CatalogStep ==
    ASSUME CatalogTypeOK, SnapshotsOK, RunInv, NEW p \in EtpRuns, RunTraced(p),
           \/ StartEtp(p) \/ CheckGates(p) \/ FetchEtp(p) \/ StoreEtp(p)
           \/ SaveEtp(p) \/ LinkEtp(p) \/ NextEtpDay(p) \/ CrashEtp(p)
    PROVE  CatalogTypeOK' /\ SnapshotsOK' /\ Grows
<1>1. CASE \/ StartEtp(p) \/ CheckGates(p) \/ FetchEtp(p) \/ NextEtpDay(p) \/ CrashEtp(p)
           \/ StoreEtp(p) /\ RawConflicts(p)
  <2>1. UNCHANGED <<etpKrx, etpRaw, etpSnapshots, etpEdges>>
    BY <1>1 DEF StartEtp, CheckGates, FetchEtp, NextEtpDay, CrashEtp, StoreEtp, etpCatalogs
  <2>2. QED
    BY <2>1 DEF CatalogTypeOK, SnapshotsOK, SnapshotOf, Grows
<1>2. CASE StoreEtp(p) /\ ~RawConflicts(p)
  <2>1. UNCHANGED <<etpKrx, etpSnapshots, etpEdges>> /\ etpRun[p].phase = "store"
    BY <1>2 DEF StoreEtp
  <2>2. /\ etpRaw' \in [ToSet(Kinds) \X EtpDates -> RawRecords \cup {Unset}]
        /\ \A x \in ToSet(Kinds) \X EtpDates : etpRaw[x] # Unset => etpRaw'[x] = etpRaw[x]
    BY <1>2, <2>1, StoreWrites DEF RunTraced
  <2>3. ASSUME NEW s \in SnapshotRecords, NEW d \in EtpDates, SnapshotOf(s, d)
        PROVE  SnapshotOf(s, d)'
    <3>1. <<s.kind, d>> \in ToSet(Kinds) \X EtpDates
      BY DEF SnapshotRecords
    <3>2. etpRaw'[<<s.kind, d>>] = etpRaw[<<s.kind, d>>]
      BY <2>2, <2>3, <3>1 DEF SnapshotOf
    <3>3. QED
      BY <2>3, <3>2 DEF SnapshotOf
  <2>4. SnapshotsOK'
    <3>1. ASSUME NEW child \in EtpSymbols \X EtpDates, etpSnapshots[child] # Unset
          PROVE  SnapshotOf(etpSnapshots[child], child[2])'
      <4>1. etpSnapshots[child] \in SnapshotRecords /\ child[2] \in EtpDates
        BY <3>1 DEF CatalogTypeOK
      <4>2. SnapshotOf(etpSnapshots[child], child[2])
        BY <3>1 DEF SnapshotsOK
      <4>3. PICK s \in SnapshotRecords : s = etpSnapshots[child]
        BY <4>1
      <4>4. SnapshotOf(s, child[2])'
        BY <2>3, <4>1, <4>2, <4>3
      <4>5. etpSnapshots'[child] = s
        BY <2>1, <4>3
      <4>6. QED
        BY <4>4, <4>5 DEF SnapshotOf
    <3>2. QED
      BY <2>1, <3>1 DEF SnapshotsOK
  <2>5. QED
    BY <2>1, <2>2, <2>4 DEF CatalogTypeOK, Grows
<1>3. CASE SaveEtp(p)
  <2> DEFINE q == First(etpRun[p].left)
             child == <<q.row.symbol, etpRun[p].day>>
             s == EtpSnapshot(p, q)
  <2>1. /\ UNCHANGED <<etpKrx, etpRaw, etpEdges>>
        /\ \/ UNCHANGED etpSnapshots
           \/ etpSnapshots[child] \in {Unset, s} /\ etpSnapshots' = [etpSnapshots EXCEPT ![child] = s]
    BY <1>3 DEF SaveEtp
  <2>2. q \in Observed(etpRun[p].answers) /\ etpRun[p].phase \in Late /\ etpRun[p].day \in EtpDates
    <3>1. etpRun[p].phase \in Late /\ etpRun[p].left # {}
      BY <1>3 DEF SaveEtp, Late
    <3>2. etpRun[p].left \subseteq Observed(etpRun[p].answers)
      BY <3>1 DEF RunTraced, WorkOK
    <3>3. QED
      BY <3>1, <3>2, Holds, FirstIsThere DEF RunTraced
  <2>3. /\ child \in EtpSymbols \X EtpDates /\ s \in SnapshotRecords
        /\ SnapshotOf(s, etpRun[p].day)
    BY <2>2, ProductOfRun DEF RunTraced
  <2>4. \A x \in EtpSymbols \X EtpDates :
            etpSnapshots'[x] = etpSnapshots[x] \/ (x = child /\ etpSnapshots'[x] = s)
    BY <2>1, <2>3 DEF CatalogTypeOK
  <2>5. SnapshotOf(s, child[2])
    BY <2>3
  <2> HIDE DEF q, child, s
  <2>6. etpSnapshots' \in [EtpSymbols \X EtpDates -> SnapshotRecords \cup {Unset}]
    BY <2>1, <2>3 DEF CatalogTypeOK
  <2>7. \A x \in EtpSymbols \X EtpDates :
            etpSnapshots[x] # Unset => etpSnapshots'[x] = etpSnapshots[x]
    BY <2>1, <2>3 DEF CatalogTypeOK
  <2>8. SnapshotsOK'
    <3>1. \A x \in EtpSymbols \X EtpDates :
            etpSnapshots'[x] # Unset => SnapshotOf(etpSnapshots'[x], x[2])
      BY <2>4, <2>5 DEF SnapshotsOK
    <3>2. QED
      BY <2>1, <3>1 DEF SnapshotsOK, SnapshotOf
  <2>9. QED
    BY <2>1, <2>6, <2>7, <2>8 DEF CatalogTypeOK, Grows
<1>4. CASE LinkEtp(p)
  <2>1. UNCHANGED <<etpKrx, etpRaw, etpSnapshots>> /\ etpEdges \subseteq etpEdges'
    BY <1>4 DEF LinkEtp
  <2>2. QED
    BY <2>1 DEF CatalogTypeOK, SnapshotsOK, SnapshotOf, Grows
<1>5. QED
  BY <1>1, <1>2, <1>3, <1>4

-----------------------------------------------------------------------------

\* A run that a step does not touch.
LEMMA RunTracedStays ==
    ASSUME CatalogTypeOK, Grows, NEW r \in EtpRuns, RunTraced(r), etpRun'[r] = etpRun[r]
    PROVE  RunTraced(r)'
<1> DEFINE x == etpRun[r]
<1>1. LocalOK(x)'
  BY DEF RunTraced
<1>2. StoredOK(x)'
  <2> SUFFICES ASSUME x.phase \in Early \cup {"store"} \cup Late, NEW k \in 1..Len(x.ids)
               PROVE  /\ etpRaw'[<<Kinds[k], x.day>>] # Unset
                      /\ etpRaw'[<<Kinds[k], x.day>>].rows = x.answers[k]
                      /\ etpRaw'[<<Kinds[k], x.day>>].by = x.ids[k]
    BY DEF StoredOK
  <2>1. x.kind \in {1, 2} /\ x.day \in EtpDates
        /\ (Len(x.ids) = x.kind - 1 \/ Len(x.ids) = 2)
    BY DEF RunTraced, LocalOK, Early, Late
  <2>2. k \in {1, 2}
    <3> DEFINE n == Len(x.ids)
               kind == x.kind
    <3>1. kind \in {1, 2} /\ (n = kind - 1 \/ n = 2) /\ k \in 1..n
      BY <2>1
    <3> HIDE DEF n, kind
    <3>2. n = 0 \/ n = 1 \/ n = 2
      BY <3>1
    <3>3. QED
      BY <3>1, <3>2
  <2>3. <<Kinds[k], x.day>> \in ToSet(Kinds) \X EtpDates
    BY <2>1, <2>2, KindSet
  <2>4. QED
    BY <2>3 DEF RunTraced, StoredOK, Grows
<1>3. WorkOK(r)'
  <2>1. CASE x.phase \in Late
    <3>1. /\ x.left \subseteq Observed(x.answers) /\ x.day \in EtpDates
          /\ x.answers[1] \in AllAnswers /\ x.answers[2] \in AllAnswers
      BY <2>1, Holds DEF RunTraced, WorkOK
    <3>2. \A p \in Observed(x.answers) : p.row.symbol \in EtpSymbols
      BY <3>1, ObservedRows
    <3>3. \A p \in Observed(x.answers) \ x.left : Linked(r, x.day, p)'
      <4>1. \A p \in Observed(x.answers) \ x.left : Linked(r, x.day, p)
        BY <2>1 DEF RunTraced, WorkOK
      <4>2. QED
        BY <3>1, <3>2, <4>1, LinkedStays
    <3>4. ASSUME x.phase = "link"
          PROVE  /\ x.left # {}
                 /\ etpSnapshots'[<<First(x.left).row.symbol, x.day>>] = EtpSnapshot(r, First(x.left))
      <4>1. /\ x.left # {}
            /\ etpSnapshots[<<First(x.left).row.symbol, x.day>>] = EtpSnapshot(r, First(x.left))
        BY <3>4 DEF RunTraced, WorkOK
      <4>2. First(x.left) \in Observed(x.answers)
        BY <3>1, <4>1, FirstIsThere
      <4>3. EtpSnapshot(r, First(x.left)) # Unset
        BY <2>1, <4>2, ProductOfRun DEF RunTraced
      <4>4. <<First(x.left).row.symbol, x.day>> \in EtpSymbols \X EtpDates
        BY <3>1, <3>2, <4>2
      <4>5. QED
        BY <4>1, <4>3, <4>4 DEF Grows
    <3>5. EtpSnapshot(r, First(x.left))' = EtpSnapshot(r, First(x.left))
      BY DEF EtpSnapshot, RawId
    <3>6. QED
      BY <3>1, <3>3, <3>4, <3>5 DEF WorkOK
  <2>2. CASE x.phase \notin Late
    BY <2>2 DEF WorkOK, Late
  <2>3. QED
    BY <2>1, <2>2
<1>4. PastOK(r)'
  BY DayDoneStays DEF RunTraced, PastOK
<1>5. QED
  BY <1>1, <1>2, <1>3, <1>4 DEF RunTraced

\* A run that has not ended, after a step, has done its days so far.
LEMMA PastStays ==
    ASSUME CatalogTypeOK, Grows, NEW r \in EtpRuns, PastOK(r),
           etpRun[r].phase \in Early \cup {"store"} \cup Late,
           etpRun'[r].phase \in Early \cup {"store"} \cup Late, etpRun'[r].day = etpRun[r].day
    PROVE  PastOK(r)'
<1>1. \A d \in EtpDates : DayDone(r, d) => DayDone(r, d)'
  BY DayDoneStays
<1>2. \A d \in EtpDates : d < etpRun[r].day => DayDone(r, d)
  BY DEF PastOK
<1>3. etpRun'[r].phase # "done"
  BY DEF Early, Late
<1>4. QED
  BY <1>1, <1>2, <1>3 DEF PastOK

\* The steps up to the last answer of a day.
LEMMA EarlyStep ==
    ASSUME CatalogTypeOK, Grows, NEW r \in EtpRuns, RunTraced(r),
           \/ /\ etpRun[r].phase \in {"off", "gates", "fetch"}
              /\ etpRun'[r].phase \in {"gates", "fetch"}
              /\ Same(etpRun[r], etpRun'[r])
           \/ /\ etpRun[r].phase = "fetch" /\ etpRun'[r].phase = "store"
              /\ etpRun'[r].day = etpRun[r].day /\ etpRun'[r].kind = etpRun[r].kind
              /\ etpRun'[r].ids = etpRun[r].ids
              /\ etpRun'[r].answers =
                    Append(etpRun[r].answers, etpKrx[Kinds[etpRun[r].kind]][etpRun[r].day])
    PROVE  RunTraced(r)'
<1> DEFINE x == etpRun[r]
           y == etpRun'[r]
<1>1. /\ x.day \in EtpDates /\ x.kind \in {1, 2}
      /\ x.answers \in Seq(AllAnswers) /\ x.ids \in Seq(EtpRuns)
      /\ Len(x.answers) = x.kind - 1 /\ Len(x.ids) = x.kind - 1
  BY DEF RunTraced, LocalOK, Early
<1>2. x.phase \in Early /\ y.phase \in (Early \cup {"store"}) \ Late /\ y.day = x.day /\ y.ids = x.ids
  BY DEF Early, Late, Same
<1>3. etpKrx[Kinds[x.kind]][x.day] \in AllAnswers
  BY <1>1, KindSet DEF CatalogTypeOK
<1>4. LocalOK(y)
  <2>1. CASE y.phase = "store"
    <3> DEFINE a == etpKrx[Kinds[x.kind]][x.day]
    <3>1. y.answers = Append(x.answers, a) /\ y.kind = x.kind
      BY <2>1
    <3> HIDE DEF a, x, y
    <3>2. y.answers \in Seq(AllAnswers) /\ Len(y.answers) = Len(x.answers) + 1
      BY <1>1, <1>3, <3>1 DEF a
    <3>3. QED
      BY <1>1, <1>2, <2>1, <3>1, <3>2 DEF LocalOK, Early, Late
  <2>2. CASE y.phase # "store"
    <3>1. y.kind = x.kind /\ y.answers = x.answers /\ y.phase \in Early
      BY <2>2 DEF Same, Early
    <3> HIDE DEF x, y
    <3>2. QED
      BY <1>1, <1>2, <2>2, <3>1 DEF LocalOK, Early, Late
  <2>3. QED
    BY <2>1, <2>2
<1>5. \A k \in 1..Len(x.ids) : y.answers[k] = x.answers[k]
  <2>1. CASE y.answers = x.answers
    BY <2>1
  <2>2. CASE y.answers = Append(x.answers, etpKrx[Kinds[x.kind]][x.day])
    BY <1>1, <1>3, <2>2
  <2>3. QED
    BY <2>1, <2>2 DEF Same
<1>6. StoredOK(x)'
  <2> SUFFICES ASSUME NEW k \in 1..Len(x.ids)
               PROVE  /\ etpRaw'[<<Kinds[k], x.day>>] # Unset
                      /\ etpRaw'[<<Kinds[k], x.day>>].rows = x.answers[k]
                      /\ etpRaw'[<<Kinds[k], x.day>>].by = x.ids[k]
    BY <1>2, <1>5 DEF StoredOK
  <2>1. k \in {1, 2}
    BY <1>1
  <2>2. <<Kinds[k], x.day>> \in ToSet(Kinds) \X EtpDates
    BY <1>1, <2>1, KindSet
  <2>3. /\ etpRaw[<<Kinds[k], x.day>>] # Unset
        /\ etpRaw[<<Kinds[k], x.day>>].rows = x.answers[k]
        /\ etpRaw[<<Kinds[k], x.day>>].by = x.ids[k]
    BY <1>2 DEF RunTraced, StoredOK
  <2>4. QED
    BY <2>2, <2>3 DEF Grows
<1>7. WorkOK(r)'
  BY <1>2 DEF WorkOK, Late
<1>8. PastOK(r)'
  BY <1>2, PastStays DEF RunTraced
<1>9. QED
  BY <1>4, <1>6, <1>7, <1>8 DEF RunTraced

\* The record of the answer is stored, or was by another run.
LEMMA StoreStep ==
    ASSUME CatalogTypeOK, Grows, NEW r \in EtpRuns, RunTraced(r), StoreEtp(r), ~RawConflicts(r),
           etpRun[r].phase = "store",
           etpRun'[r].ids = Append(etpRun[r].ids, StoredBy(r)), etpRun'[r].day = etpRun[r].day,
           etpRun'[r].answers = etpRun[r].answers, etpRun'[r].kind = 2,
           \/ etpRun[r].kind = 1 /\ etpRun'[r].phase = "fetch"
           \/ /\ etpRun[r].kind # 1 /\ etpRun'[r].phase = "save"
              /\ etpRun'[r].left = Observed(etpRun[r].answers)
    PROVE  RunTraced(r)'
<1> DEFINE x == etpRun[r]
           y == etpRun'[r]
           n == x.kind
<1>1. /\ x.day \in EtpDates /\ n \in {1, 2}
      /\ x.answers \in Seq(AllAnswers) /\ x.ids \in Seq(EtpRuns)
      /\ Len(x.answers) = n /\ Len(x.ids) = n - 1
  BY DEF RunTraced, LocalOK
<1>2. /\ etpRaw'[Slot(r)] # Unset /\ etpRaw'[Slot(r)].rows = x.answers[n]
      /\ etpRaw'[Slot(r)].by = StoredBy(r) /\ StoredBy(r) \in EtpRuns
  BY StoreWrites DEF RunTraced
<1>3. Slot(r) = <<Kinds[n], x.day>>
  BY DEF Slot
<1>4. y.ids \in Seq(EtpRuns) /\ Len(y.ids) = n
      /\ y.ids[n] = StoredBy(r) /\ \A k \in 1..(n - 1) : y.ids[k] = x.ids[k]
  <2> HIDE DEF n
  <2>1. y.ids = Append(x.ids, StoredBy(r)) /\ n \in Int
    BY <1>1
  <2> HIDE DEF x, y
  <2>2. QED
    BY <1>1, <1>2, <2>1
<1>5. y.phase \in {"fetch", "save"} /\ (y.phase = "fetch" <=> n = 1)
  BY <1>1
<1>6. LocalOK(y)
  <2>1. y.day = x.day /\ y.answers = x.answers /\ y.kind = 2
    OBVIOUS
  <2> HIDE DEF x, y, n
  <2>2. CASE n = 1
    BY <1>1, <1>4, <1>5, <2>1, <2>2 DEF LocalOK, Early, Late
  <2>3. CASE n = 2
    BY <1>1, <1>4, <1>5, <2>1, <2>3 DEF LocalOK, Early, Late
  <2>4. QED
    BY <1>1, <2>2, <2>3
<1>7. StoredOK(x)'
  <2> SUFFICES ASSUME NEW k \in 1..n
               PROVE  /\ etpRaw'[<<Kinds[k], x.day>>] # Unset
                      /\ etpRaw'[<<Kinds[k], x.day>>].rows = x.answers[k]
                      /\ etpRaw'[<<Kinds[k], x.day>>].by = y.ids[k]
    BY <1>4 DEF StoredOK
  <2>1. CASE k = n
    BY <1>2, <1>3, <1>4, <2>1
  <2>2. CASE k # n
    <3>1. k = 1 /\ k \in 1..(n - 1) /\ k \in 1..Len(x.ids)
      <4> HIDE DEF n
      <4>1. QED
        BY <1>1, <2>2
    <3>2. <<Kinds[k], x.day>> \in ToSet(Kinds) \X EtpDates
      BY <1>1, <3>1, KindSet
    <3>3. /\ etpRaw[<<Kinds[k], x.day>>] # Unset
          /\ etpRaw[<<Kinds[k], x.day>>].rows = x.answers[k]
          /\ etpRaw[<<Kinds[k], x.day>>].by = x.ids[k]
      BY <3>1 DEF RunTraced, StoredOK
    <3>4. QED
      BY <1>4, <3>1, <3>2, <3>3 DEF Grows
  <2>3. QED
    BY <2>1, <2>2
<1>8. WorkOK(r)'
  BY <1>5 DEF WorkOK, Late
<1>9. PastOK(r)'
  BY <1>5, PastStays DEF RunTraced, Early, Late
<1>10. QED
  BY <1>6, <1>7, <1>8, <1>9 DEF RunTraced

\* What a run holds of a day does not change while it works on its products.
LEMMA LateStays ==
    ASSUME CatalogTypeOK, Grows, NEW r \in EtpRuns, RunTraced(r), etpRun[r].phase \in Late,
           etpRun'[r].phase \in Late, Same(etpRun[r], etpRun'[r])
    PROVE  LocalOK(etpRun[r])' /\ StoredOK(etpRun[r])' /\ PastOK(r)'
<1> DEFINE x == etpRun[r]
           y == etpRun'[r]
<1>1. /\ x.day \in EtpDates /\ Len(x.ids) = 2
      /\ y.day = x.day /\ y.kind = x.kind /\ y.answers = x.answers /\ y.ids = x.ids
  BY Holds DEF RunTraced, Same
<1>2. LocalOK(x)'
  BY <1>1 DEF RunTraced, LocalOK, Early, Late
<1>3. StoredOK(x)'
  <2> SUFFICES ASSUME NEW k \in 1..2
               PROVE  /\ etpRaw'[<<Kinds[k], x.day>>] # Unset
                      /\ etpRaw'[<<Kinds[k], x.day>>].rows = x.answers[k]
                      /\ etpRaw'[<<Kinds[k], x.day>>].by = x.ids[k]
    BY <1>1 DEF StoredOK
  <2>1. <<Kinds[k], x.day>> \in ToSet(Kinds) \X EtpDates
    BY <1>1, KindSet
  <2>2. QED
    BY <1>1, <2>1 DEF RunTraced, StoredOK, Grows
<1>4. PastOK(r)'
  BY <1>1, PastStays DEF RunTraced
<1>5. QED
  BY <1>2, <1>3, <1>4

\* A product is saved, then linked.
LEMMA SaveStep ==
    ASSUME RunInv, CatalogTypeOK, Grows, NEW r \in EtpRuns, RunTraced(r), SaveEtp(r),
           etpRun[r].phase = "save", etpRun[r].left # {}, etpRun'[r].phase = "link",
           Same(etpRun[r], etpRun'[r]), etpRun'[r].left = etpRun[r].left
    PROVE  RunTraced(r)'
<1> DEFINE x == etpRun[r]
           y == etpRun'[r]
           q == First(x.left)
           child == <<q.row.symbol, x.day>>
<1>1. /\ x.left \subseteq Observed(x.answers)
      /\ \A p \in Observed(x.answers) \ x.left : Linked(r, x.day, p)
  BY DEF RunTraced, WorkOK, Late
<1>2. /\ x.phase \in Late /\ x.day \in EtpDates
      /\ x.answers[1] \in AllAnswers /\ x.answers[2] \in AllAnswers
  BY Holds DEF RunTraced, Late
<1>3. \A p \in Observed(x.answers) : p.row.symbol \in EtpSymbols
  BY <1>2, ObservedRows
<1>4. q \in x.left
  BY <1>1, <1>2, FirstIsThere
<1>5. etpSnapshots'[child] = EtpSnapshot(r, q)
  <2>1. \/ etpSnapshots' = [etpSnapshots EXCEPT ![child] = EtpSnapshot(r, q)]
        \/ EtpGoto(r, "conflict")
    BY DEF SaveEtp
  <2>2. ~EtpGoto(r, "conflict")
    <3>1. EtpGoto(r, "conflict") => y.phase = "conflict"
      BY GoesSame
    <3>2. QED
      BY <3>1
  <2>3. child \in EtpSymbols \X EtpDates
    BY <1>1, <1>2, <1>3, <1>4
  <2>4. QED
    BY <2>1, <2>2, <2>3 DEF CatalogTypeOK
<1>d. PICK d \in EtpDates : d = x.day
  BY <1>2
<1>6. \A p \in Observed(x.answers) \ x.left : Linked(r, d, p)'
  BY <1>1, <1>3, <1>d, LinkedStays
<1>7. /\ y.day = x.day /\ y.answers = x.answers /\ y.ids = x.ids /\ y.left = x.left
      /\ \A p : EtpSnapshot(r, p)' = EtpSnapshot(r, p)
  BY DEF Same, EtpSnapshot, RawId
<1>8. WorkOK(r)'
  BY <1>1, <1>5, <1>6, <1>7, <1>d DEF WorkOK
<1>9. QED
  BY <1>2, <1>8, LateStays DEF RunTraced, Late

LEMMA LinkStep ==
    ASSUME CatalogTypeOK, Grows, NEW r \in EtpRuns, RunTraced(r), LinkEtp(r),
           etpRun[r].phase = "link", etpRun'[r].phase = "save", Same(etpRun[r], etpRun'[r]),
           etpRun'[r].left = etpRun[r].left \ {First(etpRun[r].left)}
    PROVE  RunTraced(r)'
<1> DEFINE x == etpRun[r]
           y == etpRun'[r]
           q == First(x.left)
           child == <<q.row.symbol, x.day>>
<1>1. /\ x.left \subseteq Observed(x.answers) /\ x.left # {}
      /\ \A p \in Observed(x.answers) \ x.left : Linked(r, x.day, p)
      /\ etpSnapshots[child] = EtpSnapshot(r, q)
  BY DEF RunTraced, WorkOK, Late
<1>2. /\ x.phase \in Late /\ x.day \in EtpDates
      /\ x.answers[1] \in AllAnswers /\ x.answers[2] \in AllAnswers
  BY Holds DEF RunTraced, Late
<1>3. \A p \in Observed(x.answers) : p.row.symbol \in EtpSymbols
  BY <1>2, ObservedRows
<1>4. q \in Observed(x.answers)
  BY <1>1, <1>2, FirstIsThere
<1>e. PICK p \in Observed(x.answers) : p = q
  BY <1>4
<1>f. PICK d \in EtpDates : d = x.day
  BY <1>2
<1>5. Linked(r, d, p)'
  <2>1. EtpSnapshot(r, q) # Unset /\ EtpSnapshot(r, q).raw = RawId(r, q)
    BY <1>2, <1>4, ProductOfRun DEF RunTraced
  <2>2. /\ etpSnapshots' = etpSnapshots
        /\ [run |-> r, raw |-> RawId(r, q), child |-> child] \in etpEdges'
    BY DEF LinkEtp, EtpEdge
  <2>3. QED
    BY <1>1, <1>e, <1>f, <2>1, <2>2 DEF Linked
<1>6. \A o \in Observed(x.answers) \ x.left : Linked(r, d, o)'
  BY <1>1, <1>3, <1>f, LinkedStays
<1>7. \A o \in Observed(x.answers) \ y.left : Linked(r, d, o)'
  BY <1>5, <1>6, <1>e
<1>8. y.day = x.day /\ y.answers = x.answers
  BY DEF Same
<1>9. WorkOK(r)'
  BY <1>1, <1>7, <1>8, <1>f DEF WorkOK
<1>10. QED
  BY <1>2, <1>9, LateStays DEF RunTraced, Late

\* A day without products left is done.
LEMMA DayStep ==
    ASSUME CatalogTypeOK, Grows, NEW r \in EtpRuns, RunTraced(r),
           etpRun[r].phase = "save", etpRun[r].left = {},
           \/ etpRun'[r].phase = "done" /\ etpRun[r].day = EtpDays
           \/ /\ etpRun'[r].phase = "fetch" /\ etpRun[r].day # EtpDays
              /\ etpRun'[r].day = etpRun[r].day + 1 /\ etpRun'[r].kind = 1
              /\ etpRun'[r].answers = <<>> /\ etpRun'[r].ids = <<>>
    PROVE  RunTraced(r)'
<1> DEFINE x == etpRun[r]
           y == etpRun'[r]
           rows == [k \in {1, 2} |-> etpRaw[<<Kinds[k], x.day>>].rows]
<1>1. /\ x.day \in EtpDates /\ Len(x.ids) = 2 /\ x.phase \in Late
  BY Holds DEF RunTraced, Late
<1>2. DayDone(r, x.day)
  <2>1. \A k \in {1, 2} : /\ etpRaw[<<Kinds[k], x.day>>] # Unset
                          /\ etpRaw[<<Kinds[k], x.day>>].rows = x.answers[k]
    BY <1>1 DEF RunTraced, StoredOK
  <2>2. rows[1] = x.answers[1] /\ rows[2] = x.answers[2]
    BY <2>1
  <2>3. Observed(rows) = Observed(x.answers)
    <3> HIDE DEF rows, x
    <3>1. QED
      BY <2>2, ObservedSame
  <2>4. \A p \in Observed(x.answers) : Linked(r, x.day, p)
    BY <1>1 DEF RunTraced, WorkOK
  <2>5. QED
    BY <2>1, <2>3, <2>4 DEF DayDone
<1>3. EtpDays \in Nat /\ x.day \in Nat /\ x.day <= EtpDays
  BY <1>1, EtpAssumption DEF EtpDates
<1>4. \A d \in EtpDates : d <= x.day => DayDone(r, d)
  <2>1. \A d \in EtpDates : d < x.day => DayDone(r, d)
    BY <1>1 DEF RunTraced, PastOK
  <2>2. \A d \in EtpDates : d <= x.day => d < x.day \/ d = x.day
    BY <1>3 DEF EtpDates
  <2>3. QED
    BY <1>2, <2>1, <2>2
<1>5. \A d \in EtpDates : d <= x.day => DayDone(r, d)'
  BY <1>4, DayDoneStays
<1>6. CASE y.phase = "done"
  <2>1. \A d \in EtpDates : d <= x.day
    BY <1>3, <1>6 DEF EtpDates
  <2>2. PastOK(r)'
    BY <1>5, <1>6, <2>1 DEF PastOK
  <2>3. LocalOK(x)' /\ StoredOK(x)' /\ WorkOK(r)'
    BY <1>6 DEF LocalOK, StoredOK, WorkOK, Early, Late
  <2>4. QED
    BY <2>2, <2>3 DEF RunTraced
<1>7. CASE y.phase = "fetch"
  <2>1. /\ x.day # EtpDays /\ y.day = x.day + 1 /\ y.kind = 1
        /\ y.answers = <<>> /\ y.ids = <<>>
    BY <1>7
  <2>2. y.day \in EtpDates
    <3> HIDE DEF x, y
    <3>1. QED
      BY <1>3, <2>1 DEF EtpDates
  <2>3. LocalOK(x)'
    BY <1>7, <2>1, <2>2 DEF LocalOK, Early, Late
  <2>4. StoredOK(x)' /\ WorkOK(r)'
    BY <1>7, <2>1 DEF StoredOK, WorkOK, Late
  <2>5. \A d \in EtpDates : d < y.day => d <= x.day
    <3> HIDE DEF x, y
    <3>1. QED
      BY <1>3, <2>1 DEF EtpDates
  <2>6. PastOK(r)'
    BY <1>5, <1>7, <2>5 DEF PastOK
  <2>7. QED
    BY <2>3, <2>4, <2>6 DEF RunTraced
<1>8. QED
  BY <1>6, <1>7

LEMMA EtpTraceStep ==
    ASSUME EtpGateInv, EtpTraceInv,
           [EtpNext \/ (GateNext /\ UNCHANGED etpVars)]_<<gateVars, etpVars>>
    PROVE  EtpTraceInv'
<1>1. CASE UNCHANGED etpVars
  <2>1. UNCHANGED <<etpKrx, etpRaw, etpSnapshots, etpEdges, etpRun>>
    BY <1>1 DEF etpVars, etpCatalogs
  <2>2. CatalogTypeOK' /\ SnapshotsOK' /\ Grows
    BY <2>1 DEF EtpTraceInv, CatalogTypeOK, SnapshotsOK, SnapshotOf, Grows
  <2>3. QED
    BY <2>1, <2>2, RunTracedStays DEF EtpTraceInv
<1>2. CASE ReviseEtp
  <2>1. UNCHANGED <<etpRaw, etpSnapshots, etpEdges, etpRun>>
    BY <1>2 DEF ReviseEtp, etpCatalogs
  <2>2. etpKrx' \in [ToSet(Kinds) -> [EtpDates -> AllAnswers]]
    <3>1. PICK k \in ToSet(Kinds), d \in EtpDates :
            \E rows \in EtpAnswers[k] \ {etpKrx[k][d]} : etpKrx' = [etpKrx EXCEPT ![k][d] = rows]
      BY <1>2 DEF ReviseEtp
    <3>2. PICK rows \in EtpAnswers[k] : etpKrx' = [etpKrx EXCEPT ![k][d] = rows]
      BY <3>1
    <3>3. rows \in AllAnswers
      BY <3>2 DEF AllAnswers
    <3>4. QED
      BY <3>2, <3>3 DEF EtpTraceInv, CatalogTypeOK
  <2>3. CatalogTypeOK' /\ SnapshotsOK' /\ Grows
    BY <2>1, <2>2 DEF EtpTraceInv, CatalogTypeOK, SnapshotsOK, SnapshotOf, Grows
  <2>4. QED
    BY <2>1, <2>3, RunTracedStays DEF EtpTraceInv
<1>3. ASSUME NEW p \in EtpRuns,
             \/ StartEtp(p) \/ CheckGates(p) \/ FetchEtp(p) \/ StoreEtp(p)
             \/ SaveEtp(p) \/ LinkEtp(p) \/ NextEtpDay(p) \/ CrashEtp(p)
      PROVE  EtpTraceInv'
  <2>1. RunInv /\ CatalogTypeOK /\ SnapshotsOK /\ RunTraced(p)
    BY DEF EtpGateInv, EtpTraceInv
  <2>2. CatalogTypeOK' /\ SnapshotsOK' /\ Grows
    BY <1>3, <2>1, CatalogStep
  <2>3. RunStep(p) /\ MovesTo(p, etpRun'[p])
    BY <1>3, <2>1, RunSteps, RunMoves DEF RunTraced
  <2>4. \A r \in EtpRuns \ {p} : RunTraced(r)'
    BY <2>1, <2>2, <2>3, RunTracedStays DEF EtpTraceInv, RunStep
  <2>5. RunTraced(p)'
    <3>1. CASE etpRun'[p].phase \in {"blocked", "failed", "conflict"}
      BY <3>1 DEF RunTraced, LocalOK, StoredOK, WorkOK, PastOK, Early, Late
    <3>2. CASE etpRun'[p].phase \notin {"blocked", "failed", "conflict"}
      BY <2>1, <2>2, <2>3, <3>2, EarlyStep, StoreStep, SaveStep, LinkStep, DayStep DEF MovesTo
    <3>3. QED
      BY <3>1, <3>2
  <2>6. QED
    BY <2>2, <2>4, <2>5 DEF EtpTraceInv
<1>4. QED
  BY <1>1, <1>2, <1>3 DEF EtpNext

LEMMA EtpTraceInit == EtpInit => EtpTraceInv
<1> SUFFICES ASSUME EtpInit PROVE EtpTraceInv
  OBVIOUS
<1>1. CatalogTypeOK /\ SnapshotsOK
  <2>1. etpKrx \in [ToSet(Kinds) -> [EtpDates -> AllAnswers]]
    BY DEF EtpInit
  <2>2. QED
    BY <2>1 DEF EtpInit, CatalogTypeOK, SnapshotsOK
<1>2. ASSUME NEW r \in EtpRuns PROVE RunTraced(r)
  <2>1. etpRun[r] = IdleRun
    BY DEF EtpInit
  <2>2. /\ IdleRun.phase = "off" /\ IdleRun.day = 1 /\ IdleRun.kind = 1
        /\ IdleRun.answers = <<>> /\ IdleRun.ids = <<>>
    BY DEF IdleRun
  <2>3. 1 \in EtpDates /\ \A d \in EtpDates : ~(d < 1)
    BY EtpAssumption DEF EtpDates
  <2> HIDE DEF IdleRun
  <2>4. LocalOK(IdleRun) /\ StoredOK(IdleRun)
    BY <2>2, <2>3 DEF LocalOK, StoredOK, Early, Late
  <2>5. WorkOK(r) /\ PastOK(r)
    BY <2>1, <2>2, <2>3 DEF WorkOK, PastOK, Late
  <2>6. QED
    BY <2>1, <2>4, <2>5 DEF RunTraced
<1>3. QED
  BY <1>1, <1>2 DEF EtpTraceInv

LEMMA EtpTraceInvTraces == EtpTraceInv => EtpSnapshotsTraced
<1> SUFFICES ASSUME EtpTraceInv PROVE EtpSnapshotsTraced
  OBVIOUS
<1>1. \A child \in EtpSymbols \X EtpDates :
        etpSnapshots[child] # Unset => SnapshotOf(etpSnapshots[child], child[2])
  BY DEF EtpTraceInv, SnapshotsOK
<1>2. \A r \in EtpRuns, d \in EtpDates : etpRun[r].phase = "done" => DayDone(r, d)
  BY DEF EtpTraceInv, RunTraced, PastOK
<1>3. ASSUME NEW r \in EtpRuns, NEW d \in EtpDates, etpRun[r].phase = "done"
      PROVE  LET raws == [k \in {1, 2} |-> etpRaw[<<Kinds[k], d>>]]
             IN  \A p \in Observed([k \in {1, 2} |-> raws[k].rows]) :
                    LET child == <<p.row.symbol, d>>
                    IN  /\ etpSnapshots[child] # Unset
                        /\ [run |-> r, raw |-> etpSnapshots[child].raw, child |-> child]
                               \in etpEdges
  <2> DEFINE raws == [k \in {1, 2} |-> etpRaw[<<Kinds[k], d>>]]
  <2>1. [k \in {1, 2} |-> raws[k].rows] = [k \in {1, 2} |-> etpRaw[<<Kinds[k], d>>].rows]
    OBVIOUS
  <2>2. \A p \in Observed([k \in {1, 2} |-> raws[k].rows]) : Linked(r, d, p)
    BY <1>2, <1>3, <2>1 DEF DayDone
  <2>3. QED
    BY <2>2 DEF Linked
<1>4. QED
  BY <1>1, <1>3 DEF EtpSnapshotsTraced, SnapshotOf

\* Every snapshot names the raw record that holds its row, and a run that ends well
\* has saved and linked every product that the raw records of its days show:
\* whichever runs stored them, died in between or were asked for something else.
THEOREM EtpSnapshotsTracedTheorem == EtpSpec => []EtpSnapshotsTraced
<1>1. EtpGateInv /\ [EtpNext \/ (GateNext /\ UNCHANGED etpVars)]_<<gateVars, etpVars>> => EtpGateInv'
  BY EtpGateInvStep
<1>2. EtpGateInv /\ EtpTraceInv /\ [EtpNext \/ (GateNext /\ UNCHANGED etpVars)]_<<gateVars, etpVars>>
      => EtpTraceInv'
  BY EtpTraceStep
<1>3. QED
  BY EtpGateInvInit, EtpTraceInit, <1>1, <1>2, EtpTraceInvTraces, PTL DEF EtpSpec

-----------------------------------------------------------------------------
(***************************************************************************)
(* The files of the flow study: a lineage file vouches for its two         *)
(* companions.  A file that is complete stays so (FilesStay), and a        *)
(* process that has come to a layer leaves those before it complete        *)
(* (Progress).                                                             *)
(***************************************************************************)

Phases == {"off", "reread", "create", "write", "done", "failed", "conflict"}

LoaderState ==
    [phase : Phases, dataset : FlowDatasets \cup {NoFile}, csv : FlowCsvs \cup {NoFile},
     bytes : FlowCsvs \cup {NoFile}, layer : 1..3]

Paths == LayerSet \X FlowDatasets \X FlowCsvs

FlowTypeOK ==
    /\ csvFile \in [FlowDatasets -> FlowCsvs \cup {NoFile}]
    /\ artifacts = [x \in Paths |-> artifacts[x]]
    /\ loader \in [Loaders -> LoaderState]

\* The csv a process works on is one of the datasets', and the bytes it writes
\* are those it has parsed.
Loaded ==
    \A p \in Loaders :
        /\ loader[p].phase \in {"reread", "create", "write", "done"} =>
                loader[p].dataset \in FlowDatasets /\ loader[p].csv \in FlowCsvs
        /\ loader[p].phase \in {"create", "write", "done"} => loader[p].bytes = loader[p].csv

Complete(layer, ds, csv) == artifacts[<<layer, ds, csv>>] = ContentOf(layer, csv, ds, csv)

Progress ==
    \A p \in Loaders :
        /\ loader[p].phase = "reread" => loader[p].layer = 1
        /\ loader[p].phase \in {"create", "write"} =>
            \A i \in 1..3 : i < loader[p].layer =>
                Complete(Layers[i], loader[p].dataset, loader[p].csv)

\* The lineage file of a csv is complete only after the other two.
LineageLast ==
    \A ds \in FlowDatasets, csv \in FlowCsvs :
        artifacts[<<"lineage", ds, csv>>] \notin {NoFile, Half} =>
            Complete("raw", ds, csv) /\ Complete("normalized", ds, csv)

FlowInv == FlowTypeOK /\ Loaded /\ Progress /\ LineageLast

-----------------------------------------------------------------------------

LEMMA LayersAre ==
    /\ DOMAIN Layers = 1..3 /\ LayerSet = {"raw", "normalized", "lineage"}
    /\ Layers[1] = "raw" /\ Layers[2] = "normalized" /\ Layers[3] = "lineage"
    /\ Len(Layers) = 3
<1>1. DOMAIN Layers = 1..3 /\ Layers[1] = "raw" /\ Layers[2] = "normalized"
        /\ Layers[3] = "lineage" /\ Len(Layers) = 3
  BY DEF Layers
<1>2. 1..3 = {1, 2, 3}
  OBVIOUS
<1>3. LayerSet = {"raw", "normalized", "lineage"}
  BY <1>1, <1>2 DEF LayerSet
<1>4. QED
  BY <1>1, <1>3

LEMMA FlowInitTyped == FlowFileInit => FlowTypeOK
<1> SUFFICES ASSUME FlowFileInit PROVE FlowTypeOK
  OBVIOUS
<1>1. IdleLoader \in LoaderState
  BY DEF IdleLoader, LoaderState, Phases
<1>2. QED
  BY <1>1 DEF FlowFileInit, FlowTypeOK, Paths

\* The path a process is at, and what it writes there.
LEMMA PathIs ==
    ASSUME FlowTypeOK, Loaded, NEW p \in Loaders, loader[p].phase \in {"create", "write"}
    PROVE  /\ Path(p) \in Paths /\ loader[p].layer \in 1..3
           /\ Path(p) = <<Layers[loader[p].layer], loader[p].dataset, loader[p].csv>>
           /\ Layers[loader[p].layer] \in LayerSet
           /\ loader[p].dataset \in FlowDatasets /\ loader[p].csv \in FlowCsvs
           /\ Content(p) = ContentOf(Layers[loader[p].layer], loader[p].csv,
                                     loader[p].dataset, loader[p].csv)
           /\ Content(p) \notin {NoFile, Half}
<1>1. loader[p].layer \in 1..3
  BY DEF FlowTypeOK, LoaderState
<1>2. Layers[loader[p].layer] \in LayerSet
  BY <1>1, LayersAre DEF LayerSet
<1>3. loader[p].dataset \in FlowDatasets /\ loader[p].csv \in FlowCsvs
        /\ loader[p].bytes = loader[p].csv
  BY DEF Loaded
<1>4. Content(p) = ContentOf(Layers[loader[p].layer], loader[p].csv,
                             loader[p].dataset, loader[p].csv)
  BY <1>3 DEF Content
<1>5. QED
  BY <1>1, <1>2, <1>3, <1>4, ContentAssumption DEF Path, Paths

LEMMA FlowTypeStep == FlowTypeOK /\ Loaded /\ [FlowFileNext]_flowFileVars => FlowTypeOK'
<1> SUFFICES ASSUME FlowTypeOK, Loaded, [FlowFileNext]_flowFileVars PROVE FlowTypeOK'
  OBVIOUS
<1>1. ASSUME NEW ds \in FlowDatasets, ReplaceCsv(ds) PROVE FlowTypeOK'
  BY <1>1 DEF FlowTypeOK, ReplaceCsv
<1>2. ASSUME NEW p \in Loaders, NEW ds \in FlowDatasets, LoadCsv(p, ds) PROVE FlowTypeOK'
  <2>1. PICK phase \in {"reread", "failed"} :
            loader' = [loader EXCEPT ![p] =
                [IdleLoader EXCEPT !.phase = phase, !.dataset = ds, !.csv = csvFile[ds]]]
    <3>1. CASE CsvParses(csvFile[ds], ds)
      BY <1>2, <3>1 DEF LoadCsv
    <3>2. CASE ~CsvParses(csvFile[ds], ds)
      BY <1>2, <3>2 DEF LoadCsv
    <3>3. QED
      BY <3>1, <3>2
  <2>2. IdleLoader \in LoaderState /\ csvFile[ds] \in FlowCsvs \cup {NoFile} /\ phase \in Phases
    BY DEF IdleLoader, LoaderState, Phases, FlowTypeOK
  <2>3. [IdleLoader EXCEPT !.phase = phase, !.dataset = ds, !.csv = csvFile[ds]] \in LoaderState
    BY <2>2 DEF LoaderState
  <2>4. loader' \in [Loaders -> LoaderState]
    BY <2>1, <2>3 DEF FlowTypeOK
  <2>5. QED
    BY <1>2, <2>4 DEF LoadCsv, FlowTypeOK
<1>3. ASSUME NEW p \in Loaders, Reread(p) PROVE FlowTypeOK'
  <2>1. loader[p] \in LoaderState /\ csvFile[loader[p].dataset] \in FlowCsvs \cup {NoFile}
    BY <1>3 DEF Reread, FlowTypeOK, Loaded
  <2>2. [loader[p] EXCEPT !.phase = "create", !.bytes = csvFile[loader[p].dataset]] \in LoaderState
        /\ [loader[p] EXCEPT !.phase = "failed"] \in LoaderState
    BY <2>1 DEF LoaderState, Phases
  <2>3. loader' \in [Loaders -> LoaderState]
    BY <1>3, <2>2 DEF Reread, FlowTypeOK
  <2>4. QED
    BY <1>3, <2>3 DEF Reread, FlowTypeOK
<1>4. ASSUME NEW p \in Loaders, Onwards(p) PROVE loader' \in [Loaders -> LoaderState]
  <2>1. loader[p] \in LoaderState
    BY DEF FlowTypeOK
  <2> DEFINE next == [loader[p] EXCEPT !.layer = loader[p].layer + 1, !.phase = "create"]
  <2>2. ASSUME loader[p].layer < 3 PROVE next \in LoaderState
    <3>1. loader[p].layer + 1 \in 1..3
      BY <2>1, <2>2 DEF LoaderState
    <3>2. QED
      BY <2>1, <3>1 DEF LoaderState, Phases
  <2>3. [loader[p] EXCEPT !.phase = "done"] \in LoaderState
    BY <2>1 DEF LoaderState, Phases
  <2>4. CASE loader[p].layer < 3
    <3>1. loader' = [loader EXCEPT ![p] = next]
      BY <1>4, <2>4, LayersAre DEF Onwards
    <3> HIDE DEF next
    <3>2. QED
      BY <2>2, <2>4, <3>1 DEF FlowTypeOK
  <2>5. CASE ~(loader[p].layer < 3)
    <3>1. loader' = [loader EXCEPT ![p] = [loader[p] EXCEPT !.phase = "done"]]
      BY <1>4, <2>5, LayersAre DEF Onwards
    <3>2. QED
      BY <2>3, <3>1 DEF FlowTypeOK
  <2>6. QED
    BY <2>4, <2>5
<1>5. ASSUME NEW p \in Loaders, CreateOrCompare(p) PROVE FlowTypeOK'
  <2>1. loader[p] \in LoaderState
    BY DEF FlowTypeOK
  <2>2. [loader[p] EXCEPT !.phase = "write"] \in LoaderState
        /\ [loader[p] EXCEPT !.phase = "conflict"] \in LoaderState
    BY <2>1 DEF LoaderState, Phases
  <2>3. loader' \in [Loaders -> LoaderState]
    BY <1>4, <1>5, <2>2 DEF CreateOrCompare, FlowTypeOK
  <2>4. artifacts' = [x \in Paths |-> artifacts'[x]]
    BY <1>5 DEF CreateOrCompare, FlowTypeOK
  <2>5. QED
    BY <1>5, <2>3, <2>4 DEF CreateOrCompare, FlowTypeOK
<1>6. ASSUME NEW p \in Loaders, WriteContent(p) PROVE FlowTypeOK'
  <2>1. loader' \in [Loaders -> LoaderState]
    BY <1>4, <1>6 DEF WriteContent
  <2>2. artifacts' = [x \in Paths |-> artifacts'[x]]
    BY <1>6 DEF WriteContent, FlowTypeOK
  <2>3. QED
    BY <1>6, <2>1, <2>2 DEF WriteContent, FlowTypeOK
<1>7. ASSUME NEW p \in Loaders, RestartLoader(p) PROVE FlowTypeOK'
  <2>1. IdleLoader \in LoaderState
    BY DEF IdleLoader, LoaderState, Phases
  <2>2. QED
    BY <1>7, <2>1 DEF RestartLoader, FlowTypeOK
<1>8. CASE UNCHANGED flowFileVars
  BY <1>8 DEF flowFileVars, FlowTypeOK
<1>9. QED
  BY <1>1, <1>2, <1>3, <1>5, <1>6, <1>7, <1>8 DEF FlowFileNext

LEMMA LoadedStep == FlowTypeOK /\ Loaded /\ [FlowFileNext]_flowFileVars => Loaded'
<1> SUFFICES ASSUME FlowTypeOK, Loaded, [FlowFileNext]_flowFileVars, NEW q \in Loaders
             PROVE  /\ loader'[q].phase \in {"reread", "create", "write", "done"} =>
                        loader'[q].dataset \in FlowDatasets /\ loader'[q].csv \in FlowCsvs
                    /\ loader'[q].phase \in {"create", "write", "done"} =>
                        loader'[q].bytes = loader'[q].csv
  BY DEF Loaded
<1>0. loader[q] \in LoaderState /\ DOMAIN loader = Loaders
  BY DEF FlowTypeOK
<1>1. CASE loader'[q] = loader[q]
  BY <1>1 DEF Loaded
<1>2. ASSUME NEW ds \in FlowDatasets, LoadCsv(q, ds)
      PROVE  /\ loader'[q].phase \in {"reread", "failed"}
             /\ loader'[q].dataset \in FlowDatasets /\ loader'[q].csv \in FlowCsvs
  BY <1>2, <1>0 DEF LoadCsv, IdleLoader, FlowTypeOK
<1>3. CASE Reread(q)
  <2>1. CASE UnchangedSince(q)
    <3>1. loader'[q] = [loader[q] EXCEPT !.phase = "create", !.bytes = csvFile[loader[q].dataset]]
      BY <1>0, <1>3, <2>1 DEF Reread
    <3>2. loader'[q].bytes = loader[q].csv /\ loader'[q].csv = loader[q].csv
            /\ loader'[q].dataset = loader[q].dataset
      BY <1>0, <3>1, <2>1 DEF UnchangedSince, LoaderState
    <3>3. QED
      BY <1>3, <3>2 DEF Reread, Loaded
  <2>2. CASE ~UnchangedSince(q)
    <3>1. loader'[q].phase = "failed"
      BY <1>0, <1>3, <2>2 DEF Reread, LoaderState
    <3>2. QED
      BY <3>1
  <2>3. QED
    BY <2>1, <2>2
<1>4. ASSUME CreateOrCompare(q) \/ WriteContent(q)
      PROVE  /\ loader'[q].dataset = loader[q].dataset /\ loader'[q].csv = loader[q].csv
             /\ loader'[q].bytes = loader[q].bytes /\ loader[q].phase \in {"create", "write"}
  <2>1. Onwards(q) => /\ loader'[q].dataset = loader[q].dataset /\ loader'[q].csv = loader[q].csv
                      /\ loader'[q].bytes = loader[q].bytes
    BY <1>0 DEF Onwards, LoaderState
  <2>2. QED
    BY <1>0, <1>4, <2>1 DEF CreateOrCompare, WriteContent, LoaderState
<1>5. CASE RestartLoader(q)
  BY <1>0, <1>5 DEF RestartLoader, IdleLoader
<1>6. ASSUME NEW p \in Loaders, p # q,
             \/ \E ds \in FlowDatasets : LoadCsv(p, ds)
             \/ Reread(p) \/ CreateOrCompare(p) \/ WriteContent(p) \/ RestartLoader(p)
      PROVE  loader'[q] = loader[q]
  BY <1>0, <1>6 DEF LoadCsv, Reread, CreateOrCompare, WriteContent, Onwards, RestartLoader
<1>7. CASE UNCHANGED flowFileVars
  BY <1>1, <1>7 DEF flowFileVars
<1>8. CASE \E ds \in FlowDatasets : ReplaceCsv(ds)
  BY <1>1, <1>8 DEF ReplaceCsv
<1>9. CASE \E p \in Loaders : p # q /\ (\/ \E ds \in FlowDatasets : LoadCsv(p, ds)
             \/ Reread(p) \/ CreateOrCompare(p) \/ WriteContent(p) \/ RestartLoader(p))
  BY <1>1, <1>6, <1>9
<1>10. CASE \E ds \in FlowDatasets : LoadCsv(q, ds)
  BY <1>2, <1>10
<1>11. CASE CreateOrCompare(q) \/ WriteContent(q)
  BY <1>4, <1>11 DEF Loaded
<1>12. QED
  BY <1>3, <1>5, <1>7, <1>8, <1>9, <1>10, <1>11 DEF FlowFileNext

-----------------------------------------------------------------------------

\* A complete file stays complete: it is only ever created where there is none
\* and only its own content is written into it.
LEMMA FilesStay ==
    ASSUME FlowTypeOK, Loaded, [FlowFileNext]_flowFileVars,
           NEW layer \in LayerSet, NEW ds \in FlowDatasets, NEW csv \in FlowCsvs,
           Complete(layer, ds, csv)
    PROVE  Complete(layer, ds, csv)'
<1> DEFINE path == <<layer, ds, csv>>
<1>1. path \in Paths /\ artifacts[path] # NoFile
  BY ContentAssumption DEF Complete, Paths
<1>2. CASE UNCHANGED artifacts
  BY <1>2 DEF Complete
<1>3. ASSUME NEW p \in Loaders, CreateOrCompare(p) PROVE Complete(layer, ds, csv)'
  <2>1. CASE artifacts' = [artifacts EXCEPT ![Path(p)] = Half] /\ artifacts[Path(p)] = NoFile
    <3>1. Path(p) # path
      BY <1>1, <2>1
    <3>2. artifacts'[path] = artifacts[path]
      BY <1>1, <2>1, <3>1 DEF FlowTypeOK
    <3>3. QED
      BY <3>2 DEF Complete
  <2>2. QED
    BY <1>2, <1>3, <2>1 DEF CreateOrCompare
<1>4. ASSUME NEW p \in Loaders, WriteContent(p) PROVE Complete(layer, ds, csv)'
  <2>1. artifacts' = [artifacts EXCEPT ![Path(p)] = Content(p)]
    BY <1>4 DEF WriteContent
  <2>2. Path(p) = <<Layers[loader[p].layer], loader[p].dataset, loader[p].csv>>
        /\ Content(p) = ContentOf(Layers[loader[p].layer], loader[p].csv,
                                  loader[p].dataset, loader[p].csv)
    BY <1>4, PathIs DEF WriteContent
  <2>3. CASE Path(p) = path
    <3>1. Layers[loader[p].layer] = layer /\ loader[p].dataset = ds /\ loader[p].csv = csv
      BY <2>2, <2>3
    <3>2. artifacts'[path] = ContentOf(layer, csv, ds, csv)
      BY <1>1, <2>1, <2>2, <2>3, <3>1 DEF FlowTypeOK
    <3>3. QED
      BY <3>2 DEF Complete
  <2>4. CASE Path(p) # path
    <3>1. artifacts'[path] = artifacts[path]
      BY <1>1, <2>1, <2>4 DEF FlowTypeOK
    <3>2. QED
      BY <3>1 DEF Complete
  <2>5. QED
    BY <2>3, <2>4
<1>5. QED
  BY <1>2, <1>3, <1>4
     DEF FlowFileNext, flowFileVars, ReplaceCsv, LoadCsv, Reread, RestartLoader

\* The file a process writes, or finds as it would write it, is complete when
\* it goes on to the next one.
LEMMA CompleteAtPath ==
    ASSUME FlowTypeOK, Loaded, NEW p \in Loaders, Onwards(p),
           CreateOrCompare(p) \/ WriteContent(p)
    PROVE  artifacts'[Path(p)] = Content(p)
<1>1. loader[p] \in LoaderState /\ DOMAIN loader = Loaders
  BY DEF FlowTypeOK
<1>2. loader'[p].phase \in {"create", "done"}
  BY <1>1 DEF Onwards, LoaderState
<1>3. CASE CreateOrCompare(p)
  <2>1. loader' # [loader EXCEPT ![p].phase = "write"]
        /\ loader' # [loader EXCEPT ![p].phase = "conflict"]
    BY <1>1, <1>2 DEF LoaderState
  <2>2. artifacts[Path(p)] = Content(p) /\ UNCHANGED artifacts
    BY <1>3, <2>1 DEF CreateOrCompare
  <2>3. QED
    BY <2>2
<1>4. CASE WriteContent(p)
  <2>1. Path(p) \in Paths
    BY <1>4, PathIs DEF WriteContent
  <2>2. QED
    BY <1>4, <2>1 DEF WriteContent, FlowTypeOK
<1>5. QED
  BY <1>3, <1>4

LEMMA OnwardsIs ==
    ASSUME FlowTypeOK, NEW p \in Loaders, Onwards(p)
    PROVE  /\ loader'[p].dataset = loader[p].dataset /\ loader'[p].csv = loader[p].csv
           /\ loader'[p].phase = "create" => loader'[p].layer = loader[p].layer + 1
           /\ loader'[p].phase \in {"create", "done"}
           /\ \A q \in Loaders : q # p => loader'[q] = loader[q]
<1>1. loader[p] \in LoaderState /\ DOMAIN loader = Loaders
  BY DEF FlowTypeOK
<1>2. Len(Layers) = 3
  BY LayersAre
<1>3. QED
  BY <1>1, <1>2 DEF Onwards, LoaderState

\* No other process changes where a process is.
LEMMA OthersStay ==
    ASSUME FlowTypeOK, NEW p \in Loaders, NEW q \in Loaders, p # q,
           \/ \E ds \in FlowDatasets : LoadCsv(p, ds)
           \/ Reread(p) \/ CreateOrCompare(p) \/ WriteContent(p) \/ RestartLoader(p)
    PROVE  loader'[q] = loader[q]
<1>1. DOMAIN loader = Loaders
  BY DEF FlowTypeOK
<1>2. QED
  BY <1>1, OnwardsIs DEF LoadCsv, Reread, CreateOrCompare, WriteContent, RestartLoader

\* A process that goes on to a layer leaves those before it complete.
LEMMA ProgressStep ==
    FlowTypeOK /\ Loaded /\ Progress /\ [FlowFileNext]_flowFileVars => Progress'
<1> DEFINE Done(q, i) ==
        artifacts'[<<Layers[i], loader'[q].dataset, loader'[q].csv>>]
            = ContentOf(Layers[i], loader'[q].csv, loader'[q].dataset, loader'[q].csv)
           Goal(q) ==
        /\ loader'[q].phase = "reread" => loader'[q].layer = 1
        /\ loader'[q].phase \in {"create", "write"} =>
            \A i \in 1..3 : i < loader'[q].layer => Done(q, i)
<1> SUFFICES ASSUME FlowTypeOK, Loaded, Progress, [FlowFileNext]_flowFileVars, NEW q \in Loaders
             PROVE  Goal(q)
  BY DEF Progress, Complete
<1>0. loader[q] \in LoaderState /\ DOMAIN loader = Loaders
  BY DEF FlowTypeOK
<1>1. ASSUME NEW i \in 1..3, loader[q].phase \in {"create", "write"}, i < loader[q].layer,
             loader'[q].dataset = loader[q].dataset, loader'[q].csv = loader[q].csv
      PROVE  Done(q, i)
  <2>1. Complete(Layers[i], loader[q].dataset, loader[q].csv)
    BY <1>1 DEF Progress
  <2>2. Layers[i] \in LayerSet /\ loader[q].dataset \in FlowDatasets /\ loader[q].csv \in FlowCsvs
    BY <1>1, LayersAre DEF Loaded, LayerSet
  <2>3. ASSUME NEW layer \in LayerSet, NEW ds \in FlowDatasets, NEW csv \in FlowCsvs,
               Complete(layer, ds, csv)
        PROVE  artifacts'[<<layer, ds, csv>>] = ContentOf(layer, csv, ds, csv)
    <3>1. Complete(layer, ds, csv)'
      BY <2>3, FilesStay
    <3>2. QED
      BY <3>1 DEF Complete
  <2>4. QED
    BY <1>1, <2>1, <2>2, <2>3
<1>2. CASE loader'[q] = loader[q]
  BY <1>1, <1>2 DEF Progress
<1>3. CASE \E ds \in FlowDatasets : LoadCsv(q, ds)
  <2>1. loader'[q].phase \in {"reread", "failed"} /\ loader'[q].layer = 1
    BY <1>0, <1>3 DEF LoadCsv, IdleLoader
  <2>2. QED
    BY <2>1
<1>4. CASE Reread(q)
  <2>1. loader'[q].layer = 1 /\ loader'[q].phase \in {"create", "failed"}
    BY <1>0, <1>4 DEF Reread, LoaderState, Progress
  <2>2. QED
    BY <2>1
<1>5. CASE RestartLoader(q)
  BY <1>0, <1>5 DEF RestartLoader, IdleLoader
<1>6. CASE (CreateOrCompare(q) \/ WriteContent(q)) /\ Onwards(q)
  <2>1. /\ loader'[q].dataset = loader[q].dataset /\ loader'[q].csv = loader[q].csv
        /\ loader'[q].phase = "create" => loader'[q].layer = loader[q].layer + 1
        /\ loader'[q].phase \in {"create", "done"}
        /\ loader[q].phase \in {"create", "write"}
    BY <1>6, OnwardsIs DEF CreateOrCompare, WriteContent
  <2>2. Done(q, loader[q].layer)
    BY <1>6, <2>1, CompleteAtPath, PathIs
  <2>3. ASSUME NEW i \in 1..3, loader'[q].phase = "create", i < loader'[q].layer PROVE Done(q, i)
    <3>1. i = loader[q].layer \/ i < loader[q].layer
      BY <1>0, <2>1, <2>3 DEF LoaderState
    <3>2. CASE i = loader[q].layer
      BY <2>2, <3>2
    <3>3. CASE i < loader[q].layer
      BY <1>1, <2>1, <3>3
    <3>4. QED
      BY <3>1, <3>2, <3>3
  <2>4. QED
    BY <2>1, <2>3
<1>7. CASE CreateOrCompare(q) /\ ~Onwards(q)
  <2>1. /\ loader'[q].dataset = loader[q].dataset /\ loader'[q].csv = loader[q].csv
        /\ loader'[q].layer = loader[q].layer /\ loader'[q].phase \in {"write", "conflict"}
        /\ loader[q].phase = "create"
    BY <1>0, <1>7 DEF CreateOrCompare, LoaderState
  <2>2. QED
    BY <1>1, <2>1
<1>8. CASE UNCHANGED flowFileVars \/ \E ds \in FlowDatasets : ReplaceCsv(ds)
  BY <1>2, <1>8 DEF flowFileVars, ReplaceCsv
<1>9. CASE \E p \in Loaders : p # q /\ (\/ \E ds \in FlowDatasets : LoadCsv(p, ds)
             \/ Reread(p) \/ CreateOrCompare(p) \/ WriteContent(p) \/ RestartLoader(p))
  BY <1>2, <1>9, OthersStay
<1>10. WriteContent(q) => Onwards(q)
  BY DEF WriteContent
<1> HIDE DEF Goal
<1>11. QED
  BY <1>3, <1>4, <1>5, <1>6, <1>7, <1>8, <1>9, <1>10 DEF FlowFileNext

-----------------------------------------------------------------------------

LEMMA LineageLastStep ==
    FlowTypeOK /\ Loaded /\ Progress /\ LineageLast /\ [FlowFileNext]_flowFileVars => LineageLast'
<1> SUFFICES ASSUME FlowTypeOK, Loaded, Progress, LineageLast, [FlowFileNext]_flowFileVars,
                    NEW ds \in FlowDatasets, NEW csv \in FlowCsvs,
                    artifacts'[<<"lineage", ds, csv>>] \notin {NoFile, Half}
             PROVE  Complete("raw", ds, csv)' /\ Complete("normalized", ds, csv)'
  BY DEF LineageLast
<1> DEFINE path == <<"lineage", ds, csv>>
<1>0. path \in Paths /\ {"raw", "normalized", "lineage"} = LayerSet
  BY LayersAre DEF Paths
<1>1. SUFFICES Complete("raw", ds, csv) /\ Complete("normalized", ds, csv)
  BY <1>0, FilesStay
<1>2. CASE artifacts'[path] = artifacts[path]
  BY <1>2 DEF LineageLast
<1>3. CASE UNCHANGED artifacts
  BY <1>2, <1>3
<1>4. ASSUME NEW p \in Loaders, CreateOrCompare(p) PROVE artifacts'[path] = artifacts[path]
  <2>1. CASE artifacts' = [artifacts EXCEPT ![Path(p)] = Half]
    BY <1>0, <2>1 DEF FlowTypeOK
  <2>2. QED
    BY <1>4, <2>1 DEF CreateOrCompare
<1>5. ASSUME NEW p \in Loaders, WriteContent(p), artifacts'[path] # artifacts[path]
      PROVE  Complete("raw", ds, csv) /\ Complete("normalized", ds, csv)
  <2>1. Path(p) = path
    BY <1>0, <1>5 DEF WriteContent, FlowTypeOK
  <2>2. /\ Path(p) = <<Layers[loader[p].layer], loader[p].dataset, loader[p].csv>>
        /\ loader[p].layer \in 1..3
    BY <1>5, PathIs DEF WriteContent
  <2>3. loader[p].dataset = ds /\ loader[p].csv = csv /\ Layers[loader[p].layer] = "lineage"
    BY <2>1, <2>2
  <2>4. loader[p].layer = 3
    BY <2>2, <2>3, LayersAre
  <2>5. \A i \in 1..3 : i < 3 => Complete(Layers[i], ds, csv)
    BY <1>5, <2>3, <2>4 DEF Progress, WriteContent
  <2>6. Complete(Layers[1], ds, csv) /\ Complete(Layers[2], ds, csv)
    BY <2>5
  <2>7. QED
    BY <2>6, LayersAre
<1>6. QED
  BY <1>2, <1>3, <1>4, <1>5
     DEF FlowFileNext, flowFileVars, ReplaceCsv, LoadCsv, Reread, RestartLoader

LEMMA FlowInvInit == FlowFileInit => FlowInv
<1> SUFFICES ASSUME FlowFileInit PROVE FlowInv
  OBVIOUS
<1>1. FlowTypeOK
  BY FlowInitTyped
<1>2. \A p \in Loaders : loader[p] = IdleLoader
  BY DEF FlowFileInit
<1>3. \A p \in Loaders : loader[p].phase = "off"
  BY <1>2 DEF IdleLoader
<1>4. Loaded /\ Progress
  BY <1>3 DEF Loaded, Progress
<1>5. \A ds \in FlowDatasets, csv \in FlowCsvs : artifacts[<<"lineage", ds, csv>>] = NoFile
  BY LayersAre DEF FlowFileInit
<1>6. LineageLast
  BY <1>5 DEF LineageLast
<1>7. QED
  BY <1>1, <1>4, <1>6 DEF FlowInv

LEMMA FlowInvVouches == FlowInv => LineageVouches
<1> SUFFICES ASSUME FlowInv, NEW ds \in FlowDatasets, NEW csv \in FlowCsvs,
                    artifacts[<<"lineage", ds, csv>>] \notin {NoFile, Half}
             PROVE  /\ artifacts[<<"raw", ds, csv>>] = csv
                    /\ artifacts[<<"normalized", ds, csv>>] = RecordsOf(csv, ds)
  BY DEF LineageVouches
<1>1. Complete("raw", ds, csv) /\ Complete("normalized", ds, csv)
  BY DEF FlowInv, LineageLast
<1>2. QED
  BY <1>1 DEF Complete, ContentOf

\* A lineage file vouches for complete raw and normalized files of its csv:
\* _write_once writes each only where there was none, in this order.
THEOREM LineageVouchesTheorem == FlowFileSpec => []LineageVouches
<1>1. FlowInv /\ [FlowFileNext]_flowFileVars => FlowInv'
  BY FlowTypeStep, LoadedStep, ProgressStep, LineageLastStep DEF FlowInv
<1>2. QED
  BY FlowInvInit, <1>1, FlowInvVouches, PTL DEF FlowFileSpec

=============================================================================
