------------------------- MODULE KrxBackfillProofs -------------------------
(***************************************************************************)
(* Theorems about KrxBackfill, for any runs, targets, calendar, answers    *)
(* and bounds.                                                             *)
(***************************************************************************)
EXTENDS KrxBackfill, FiniteSetTheorems, TLAPS

\* What the phase of a run says of its local state.
ShapeOf(r) ==
    /\ phase[r] \in {"fetching", "storing"} => cursor[r] \in Days
    /\ phase[r] = "storing" => answer[r] # None
    /\ phase[r] \in {"covering", "saving", "linking", "writing"} => target[r] \in Targets
    /\ phase[r] \in {"saving", "linking"} => left[r] \subseteq BarDays(r, target[r])

\* The time of receipt is written with the canonical record.
Shape ==
    /\ \A d \in Days : canon[d] # None => receipt[d] # None
    /\ \A r \in Runs : ShapeOf(r)

\* The days that get_bars finds depend on the cache of the run only.
LEMMA BarDaysFromCache ==
    ASSUME NEW r \in Runs, cache'[r] = cache[r]
    PROVE  /\ Open(r)' = Open(r)
           /\ \A t : BarDays(r, t)' = BarDays(r, t)
           /\ \A t, d : BarOf(r, t, d)' = BarOf(r, t, d)
<1>1. Cached(r)' = Cached(r)
  BY DEF Cached
<1>2. Open(r)' = Open(r)
  BY <1>1 DEF Open
<1>3. Span(r)' = Span(r)
  BY <1>2 DEF Span
<1>4. QED
  BY <1>2, <1>3 DEF BarDays, BarOf

\* A run that a step does not touch keeps its shape.
LEMMA ShapeKept ==
    ASSUME NEW r \in Runs, ShapeOf(r), cache'[r] = cache[r],
           <<phase[r], cursor[r], answer[r], target[r], left[r]>>' =
                <<phase[r], cursor[r], answer[r], target[r], left[r]>>
    PROVE  ShapeOf(r)'
BY BarDaysFromCache DEF ShapeOf

\* A bar is made of a value and of a time of receipt that are there.
LEMMA BarOfIsBar ==
    ASSUME TypeOK, NEW r \in Runs, NEW t \in Targets, NEW d \in BarDays(r, t)
    PROVE  BarOf(r, t, d) \in Bars
<1>1. d \in Days /\ cache[r][d] # None /\ cache[r][d].answer # Empty
      /\ cache[r][d].answer[t] # Absent
  BY DEF BarDays, Open, Cached
<1>2. cache[r][d] \in Fetched
  BY <1>1 DEF TypeOK
<1>3. cache[r][d].answer \in [Targets -> Values \cup {Absent}] /\ cache[r][d].received \in Runs
  BY <1>1, <1>2 DEF Fetched, Answers
<1>4. QED
  BY <1>1, <1>3 DEF BarOf, Bars

\* Every reachable state is well typed, and its runs are of that shape.
THEOREM TypeCorrect == Spec => [](TypeOK /\ Shape)
<1>1. Init => TypeOK /\ Shape
  BY CountsAssumption, CalendarAssumption, AnswersAssumption
     DEF Init, TypeOK, Shape, ShapeOf, Answers, Days, Targets
<1>2. TypeOK /\ Shape /\ [Next]_vars => TypeOK' /\ Shape'
  <2> SUFFICES ASSUME TypeOK, Shape, [Next]_vars PROVE TypeOK' /\ Shape'
    OBVIOUS
  <2> USE CountsAssumption, CalendarAssumption DEF market, catalogs, Goto, Days, Working, Over
  <2>1. CASE UNCHANGED vars
    <3>1. \A q \in Runs : ShapeOf(q)'
      BY <2>1, ShapeKept DEF vars, Shape
    <3>2. QED
      BY <2>1, <3>1 DEF vars, TypeOK, Shape
  <2>2. ASSUME NEW d \in Days, Publish(d) PROVE TypeOK' /\ Shape'
    <3>1. TypeOK'
      BY <2>2, AnswersAssumption DEF Publish, TypeOK
    <3>2. \A q \in Runs : ShapeOf(q)'
      BY <2>2, ShapeKept, BarDaysFromCache DEF Publish, TypeOK, Shape, ShapeOf
    <3>3. QED
      BY <2>2, <3>1, <3>2 DEF Publish, Shape
  <2>3. ASSUME NEW d \in Days, Revise(d) PROVE TypeOK' /\ Shape'
    <3>1. TypeOK'
      BY <2>3, AnswersAssumption DEF Revise, TypeOK
    <3>2. \A q \in Runs : ShapeOf(q)'
      BY <2>3, ShapeKept, BarDaysFromCache DEF Revise, TypeOK, Shape, ShapeOf
    <3>3. QED
      BY <2>3, <3>1, <3>2 DEF Revise, Shape
  <2>4. ASSUME NEW r \in Runs, Begin(r) PROVE TypeOK' /\ Shape'
    <3>1. TypeOK'
      BY <2>4 DEF Begin, TypeOK
    <3>2. \A q \in Runs : ShapeOf(q)'
      BY <2>4, ShapeKept, BarDaysFromCache DEF Begin, TypeOK, Shape, ShapeOf
    <3>3. QED
      BY <2>4, <3>1, <3>2 DEF Begin, Shape
  <2>5. ASSUME NEW r \in Runs,
               Blocked(r) \/ TooFewDays(r) \/ RawConflict(r) \/ Incomplete(r) \/ Fail(r)
        PROVE  TypeOK' /\ Shape'
    <3>1. /\ phase' \in [Runs -> {"idle"} \cup Working \cup Over]
          /\ phase'[r] \in Over /\ \A q \in Runs \ {r} : phase'[q] = phase[q]
          /\ UNCHANGED <<market, catalogs, end, cursor, attempts, answer, cache, target, left>>
      BY <2>5 DEF Blocked, TooFewDays, RawConflict, Incomplete, Fail, TypeOK
    <3>2. TypeOK'
      BY <3>1 DEF TypeOK
    <3>3. ShapeOf(r)'
      BY <3>1 DEF ShapeOf
    <3>4. \A q \in Runs \ {r} : ShapeOf(q)'
      BY <3>1, ShapeKept DEF Shape
    <3>5. QED
      BY <3>1, <3>2, <3>3, <3>4 DEF Shape
  <2>6. ASSUME NEW r \in Runs, NextDay(r) PROVE TypeOK' /\ Shape'
    <3>1. TypeOK'
      BY <2>6 DEF NextDay, TypeOK
    <3>2. \A q \in Runs : ShapeOf(q)'
      BY <2>6, ShapeKept, BarDaysFromCache DEF NextDay, TypeOK, Shape, ShapeOf
    <3>3. QED
      BY <2>6, <3>1, <3>2 DEF NextDay, Shape
  <2>7. ASSUME NEW r \in Runs, EnoughDays(r) PROVE TypeOK' /\ Shape'
    <3>1. TypeOK'
      BY <2>7 DEF EnoughDays, Targets, TypeOK
    <3>2. \A q \in Runs : ShapeOf(q)'
      BY <2>7, ShapeKept, BarDaysFromCache DEF EnoughDays, Targets, TypeOK, Shape, ShapeOf
    <3>3. QED
      BY <2>7, <3>1, <3>2 DEF EnoughDays, Targets, Shape
  <2>8. ASSUME NEW r \in Runs, Fetch(r) PROVE TypeOK' /\ Shape'
    <3>1. TypeOK'
      BY <2>8, AnswersAssumption DEF Fetch, TypeOK, Shape, ShapeOf
    <3>2. \A q \in Runs : ShapeOf(q)'
      BY <2>8, ShapeKept, BarDaysFromCache, AnswersAssumption DEF Fetch, TypeOK, Shape, ShapeOf
    <3>3. QED
      BY <2>8, <3>1, <3>2 DEF Fetch, Shape
  <2>9. ASSUME NEW r \in Runs, RateLimited(r) PROVE TypeOK' /\ Shape'
    <3>1. attempts' \in [Runs -> 0..MaxRetries]
      <4>1. MaxRetries \in Nat /\ attempts[r] \in 0..MaxRetries
        BY DEF TypeOK
      <4>2. attempts[r] < MaxRetries => attempts[r] + 1 \in 0..MaxRetries
        BY <4>1
      <4>3. QED
        BY <2>9, <4>1, <4>2 DEF RateLimited, TypeOK
    <3>2. TypeOK'
      BY <2>9, <3>1 DEF RateLimited, TypeOK
    <3>3. \A q \in Runs : ShapeOf(q)'
      BY <2>9, ShapeKept, BarDaysFromCache DEF RateLimited, TypeOK, Shape, ShapeOf
    <3>4. QED
      BY <2>9, <3>2, <3>3 DEF RateLimited, Shape
  <2>10. ASSUME NEW r \in Runs, StoreRaw(r) PROVE TypeOK' /\ Shape'
    <3> DEFINE d == cursor[r]
    <3>1. d \in Days /\ answer[r] \in Answers
      BY <2>10 DEF StoreRaw, Shape, ShapeOf, TypeOK
    <3>2. /\ canon' \in [Days -> Answers \cup {None}]
          /\ receipt' \in [Days -> Runs \cup {None}]
          /\ \A e \in Days : canon'[e] # None => receipt'[e] # None
          /\ canon'[d] # None
      BY <2>10, <3>1, AnswersAssumption
         DEF StoreRaw, PutRaw, Store!Put, TypeOK, Shape
    <3>3. [answer |-> answer[r], received |-> receipt'[d]] \in Fetched
      BY <3>1, <3>2 DEF Fetched
    <3>4. cache' \in [Runs -> [Days -> Fetched \cup {None}]]
      BY <2>10, <3>1, <3>3 DEF StoreRaw, Remember, TypeOK
    <3>5. TypeOK'
      BY <2>10, <3>2, <3>4 DEF StoreRaw, PutRaw, TypeOK
    <3>6. \A q \in Runs : ShapeOf(q)'
      BY <2>10, ShapeKept DEF StoreRaw, Remember, TypeOK, Shape, ShapeOf
    <3>7. QED
      BY <3>2, <3>5, <3>6 DEF Shape
  <2>11. ASSUME NEW r \in Runs, Cover(r) PROVE TypeOK' /\ Shape'
    <3>1. TypeOK'
      BY <2>11 DEF Cover, TypeOK, BarDays, Open, Cached
    <3>2. \A q \in Runs : ShapeOf(q)'
      BY <2>11, ShapeKept, BarDaysFromCache DEF Cover, TypeOK, Shape, ShapeOf
    <3>3. QED
      BY <2>11, <3>1, <3>2 DEF Cover, Shape
  <2>12. ASSUME NEW r \in Runs, NEW d \in Days, SaveNormalized(r, d) PROVE TypeOK' /\ Shape'
    <3>1. target[r] \in Targets /\ BarOf(r, target[r], d) \in Bars
      BY <2>12, BarOfIsBar DEF SaveNormalized, IsEarliest, Shape, ShapeOf
    <3>2. normalized' \in [Targets \X Days -> Bars \cup {None}]
      <4> DEFINE child == <<target[r], d>>
                 bar == BarOf(r, target[r], d)
      <4>1. \/ UNCHANGED normalized
            \/ normalized' = [normalized EXCEPT ![child] = bar]
        BY <2>12 DEF SaveNormalized
      <4>2. child \in Targets \X Days /\ bar \in Bars
        BY <3>1
      <4> HIDE DEF child, bar
      <4>3. QED
        BY <4>1, <4>2 DEF TypeOK
    <3>3. TypeOK'
      BY <2>12, <3>2 DEF SaveNormalized, TypeOK
    <3>4. \A q \in Runs : ShapeOf(q)'
      BY <2>12, ShapeKept, BarDaysFromCache DEF SaveNormalized, TypeOK, Shape, ShapeOf
    <3>5. QED
      BY <2>12, <3>3, <3>4 DEF SaveNormalized, Shape
  <2>13. ASSUME NEW r \in Runs, NEW d \in Days, Link(r, d) PROVE TypeOK' /\ Shape'
    <3>1. target[r] \in Targets /\ BarOf(r, target[r], d) \in Bars
      BY <2>13, BarOfIsBar DEF Link, IsEarliest, Shape, ShapeOf
    <3>2. Edge(r, target[r], d) \in Edges
      BY <3>1 DEF Edge, Edges, BarOf, Bars
    <3>3. target' \in [Runs -> Targets \cup {0}] /\ target'[r] \in Targets
      <4>1. target[r] < NumTargets => target[r] + 1 \in Targets
        BY <3>1 DEF Targets
      <4>2. \/ target' = target
            \/ target[r] < NumTargets /\ target' = [target EXCEPT ![r] = @ + 1]
        BY <2>13 DEF Link
      <4>3. target \in [Runs -> Targets \cup {0}]
        BY DEF TypeOK
      <4>4. CASE target' = target
        BY <3>1, <4>3, <4>4
      <4>5. CASE target[r] < NumTargets /\ target' = [target EXCEPT ![r] = @ + 1]
        <5>1. PICK n \in Targets : target' = [target EXCEPT ![r] = n]
          BY <4>1, <4>5
        <5>2. QED
          BY <4>3, <5>1
      <4>6. QED
        BY <4>2, <4>4, <4>5
    <3>4. phase' \in [Runs -> {"idle"} \cup Working \cup Over]
      <4>1. PICK p \in Working : phase' = [phase EXCEPT ![r] = p]
        BY <2>13 DEF Link
      <4>2. QED
        BY <4>1 DEF TypeOK
    <3>5. left' \in [Runs -> SUBSET Days]
      BY <2>13 DEF Link, TypeOK
    <3>6. TypeOK'
      BY <2>13, <3>2, <3>3, <3>4, <3>5 DEF Link, TypeOK
    <3>7. ShapeOf(r)'
      <4>1. phase'[r] \in {"saving", "covering", "writing"}
        BY <2>13 DEF Link, TypeOK
      <4>2. phase'[r] = "saving" => target'[r] = target[r]
        BY <2>13 DEF Link, TypeOK
      <4>3. left'[r] \subseteq BarDays(r, target[r])
        BY <2>13 DEF Link, TypeOK, Shape, ShapeOf
      <4>4. BarDays(r, target[r])' = BarDays(r, target'[r])
        BY <2>13, BarDaysFromCache DEF Link
      <4>5. QED
        BY <3>3, <4>1, <4>2, <4>3, <4>4 DEF ShapeOf
    <3>8. \A q \in Runs \ {r} : ShapeOf(q)'
      BY <2>13, ShapeKept DEF Link, TypeOK, Shape
    <3>9. QED
      BY <2>13, <3>6, <3>7, <3>8 DEF Link, Shape
  <2>14. ASSUME NEW r \in Runs, WriteSnapshot(r) PROVE TypeOK' /\ Shape'
    <3>1. TypeOK'
      BY <2>14 DEF WriteSnapshot, TypeOK
    <3>2. \A q \in Runs : ShapeOf(q)'
      BY <2>14, ShapeKept, BarDaysFromCache DEF WriteSnapshot, TypeOK, Shape, ShapeOf
    <3>3. QED
      BY <2>14, <3>1, <3>2 DEF WriteSnapshot, Shape
  <2>15. QED
    BY <2>1, <2>2, <2>3, <2>4, <2>5, <2>6, <2>7, <2>8, <2>9, <2>10, <2>11, <2>12, <2>13, <2>14
       DEF Next, Step
<1>3. QED
  BY <1>1, <1>2, PTL DEF Spec

-----------------------------------------------------------------------------
(***************************************************************************)
(* Reruns.  A run derives its bars from its cache, and the cache repeats   *)
(* the catalog: so any two runs derive the same bar.                       *)
(***************************************************************************)

CacheAgrees ==
    \A r \in Runs : \A d \in Days : cache[r][d] # None =>
        /\ canon[d] # None
        /\ cache[r][d] = [answer |-> canon[d], received |-> receipt[d]]

NormalizedAgrees ==
    \A t \in Targets : \A d \in Days : normalized[<<t, d>>] # None =>
        /\ canon[d] \notin {None, Empty}
        /\ normalized[<<t, d>>] = [value |-> canon[d][t], received |-> receipt[d]]

Agreement == CacheAgrees /\ NormalizedAgrees /\ RerunsNeverConflict

\* Only StoreRaw writes the raw catalog and the caches.
LEMMA OnlyStoreRawWritesRaw ==
    ASSUME [Next]_vars, \A r \in Runs : ~StoreRaw(r)
    PROVE  UNCHANGED <<canon, receipt, cache>>
BY DEF Next, vars, market, catalogs, Step, Publish, Revise, Begin, Blocked, NextDay, TooFewDays,
       EnoughDays, Fetch, RateLimited, RawConflict, Cover, Incomplete, SaveNormalized, Link,
       WriteSnapshot, Fail

\* Only SaveNormalized writes normalized records, and finds conflicts among them.
LEMMA OnlySaveNormalizedWritesBars ==
    ASSUME TypeOK, [Next]_vars, \A r \in Runs : \A d \in Days : ~SaveNormalized(r, d)
    PROVE  UNCHANGED normalized /\ (RerunsNeverConflict => RerunsNeverConflict')
<1>1. CASE UNCHANGED vars
  BY <1>1 DEF vars, catalogs, RerunsNeverConflict
<1>2. ASSUME NEW d \in Days, Publish(d) \/ Revise(d)
      PROVE  UNCHANGED normalized /\ (RerunsNeverConflict => RerunsNeverConflict')
  BY <1>2 DEF Publish, Revise, catalogs, RerunsNeverConflict
<1>3. ASSUME NEW r \in Runs, Begin(r) \/ Blocked(r) \/ Step(r) \/ Fail(r)
      PROVE  UNCHANGED normalized /\ (RerunsNeverConflict => RerunsNeverConflict')
  <2>1. UNCHANGED normalized
    BY <1>3 DEF Step, catalogs, Begin, Blocked, NextDay, TooFewDays, EnoughDays, Fetch,
       RateLimited, StoreRaw, PutRaw, RawConflict, Cover, Incomplete, Link, WriteSnapshot, Fail
  <2>2. \/ UNCHANGED phase
        \/ \E p \in (Working \cup Over) \ {"normalized_conflict"} : phase' = [phase EXCEPT ![r] = p]
    BY <1>3 DEF Step, Goto, Working, Over, Begin, Blocked, NextDay, TooFewDays, EnoughDays, Fetch,
       RateLimited, StoreRaw, RawConflict, Cover, Incomplete, Link, WriteSnapshot, Fail
  <2>3. QED
    BY <2>1, <2>2 DEF TypeOK, RerunsNeverConflict
<1>4. QED
  BY <1>1, <1>2, <1>3 DEF Next

\* StoreRaw fills at most one empty entry of the catalog and one of a cache.
LEMMA StoreRawStep ==
    ASSUME TypeOK, Shape, NEW r \in Runs, StoreRaw(r)
    PROVE  /\ cursor[r] \in Days
           /\ canon'[cursor[r]] # None
           /\ \A d \in Days : canon[d] # None => canon'[d] = canon[d] /\ receipt'[d] = receipt[d]
           /\ cache'[r][cursor[r]] = [answer |-> canon'[cursor[r]],
                                      received |-> receipt'[cursor[r]]]
           /\ \A q \in Runs : \A d \in Days :
                 q # r \/ d # cursor[r] => cache'[q][d] = cache[q][d]
<1>1. cursor[r] \in Days /\ answer[r] # None
  BY DEF StoreRaw, Shape, ShapeOf
<1>2. canon'[cursor[r]] = answer[r]
  BY <1>1 DEF StoreRaw, Agrees, PutRaw, Store!Put, Store!Verdict, TypeOK
<1>3. \A d \in Days : canon[d] # None => canon'[d] = canon[d] /\ receipt'[d] = receipt[d]
  BY <1>1 DEF StoreRaw, PutRaw, Store!Put, TypeOK
<1>4. QED
  BY <1>1, <1>2, <1>3 DEF StoreRaw, Remember, TypeOK

\* The bar that a run holds in memory is what the catalog says.
LEMMA BarFromCatalog ==
    ASSUME TypeOK, CacheAgrees, NEW r \in Runs, NEW t \in Targets, NEW d \in BarDays(r, t)
    PROVE  /\ d \in Days /\ canon[d] \notin {None, Empty}
           /\ BarOf(r, t, d) = [value |-> canon[d][t], received |-> receipt[d]]
           /\ Edge(r, t, d) = [run |-> r, raw |-> <<d, receipt[d]>>, child |-> <<t, d>>]
<1>1. d \in Days /\ cache[r][d] # None /\ cache[r][d].answer # Empty
  BY DEF BarDays, Open, Cached
<1>2. canon[d] # None /\ cache[r][d] = [answer |-> canon[d], received |-> receipt[d]]
  BY <1>1 DEF CacheAgrees
<1>3. cache[r][d].answer = canon[d] /\ cache[r][d].received = receipt[d]
  BY <1>2
<1>4. QED
  BY <1>1, <1>2, <1>3 DEF BarOf, Edge

\* Caches and normalized records say what the catalog says, so no rerun conflicts.
THEOREM AgreementTheorem == Spec => []Agreement
<1>1. Init => Agreement
  BY DEF Init, Agreement, CacheAgrees, NormalizedAgrees, RerunsNeverConflict
<1>2. TypeOK /\ Shape /\ Agreement /\ [Next]_vars => Agreement'
  <2> SUFFICES ASSUME TypeOK, Shape, Agreement, [Next]_vars PROVE Agreement'
    OBVIOUS
  <2>1. CacheAgrees'
    <3>1. CASE \A r \in Runs : ~StoreRaw(r)
      BY <3>1, OnlyStoreRawWritesRaw DEF Agreement, CacheAgrees
    <3>2. ASSUME NEW r \in Runs, StoreRaw(r) PROVE CacheAgrees'
      <4> SUFFICES ASSUME NEW q \in Runs, NEW d \in Days, cache'[q][d] # None
                   PROVE  /\ canon'[d] # None
                          /\ cache'[q][d] = [answer |-> canon'[d], received |-> receipt'[d]]
        BY DEF CacheAgrees
      <4>1. CASE q = r /\ d = cursor[r]
        BY <3>2, <4>1, StoreRawStep
      <4>2. CASE q # r \/ d # cursor[r]
        <5>1. cache'[q][d] = cache[q][d]
          BY <3>2, <4>2, StoreRawStep
        <5>2. canon[d] # None /\ cache[q][d] = [answer |-> canon[d], received |-> receipt[d]]
          BY <5>1 DEF Agreement, CacheAgrees
        <5>3. canon'[d] = canon[d] /\ receipt'[d] = receipt[d]
          BY <3>2, <5>2, StoreRawStep
        <5>4. QED
          BY <5>1, <5>2, <5>3
      <4>3. QED
        BY <4>1, <4>2
    <3>3. QED
      BY <3>1, <3>2
  <2>2. NormalizedAgrees' /\ RerunsNeverConflict'
    <3>1. ASSUME NEW r \in Runs, NEW d \in Days, SaveNormalized(r, d)
          PROVE  NormalizedAgrees' /\ RerunsNeverConflict'
      <4>1. target[r] \in Targets /\ d \in BarDays(r, target[r])
        BY <3>1 DEF SaveNormalized, IsEarliest, Shape, ShapeOf
      <4>2. /\ canon[d] \notin {None, Empty}
            /\ BarOf(r, target[r], d) = [value |-> canon[d][target[r]], received |-> receipt[d]]
        BY <4>1, BarFromCatalog DEF Agreement
      <4>3. normalized[<<target[r], d>>] \in {None, BarOf(r, target[r], d)}
        BY <4>1, <4>2 DEF Agreement, NormalizedAgrees
      <4>4. /\ normalized' = [normalized EXCEPT ![<<target[r], d>>] = BarOf(r, target[r], d)]
            /\ phase' = [phase EXCEPT ![r] = "linking"]
            /\ UNCHANGED <<canon, receipt>>
        BY <3>1, <4>3 DEF SaveNormalized, Goto
      <4>5. RerunsNeverConflict'
        BY <4>4 DEF TypeOK, Agreement, RerunsNeverConflict
      <4>6. ASSUME NEW t \in Targets, NEW e \in Days, normalized'[<<t, e>>] # None
            PROVE  /\ canon'[e] \notin {None, Empty}
                   /\ normalized'[<<t, e>>] = [value |-> canon'[e][t], received |-> receipt'[e]]
        <5>1. CASE <<t, e>> = <<target[r], d>>
          <6>1. normalized'[<<t, e>>] = BarOf(r, target[r], d)
            BY <4>1, <4>4, <5>1 DEF TypeOK
          <6>2. t = target[r] /\ e = d
            BY <5>1
          <6>3. QED
            BY <4>2, <4>4, <6>1, <6>2
        <5>2. CASE <<t, e>> # <<target[r], d>>
          <6>1. normalized'[<<t, e>>] = normalized[<<t, e>>]
            BY <4>4, <5>2 DEF TypeOK
          <6>2. QED
            BY <4>4, <4>6, <6>1 DEF Agreement, NormalizedAgrees
        <5>3. QED
          BY <5>1, <5>2
      <4>7. QED
        BY <4>5, <4>6 DEF NormalizedAgrees
    <3>2. CASE \A r \in Runs : \A d \in Days : ~SaveNormalized(r, d)
      <4>1. UNCHANGED normalized /\ RerunsNeverConflict'
        BY <3>2, OnlySaveNormalizedWritesBars DEF Agreement
      <4>2. \A d \in Days : canon[d] # None => canon'[d] = canon[d] /\ receipt'[d] = receipt[d]
        BY OnlyStoreRawWritesRaw, StoreRawStep
      <4>3. QED
        BY <4>1, <4>2 DEF Agreement, NormalizedAgrees
    <3>3. QED
      BY <3>1, <3>2
  <2>3. QED
    BY <2>1, <2>2 DEF Agreement
<1>3. QED
  BY <1>1, <1>2, TypeCorrect, PTL DEF Spec

\* Repeated and overlapping backfills never contradict a normalized record.
THEOREM RerunsNeverConflictTheorem == Spec => []RerunsNeverConflict
<1>1. Agreement => RerunsNeverConflict
  BY DEF Agreement
<1>2. QED
  BY <1>1, AgreementTheorem, PTL

-----------------------------------------------------------------------------
(***************************************************************************)
(* Snapshots.  What a run has saved and linked stays so, because no        *)
(* catalog entry is ever replaced; and it has done so for every bar it is  *)
(* going to write.                                                         *)
(***************************************************************************)

\* Run r may write the bar of target t on day d.
Traced(r, t, d) ==
    /\ normalized[<<t, d>>] # None
    /\ [run |-> r, raw |-> <<d, receipt[d]>>, child |-> <<t, d>>] \in edges

Progress(r) ==
    /\ phase[r] \in {"covering", "saving", "linking", "writing"} =>
          \A t \in Targets : t < target[r] => \A d \in BarDays(r, t) : Traced(r, t, d)
    /\ phase[r] \in {"saving", "linking"} =>
          \A d \in BarDays(r, target[r]) \ left[r] : Traced(r, target[r], d)
    /\ phase[r] = "linking" =>
          \A d \in Days : IsEarliest(d, left[r]) => normalized[<<target[r], d>>] # None
    /\ phase[r] = "writing" =>
          /\ target[r] = NumTargets
          /\ \A d \in BarDays(r, target[r]) : Traced(r, target[r], d)

Written(r) ==
    \A row \in snapshots[r] :
        /\ Traced(r, row.target, row.day)
        /\ normalized[<<row.target, row.day>>].value = row.value

\* No catalog entry is ever replaced or removed.
LEMMA CatalogsGrow ==
    ASSUME TypeOK, Shape, Agreement, [Next]_vars
    PROVE  /\ \A d \in Days : canon[d] # None => receipt'[d] = receipt[d]
           /\ \A t \in Targets : \A d \in Days :
                 normalized[<<t, d>>] # None => normalized'[<<t, d>>] = normalized[<<t, d>>]
           /\ edges \subseteq edges'
<1>1. \A d \in Days : canon[d] # None => receipt'[d] = receipt[d]
  BY OnlyStoreRawWritesRaw, StoreRawStep
<1>2. ASSUME NEW t \in Targets, NEW d \in Days, normalized[<<t, d>>] # None
      PROVE  normalized'[<<t, d>>] = normalized[<<t, d>>]
  <2>1. CASE \A r \in Runs : \A e \in Days : ~SaveNormalized(r, e)
    BY <2>1, OnlySaveNormalizedWritesBars
  <2>2. ASSUME NEW r \in Runs, NEW e \in Days, SaveNormalized(r, e)
        PROVE  normalized'[<<t, d>>] = normalized[<<t, d>>]
    <3>1. \/ UNCHANGED normalized
          \/ /\ normalized[<<target[r], e>>] \in {None, BarOf(r, target[r], e)}
             /\ normalized' = [normalized EXCEPT ![<<target[r], e>>] = BarOf(r, target[r], e)]
      BY <2>2 DEF SaveNormalized
    <3>2. QED
      BY <1>2, <3>1 DEF TypeOK
  <2>3. QED
    BY <2>1, <2>2
<1>3. edges \subseteq edges'
  BY DEF Next, vars, market, catalogs, Step, Publish, Revise, Begin, Blocked, NextDay, TooFewDays,
         EnoughDays, Fetch, RateLimited, StoreRaw, PutRaw, RawConflict, Cover, Incomplete,
         SaveNormalized, Link, WriteSnapshot, Fail
<1>4. QED
  BY <1>1, <1>2, <1>3

\* What is traced stays traced.
LEMMA TracedKept ==
    ASSUME TypeOK, Shape, Agreement, [Next]_vars,
           NEW r \in Runs, NEW t \in Targets, NEW d \in Days, Traced(r, t, d)
    PROVE  Traced(r, t, d)' /\ normalized'[<<t, d>>] = normalized[<<t, d>>]
<1>1. canon[d] # None
  BY DEF Traced, Agreement, NormalizedAgrees
<1>2. receipt'[d] = receipt[d]
  BY <1>1, CatalogsGrow
<1>3. QED
  BY <1>2, CatalogsGrow DEF Traced

\* The progress of a run that a step does not touch.
LEMMA ProgressKept ==
    ASSUME TypeOK, Shape, Agreement, [Next]_vars, NEW r \in Runs, Progress(r),
           cache'[r] = cache[r], <<phase[r], target[r], left[r]>>' = <<phase[r], target[r], left[r]>>
    PROVE  Progress(r)'
<1>1. \A t : BarDays(r, t)' = BarDays(r, t)
  BY BarDaysFromCache
<1>2. \A t : BarDays(r, t) \subseteq Days
  BY DEF BarDays, Open, Cached
<1>3. \A t \in Targets : \A d \in Days : Traced(r, t, d) => Traced(r, t, d)'
  BY TracedKept
<1>4. \A t \in Targets : \A d \in Days :
          normalized[<<t, d>>] # None => normalized'[<<t, d>>] # None
  BY CatalogsGrow
<1>5. phase[r] \in {"covering", "saving", "linking", "writing"} => target[r] \in Targets
  BY DEF Shape, ShapeOf
<1>6. QED
  BY <1>1, <1>2, <1>3, <1>4, <1>5 DEF Progress, IsEarliest

\* Rows that are written stay traced.
LEMMA WrittenKept ==
    ASSUME TypeOK, Shape, Agreement, [Next]_vars, NEW r \in Runs, Written(r),
           snapshots'[r] = snapshots[r]
    PROVE  Written(r)'
<1>1. \A row \in snapshots[r] : row.target \in Targets /\ row.day \in Days
  BY DEF TypeOK, Rows
<1>2. ASSUME NEW row \in snapshots[r]
      PROVE  /\ Traced(r, row.target, row.day)'
             /\ normalized'[<<row.target, row.day>>].value = row.value
  <2>1. /\ Traced(r, row.target, row.day)
        /\ normalized[<<row.target, row.day>>].value = row.value
    BY DEF Written
  <2>2. QED
    BY <1>1, <2>1, TracedKept
<1>3. QED
  BY <1>2 DEF Written

\* A step of one run leaves the others alone.
LEMMA OtherRunsUntouched ==
    ASSUME TypeOK, NEW r \in Runs, NEW q \in Runs, q # r,
           Begin(r) \/ Blocked(r) \/ Step(r) \/ Fail(r)
    PROVE  /\ cache'[q] = cache[q] /\ snapshots'[q] = snapshots[q]
           /\ <<phase[q], target[q], left[q]>>' = <<phase[q], target[q], left[q]>>
<1>1. cache'[q] = cache[q]
  BY DEF TypeOK, Step, Begin, Blocked, NextDay, TooFewDays, EnoughDays, Fetch, RateLimited,
         StoreRaw, Remember, RawConflict, Cover, Incomplete, SaveNormalized, Link, WriteSnapshot,
         Fail
<1>2. snapshots'[q] = snapshots[q]
  BY DEF TypeOK, catalogs, Step, Begin, Blocked, NextDay, TooFewDays, EnoughDays, Fetch,
         RateLimited, StoreRaw, PutRaw, RawConflict, Cover, Incomplete, SaveNormalized, Link,
         WriteSnapshot, Fail
<1>3. phase'[q] = phase[q]
  BY DEF TypeOK, Goto, Step, Begin, Blocked, NextDay, TooFewDays, EnoughDays, Fetch, RateLimited,
         StoreRaw, RawConflict, Cover, Incomplete, SaveNormalized, Link, WriteSnapshot, Fail
<1>4. target'[q] = target[q]
  BY DEF TypeOK, Step, Begin, Blocked, NextDay, TooFewDays, EnoughDays, Fetch, RateLimited,
         StoreRaw, RawConflict, Cover, Incomplete, SaveNormalized, Link, WriteSnapshot, Fail
<1>5. left'[q] = left[q]
  BY DEF TypeOK, Step, Begin, Blocked, NextDay, TooFewDays, EnoughDays, Fetch, RateLimited,
         StoreRaw, RawConflict, Cover, Incomplete, SaveNormalized, Link, WriteSnapshot, Fail
<1>6. QED
  BY <1>1, <1>2, <1>3, <1>4, <1>5

\* The progress of the run that takes the step.
LEMMA ProgressOfStep ==
    ASSUME TypeOK, Shape, Agreement, [Next]_vars, NEW r \in Runs, Progress(r),
           Begin(r) \/ Blocked(r) \/ Step(r) \/ Fail(r)
    PROVE  Progress(r)'
<1> DEFINE Late == {"covering", "saving", "linking", "writing"}
<1>a. \A t \in Targets : \A d \in Days : Traced(r, t, d) => Traced(r, t, d)'
  BY TracedKept
<1>b. \A t : BarDays(r, t) \subseteq Days
  BY DEF BarDays, Open, Cached
<1>1. CASE \/ Begin(r) \/ Blocked(r) \/ NextDay(r) \/ TooFewDays(r) \/ Fetch(r) \/ RateLimited(r)
           \/ StoreRaw(r) \/ RawConflict(r) \/ Incomplete(r) \/ WriteSnapshot(r) \/ Fail(r)
  <2>1. phase'[r] \notin Late
    BY <1>1 DEF TypeOK, Goto, Begin, Blocked, NextDay, TooFewDays, Fetch, RateLimited, StoreRaw,
       RawConflict, Incomplete, WriteSnapshot, Fail
  <2>2. QED
    BY <2>1 DEF Progress
<1>2. CASE EnoughDays(r)
  <2>1. phase'[r] = "covering" /\ target'[r] = 1
    BY <1>2 DEF EnoughDays, Goto, TypeOK
  <2>2. ~\E t \in Targets : t < 1
    BY DEF Targets
  <2>3. QED
    BY <2>1, <2>2 DEF Progress
<1>3. CASE Cover(r)
  <2>1. /\ phase[r] = "covering" /\ phase'[r] = "saving" /\ target'[r] = target[r]
        /\ left'[r] = BarDays(r, target[r]) /\ cache' = cache
    BY <1>3 DEF Cover, Goto, TypeOK
  <2>2. \A t : BarDays(r, t)' = BarDays(r, t)
    BY <2>1, BarDaysFromCache
  <2>3. QED
    BY <1>a, <1>b, <2>1, <2>2 DEF Progress
<1>4. ASSUME NEW d \in Days, SaveNormalized(r, d) PROVE Progress(r)'
  <2>1. /\ phase[r] = "saving" /\ phase'[r] \in {"linking", "normalized_conflict"}
        /\ target'[r] = target[r] /\ left'[r] = left[r] /\ cache' = cache
        /\ IsEarliest(d, left[r])
    BY <1>4 DEF SaveNormalized, Goto, TypeOK
  <2>2. \A t : BarDays(r, t)' = BarDays(r, t)
    BY <2>1, BarDaysFromCache
  <2>3. target[r] \in Targets /\ d \in BarDays(r, target[r]) /\ left[r] \subseteq Days
    BY <2>1 DEF Shape, ShapeOf, IsEarliest, TypeOK
  <2>4. phase'[r] = "linking" => normalized'[<<target[r], d>>] # None
    <3>1. BarOf(r, target[r], d) # None
      BY <2>3, BarOfIsBar, AnswersAssumption
    <3>2. QED
      BY <1>4, <2>3, <3>1 DEF SaveNormalized, Goto, TypeOK
  <2>5. \A e \in Days : IsEarliest(e, left[r]) => e = d
    BY <2>1, <2>3, CountsAssumption DEF IsEarliest, Days
  <2>6. QED
    BY <1>a, <1>b, <2>1, <2>2, <2>3, <2>4, <2>5 DEF Progress, IsEarliest
<1>5. ASSUME NEW d \in Days, Link(r, d) PROVE Progress(r)'
  <2>1. /\ phase[r] = "linking" /\ IsEarliest(d, left[r])
        /\ left'[r] = left[r] \ {d} /\ cache' = cache
        /\ edges' = edges \cup {Edge(r, target[r], d)}
        /\ UNCHANGED <<normalized, receipt>>
    BY <1>5 DEF Link, TypeOK
  <2>2. \A u : BarDays(r, u)' = BarDays(r, u)
    BY <2>1, BarDaysFromCache
  <2>3. PICK t \in Targets : t = target[r]
    BY <2>1 DEF Shape, ShapeOf
  <2>4. d \in BarDays(r, t)
    BY <2>1, <2>3 DEF Shape, ShapeOf, IsEarliest
  <2>5. Traced(r, t, d)'
    <3>1. Edge(r, t, d) = [run |-> r, raw |-> <<d, receipt[d]>>, child |-> <<t, d>>]
      BY <2>4, BarFromCatalog DEF Agreement
    <3>2. [run |-> r, raw |-> <<d, receipt[d]>>, child |-> <<t, d>>] \in edges'
      BY <2>1, <2>3, <3>1
    <3>3. normalized[<<t, d>>] # None
      BY <2>1, <2>3 DEF Progress
    <3>4. QED
      BY <2>1, <3>2, <3>3 DEF Traced
  <2>6. \A e \in BarDays(r, t) \ left'[r] : Traced(r, t, e)'
    BY <1>a, <1>b, <2>1, <2>3, <2>5 DEF Progress
  <2>7. \A u \in Targets : u < t => \A e \in BarDays(r, u) : Traced(r, u, e)'
    BY <1>a, <1>b, <2>1, <2>3 DEF Progress
  <2>8. CASE left[r] # {d}
    <3>1. phase'[r] = "saving" /\ target'[r] = t
      BY <1>5, <2>3, <2>8 DEF Link, Goto, TypeOK
    <3>2. QED
      BY <2>2, <2>6, <2>7, <3>1 DEF Progress
  <2>9. CASE left[r] = {d}
    <3>1. \A e \in BarDays(r, t) : Traced(r, t, e)'
      BY <2>1, <2>6, <2>9
    <3>2. CASE t < NumTargets
      <4>1. phase'[r] = "covering" /\ target'[r] = t + 1
        BY <1>5, <2>3, <2>9, <3>2 DEF Link, Goto, TypeOK
      <4>2. \A u \in Targets : u < t + 1 => u < t \/ u = t
        BY <2>3 DEF Targets
      <4>3. \A u \in Targets : u < t + 1 => \A e \in BarDays(r, u) : Traced(r, u, e)'
        BY <2>7, <3>1, <4>2
      <4>4. QED
        BY <2>2, <4>1, <4>3 DEF Progress
    <3>3. CASE ~(t < NumTargets)
      <4>1. phase'[r] = "writing" /\ target'[r] = t
        BY <1>5, <2>3, <2>9, <3>3 DEF Link, Goto, TypeOK
      <4>2. t = NumTargets
        BY <2>3, <3>3, CountsAssumption DEF Targets
      <4>3. QED
        BY <2>2, <2>7, <3>1, <4>1, <4>2 DEF Progress
    <3>4. QED
      BY <3>2, <3>3
  <2>10. QED
    BY <2>8, <2>9
<1>6. QED
  BY <1>1, <1>2, <1>3, <1>4, <1>5 DEF Step

\* A snapshot is written when all its rows are traced.
LEMMA WriteSnapshotWrites ==
    ASSUME TypeOK, Shape, Agreement, [Next]_vars, NEW r \in Runs, Progress(r), WriteSnapshot(r)
    PROVE  Written(r)'
<1> SUFFICES ASSUME NEW row \in snapshots'[r]
             PROVE  /\ Traced(r, row.target, row.day)'
                    /\ normalized'[<<row.target, row.day>>].value = row.value
  BY DEF Written
<1> DEFINE t == row.target
           d == row.day
<1>1. /\ phase[r] = "writing" /\ row \in Rows /\ d \in BarDays(r, t)
      /\ row.value = BarOf(r, t, d).value
  BY DEF WriteSnapshot, TypeOK
<1>2. t \in Targets /\ d \in Days
  BY <1>1 DEF Rows
<1>3. t < target[r] \/ t = target[r]
  BY <1>1, <1>2, CountsAssumption DEF Progress, Targets
<1>4. Traced(r, t, d)
  BY <1>1, <1>2, <1>3 DEF Progress
<1>5. normalized[<<t, d>>] = [value |-> canon[d][t], received |-> receipt[d]]
  BY <1>2, <1>4 DEF Traced, Agreement, NormalizedAgrees
<1>6. BarOf(r, t, d) = [value |-> canon[d][t], received |-> receipt[d]]
  BY <1>1, <1>2, BarFromCatalog DEF Agreement
<1>7. normalized[<<t, d>>].value = row.value
  BY <1>1, <1>5, <1>6
<1>8. QED
  BY <1>2, <1>4, <1>7, TracedKept

\* Every row of every snapshot can be traced to the canonical answer it came from,
\* whatever KRX answers and however many runs overlap or die.
THEOREM SnapshotTraceableTheorem == Spec => []SnapshotTraceable
<1> DEFINE TraceInv == \A r \in Runs : Progress(r) /\ Written(r)
<1>1. Init => TraceInv
  BY DEF Init, Progress, Written
<1>2. TypeOK /\ Shape /\ Agreement /\ TraceInv /\ [Next]_vars => TraceInv'
  <2> SUFFICES ASSUME TypeOK, Shape, Agreement, TraceInv, [Next]_vars, NEW q \in Runs
               PROVE  Progress(q)' /\ Written(q)'
    OBVIOUS
  <2>1. CASE UNCHANGED vars
    BY <2>1, ProgressKept, WrittenKept DEF vars, catalogs
  <2>2. ASSUME NEW d \in Days, Publish(d) \/ Revise(d) PROVE Progress(q)' /\ Written(q)'
    BY <2>2, ProgressKept, WrittenKept DEF Publish, Revise, catalogs
  <2>3. ASSUME NEW r \in Runs, Begin(r) \/ Blocked(r) \/ Step(r) \/ Fail(r)
        PROVE  Progress(q)' /\ Written(q)'
    <3>1. CASE q # r
      BY <2>3, <3>1, OtherRunsUntouched, ProgressKept, WrittenKept
    <3>2. CASE q = r
      <4>1. Progress(r)'
        BY <2>3, <3>2, ProgressOfStep
      <4>2. CASE WriteSnapshot(r)
        BY <3>2, <4>1, <4>2, WriteSnapshotWrites
      <4>3. CASE ~WriteSnapshot(r)
        <5>1. snapshots' = snapshots
          BY <2>3, <4>3 DEF catalogs, Step, Begin, Blocked, NextDay, TooFewDays, EnoughDays, Fetch,
             RateLimited, StoreRaw, PutRaw, RawConflict, Cover, Incomplete, SaveNormalized, Link,
             Fail
        <5>2. QED
          BY <3>2, <4>1, <5>1, WrittenKept
      <4>4. QED
        BY <4>2, <4>3
    <3>3. QED
      BY <3>1, <3>2
  <2>4. QED
    BY <2>1, <2>2, <2>3 DEF Next
<1>3. TypeOK /\ Agreement /\ TraceInv => SnapshotTraceable
  <2> SUFFICES ASSUME TypeOK, Agreement, TraceInv, NEW r \in Runs, NEW row \in snapshots[r]
               PROVE  LET d == row.day
                          child == <<row.target, d>>
                      IN  /\ normalized[child] = [value |-> row.value, received |-> receipt[d]]
                          /\ [run |-> r, raw |-> <<d, receipt[d]>>, child |-> child] \in edges
                          /\ canon[d] \notin {None, Empty} /\ canon[d][row.target] = row.value
    BY DEF SnapshotTraceable
  <2>1. row.target \in Targets /\ row.day \in Days
    BY DEF TypeOK, Rows
  <2>2. /\ Traced(r, row.target, row.day)
        /\ normalized[<<row.target, row.day>>].value = row.value
    BY DEF Written
  <2>3. /\ canon[row.day] \notin {None, Empty}
        /\ normalized[<<row.target, row.day>>] =
              [value |-> canon[row.day][row.target], received |-> receipt[row.day]]
    BY <2>1, <2>2 DEF Traced, Agreement, NormalizedAgrees
  <2>4. canon[row.day][row.target] = row.value
    BY <2>2, <2>3
  <2>5. QED
    BY <2>2, <2>3, <2>4 DEF Traced
<1>4. QED
  BY <1>1, <1>2, <1>3, TypeCorrect, AgreementTheorem, PTL DEF Spec

-----------------------------------------------------------------------------
(***************************************************************************)
(* Completeness.  The cache of a run holds exactly the weekdays it has     *)
(* asked for, from its cursor to its end date; only trading days have      *)
(* rows; and a target is passed only when it has a bar on each open day.   *)
(***************************************************************************)

Late == {"covering", "saving", "linking", "writing", "done"}

Asked(r) == {d \in Weekdays : cursor[r] <= d /\ d <= end[r]}

PrefetchOf(r) ==
    /\ phase[r] = "idle" => Cached(r) = {}
    /\ phase[r] = "seeking" => cursor[r] <= end[r] + 1
    /\ phase[r] \in {"fetching", "storing"} =>
          cursor[r] \in Asked(r) /\ Cached(r) = Asked(r) \ {cursor[r]}
    /\ phase[r] \in {"seeking"} \cup Late => Cached(r) = Asked(r)

CountOf(r) ==
    /\ phase[r] \in {"fetching", "storing"} => Cardinality(Open(r)) < MinDays
    /\ phase[r] = "seeking" => Cardinality(Open(r)) <= MinDays
    /\ phase[r] \in Late => Cardinality(Open(r)) = MinDays

\* The targets that run r has found to have a bar on each open day.
Passed(r) ==
    {t \in Targets : \/ phase[r] \in Late /\ t < target[r]
                     \/ phase[r] \in {"saving", "linking"} /\ t = target[r]
                     \/ phase[r] \in {"writing", "done"}}

RowsOf(r) == {row \in Rows : /\ row.day \in BarDays(r, row.target)
                             /\ row.value = BarOf(r, row.target, row.day).value}

CoverOf(r) ==
    /\ \A t \in Passed(r) : Open(r) \subseteq BarDays(r, t)
    /\ phase[r] = "writing" => target[r] = NumTargets
    /\ phase[r] = "done" => snapshots[r] = RowsOf(r)

OnlyTradingDays ==
    /\ \A d \in Days : krx[d] # Empty => d \in TradingDays
    /\ \A d \in Days : canon[d] \notin {None, Empty} => d \in TradingDays
    /\ \A r \in Runs : phase[r] = "storing" /\ answer[r] # Empty => cursor[r] \in TradingDays

CompleteInv ==
    /\ OnlyTradingDays
    /\ \A r \in Runs : PrefetchOf(r) /\ CountOf(r) /\ CoverOf(r)

Local(r) == <<phase[r], end[r], cursor[r], answer[r], cache[r], target[r], snapshots[r]>>

\* Only a step of a run changes what the run knows.
LEMMA OneRunMoves ==
    ASSUME TypeOK, [Next]_vars, NEW q \in Runs,
           ~(Begin(q) \/ Blocked(q) \/ Step(q) \/ Fail(q))
    PROVE  UNCHANGED Local(q)
<1>1. CASE UNCHANGED vars
  BY <1>1 DEF vars, catalogs, Local
<1>2. ASSUME NEW d \in Days, Publish(d) \/ Revise(d) PROVE UNCHANGED Local(q)
  BY <1>2 DEF Publish, Revise, catalogs, Local
<1>3. ASSUME NEW r \in Runs, r # q, Begin(r) \/ Blocked(r) \/ Step(r) \/ Fail(r)
      PROVE  UNCHANGED Local(q)
  <2>1. cache'[q] = cache[q] /\ snapshots'[q] = snapshots[q]
        /\ phase'[q] = phase[q] /\ target'[q] = target[q]
    BY <1>3, OtherRunsUntouched
  <2>2. end'[q] = end[q]
    BY <1>3 DEF TypeOK, Step, Begin, Blocked, NextDay, TooFewDays, EnoughDays, Fetch,
       RateLimited, StoreRaw, RawConflict, Cover, Incomplete, SaveNormalized, Link,
       WriteSnapshot, Fail
  <2>3. cursor'[q] = cursor[q]
    BY <1>3 DEF TypeOK, Step, Begin, Blocked, NextDay, TooFewDays, EnoughDays, Fetch,
       RateLimited, StoreRaw, RawConflict, Cover, Incomplete, SaveNormalized, Link,
       WriteSnapshot, Fail
  <2>4. answer'[q] = answer[q]
    BY <1>3 DEF TypeOK, Step, Begin, Blocked, NextDay, TooFewDays, EnoughDays, Fetch,
       RateLimited, StoreRaw, RawConflict, Cover, Incomplete, SaveNormalized, Link,
       WriteSnapshot, Fail
  <2>5. QED
    BY <2>1, <2>2, <2>3, <2>4 DEF Local
<1>4. QED
  BY <1>1, <1>2, <1>3 DEF Next

\* The days of a run are finitely many numbers.
LEMMA DayFacts ==
    ASSUME TypeOK, NEW r \in Runs
    PROVE  /\ Weekdays \subseteq Int /\ Days \subseteq Int /\ LastDay \in Nat /\ MinDays \in Nat \ {0}
           /\ NumTargets \in Nat \ {0} /\ Lookback \in Nat
           /\ end[r] \in Int /\ cursor[r] \in Int
           /\ Open(r) \subseteq Cached(r) /\ Cached(r) \subseteq Days
           /\ \A S \in SUBSET Days : IsFiniteSet(S)
<1>1. LastDay \in Nat /\ Lookback \in Nat
  BY CountsAssumption
<1>2. MinDays \in Nat \ {0} /\ NumTargets \in Nat \ {0}
  BY CountsAssumption
<1>3. Days \subseteq Int /\ Weekdays \subseteq Int
  BY <1>1, CalendarAssumption DEF Days
<1>4. IsFiniteSet(Days)
  BY <1>1, FS_Interval DEF Days
<1>5. \A S \in SUBSET Days : IsFiniteSet(S)
  BY <1>4, FS_Subset
<1>6. end[r] \in Int /\ cursor[r] \in Int
  <2>1. end[r] \in Days
    BY DEF TypeOK
  <2>2. cursor[r] \in 0..(LastDay + 1)
    BY DEF TypeOK
  <2>3. cursor[r] \in Int
    BY <1>1, <2>2
  <2>4. QED
    BY <1>3, <2>1, <2>3
<1>7. QED
  BY <1>1, <1>2, <1>3, <1>5, <1>6 DEF Open, Cached

\* A run that a step does not touch keeps its part of the invariant.
LEMMA CompleteKept ==
    ASSUME NEW r \in Runs, PrefetchOf(r), CountOf(r), CoverOf(r), UNCHANGED Local(r)
    PROVE  PrefetchOf(r)' /\ CountOf(r)' /\ CoverOf(r)'
<1>1. /\ Open(r)' = Open(r)
      /\ \A t : BarDays(r, t)' = BarDays(r, t)
      /\ \A t, d : BarOf(r, t, d)' = BarOf(r, t, d)
  BY BarDaysFromCache DEF Local
<1>2. Cached(r)' = Cached(r) /\ Asked(r)' = Asked(r)
  BY DEF Local, Cached, Asked
<1>3. Passed(r)' = Passed(r)
  BY DEF Local, Passed
<1>4. RowsOf(r)' = RowsOf(r)
  BY <1>1 DEF RowsOf
<1>5. PrefetchOf(r)'
  BY <1>2 DEF Local, PrefetchOf
<1>6. CountOf(r)'
  BY <1>1 DEF Local, CountOf
<1>7. CoverOf(r)'
  BY <1>1, <1>3, <1>4 DEF Local, CoverOf
<1>8. QED
  BY <1>5, <1>6, <1>7

\* Storing an answer adds the day of the cursor to the cache, open or closed.
LEMMA StoreRawCaches ==
    ASSUME TypeOK, Shape, TypeOK', Shape', NEW r \in Runs, StoreRaw(r),
           cursor[r] \notin Cached(r)
    PROVE  /\ Cached(r)' = Cached(r) \cup {cursor[r]}
           /\ Open(r)' \in {Open(r), Open(r) \cup {cursor[r]}}
<1> DEFINE c == cursor[r]
<1>1. c \in Days /\ canon'[c] # None
      /\ cache'[r][c] = [answer |-> canon'[c], received |-> receipt'[c]]
  BY StoreRawStep
<1>2. \A d \in Days : d # c => cache'[r][d] = cache[r][d]
  BY StoreRawStep
<1>3. canon'[c] \in Answers /\ receipt'[c] \in Runs
  BY <1>1 DEF TypeOK, Shape
<1>4. cache'[r][c] \in Fetched
  BY <1>1, <1>3 DEF Fetched
<1>5. cache'[r][c] # None
  BY <1>4, AnswersAssumption
<1> HIDE DEF c
<1>6. Cached(r)' = Cached(r) \cup {c}
  BY <1>1, <1>2, <1>5 DEF Cached
<1>7. \A d \in Days : d # c => (d \in Open(r)' <=> d \in Open(r))
  BY <1>2, <1>6 DEF Open, Cached
<1>8. Open(r)' \subseteq Days /\ Open(r) \subseteq Days
  BY DEF Open, Cached
<1>9. c = cursor[r] /\ c \notin Open(r)
  BY DEF c, Open
<1>10. Open(r)' \in {Open(r), Open(r) \cup {c}}
  BY <1>7, <1>8, <1>9
<1>11. QED
  BY <1>6, <1>9, <1>10

\* The prefetch: each step asks for the next weekday below the cursor.
LEMMA PrefetchOfStep ==
    ASSUME TypeOK, Shape, TypeOK', Shape', NEW r \in Runs,
           PrefetchOf(r), Begin(r) \/ Blocked(r) \/ Step(r) \/ Fail(r)
    PROVE  PrefetchOf(r)'
<1> USE DEF Goto, market, catalogs
<1>f. /\ Weekdays \subseteq Int /\ end[r] \in Int /\ cursor[r] \in Int
      /\ end'[r] \in Int /\ cursor'[r] \in Int
  <2>1. Weekdays \subseteq Int /\ end[r] \in Int /\ cursor[r] \in Int
    BY DayFacts
  <2>2. end'[r] \in Int
    BY CountsAssumption DEF TypeOK, Days
  <2>3. cursor'[r] \in Int
    BY CountsAssumption DEF TypeOK
  <2>4. QED
    BY <2>1, <2>2, <2>3
<1>1. CASE Begin(r)
  <2>1. /\ phase[r] = "idle" /\ phase'[r] = "seeking" /\ cursor'[r] = end'[r] + 1
        /\ cache' = cache
    BY <1>1 DEF Begin, TypeOK
  <2>2. Cached(r)' = {}
    BY <2>1 DEF PrefetchOf, Cached
  <2>3. \A d \in Weekdays : ~(cursor'[r] <= d /\ d <= end'[r])
    BY <1>f, <2>1
  <2>4. Asked(r)' = {}
    BY <2>3 DEF Asked
  <2>5. QED
    BY <1>f, <2>1, <2>2, <2>4 DEF PrefetchOf, Late
<1>2. CASE Blocked(r) \/ TooFewDays(r) \/ RawConflict(r) \/ Incomplete(r) \/ Fail(r)
  <2>1. phase'[r] \in Over \ {"done"}
    BY <1>2 DEF Blocked, TooFewDays, RawConflict, Incomplete, Fail, TypeOK, Over
  <2>2. QED
    BY <2>1 DEF PrefetchOf, Late, Over
<1>3. CASE NextDay(r)
  <2>1. /\ phase[r] = "seeking" /\ phase'[r] = "fetching" /\ IsLatest(cursor'[r], Older(r))
        /\ cache' = cache /\ end' = end
    BY <1>3 DEF NextDay, TypeOK
  <2>2. /\ cursor'[r] \in Weekdays /\ end[r] - Lookback < cursor'[r] /\ cursor'[r] < cursor[r]
        /\ \A d \in Weekdays : end[r] - Lookback < d /\ d < cursor[r] => d <= cursor'[r]
    BY <2>1 DEF IsLatest, Older
  <2>3. cursor[r] <= end[r] + 1 /\ Cached(r) = Asked(r)
    BY <2>1 DEF PrefetchOf
  <2>4. Lookback \in Nat
    BY DayFacts
  <2>5. cursor'[r] \in Asked(r)'
    BY <1>f, <2>1, <2>2, <2>3 DEF Asked
  <2>6. ASSUME NEW d \in Weekdays
        PROVE  d \in Asked(r) <=> d \in Asked(r)' /\ d # cursor'[r]
    <3>1. d \in Int
      BY <1>f
    <3>2. cursor[r] <= d => cursor'[r] <= d /\ d # cursor'[r]
      BY <1>f, <2>2, <3>1
    <3>3. cursor'[r] <= d /\ d # cursor'[r] => cursor[r] <= d
      BY <1>f, <2>2, <2>4, <3>1
    <3>4. QED
      BY <2>1, <3>2, <3>3 DEF Asked
  <2>7. Asked(r) = Asked(r)' \ {cursor'[r]}
    BY <2>6 DEF Asked
  <2>8. Cached(r)' = Cached(r)
    BY <2>1 DEF Cached
  <2>9. QED
    BY <2>1, <2>3, <2>5, <2>7, <2>8 DEF PrefetchOf, Late
<1>4. CASE StoreRaw(r)
  <2>1. /\ phase[r] = "storing" /\ phase'[r] = "seeking" /\ cursor' = cursor /\ end' = end
    BY <1>4 DEF StoreRaw, TypeOK
  <2>2. cursor[r] \in Asked(r) /\ Cached(r) = Asked(r) \ {cursor[r]}
    BY <2>1 DEF PrefetchOf
  <2>3. Cached(r)' = Cached(r) \cup {cursor[r]}
    BY <1>4, <2>2, StoreRawCaches
  <2>4. Asked(r)' = Asked(r)
    BY <2>1 DEF Asked
  <2>5. Cached(r)' = Asked(r)'
    BY <2>2, <2>3, <2>4
  <2>6. cursor[r] <= end[r] + 1
    BY <1>f, <2>2 DEF Asked
  <2>7. QED
    BY <2>1, <2>5, <2>6 DEF PrefetchOf, Late
<1>5. CASE \/ EnoughDays(r) \/ Fetch(r) \/ RateLimited(r) \/ Cover(r) \/ WriteSnapshot(r)
           \/ \E d \in Days : SaveNormalized(r, d) \/ Link(r, d)
  <2>1. cache' = cache /\ cursor' = cursor /\ end' = end
    BY <1>5 DEF EnoughDays, Fetch, RateLimited, Cover, WriteSnapshot, SaveNormalized, Link
  <2>2. Cached(r)' = Cached(r) /\ Asked(r)' = Asked(r)
    BY <2>1 DEF Cached, Asked
  <2>3. \/ phase[r] \in {"seeking"} \cup Late /\ phase'[r] \in Late
        \/ phase[r] = "fetching" /\ phase'[r] \in {"fetching", "storing"}
        \/ phase'[r] \in Over \ {"done"}
    <3>1. CASE EnoughDays(r) \/ Fetch(r) \/ RateLimited(r) \/ Cover(r) \/ WriteSnapshot(r)
      BY <3>1 DEF EnoughDays, Fetch, RateLimited, Cover, WriteSnapshot, TypeOK, Late, Over
    <3>2. ASSUME NEW d \in Days, SaveNormalized(r, d) \/ Link(r, d)
          PROVE  phase[r] \in Late /\ phase'[r] \in Late \cup {"normalized_conflict"}
      BY <3>2 DEF SaveNormalized, Link, TypeOK, Late
    <3>3. QED
      BY <1>5, <3>1, <3>2 DEF Over
  <2>4. QED
    BY <2>1, <2>2, <2>3 DEF PrefetchOf, Late, Over
<1>6. QED
  BY <1>1, <1>2, <1>3, <1>4, <1>5 DEF Step

\* The days with rows: a further one is looked for only while there are too few.
LEMMA CountOfStep ==
    ASSUME TypeOK, Shape, TypeOK', Shape', NEW r \in Runs, PrefetchOf(r), CountOf(r),
           Begin(r) \/ Blocked(r) \/ Step(r) \/ Fail(r)
    PROVE  CountOf(r)'
<1> USE DEF Goto, market, catalogs
<1>f. /\ IsFiniteSet(Open(r)) /\ Cardinality(Open(r)) \in Nat /\ MinDays \in Nat \ {0}
  BY DayFacts, FS_CardinalityType
<1>1. CASE Begin(r)
  <2>1. phase[r] = "idle" /\ phase'[r] = "seeking" /\ cache' = cache
    BY <1>1 DEF Begin, TypeOK
  <2>2. Open(r)' = {}
    BY <2>1 DEF PrefetchOf, Cached, Open
  <2>3. Cardinality(Open(r)') = 0
    BY <2>2, FS_EmptySet
  <2>4. QED
    BY <1>f, <2>1, <2>3 DEF CountOf, Late
<1>2. CASE Blocked(r) \/ TooFewDays(r) \/ RawConflict(r) \/ Incomplete(r) \/ Fail(r)
  <2>1. phase'[r] \in Over \ {"done"}
    BY <1>2 DEF Blocked, TooFewDays, RawConflict, Incomplete, Fail, TypeOK, Over
  <2>2. QED
    BY <2>1 DEF CountOf, Late, Over
<1>3. CASE StoreRaw(r)
  <2>1. phase[r] = "storing" /\ phase'[r] = "seeking"
    BY <1>3 DEF StoreRaw, TypeOK
  <2>2. cursor[r] \notin Cached(r) /\ Cardinality(Open(r)) < MinDays
    BY <2>1 DEF PrefetchOf, CountOf
  <2>3. Open(r)' \in {Open(r), Open(r) \cup {cursor[r]}}
    BY <1>3, <2>2, StoreRawCaches
  <2>4. Cardinality(Open(r) \cup {cursor[r]}) \in {Cardinality(Open(r)), Cardinality(Open(r)) + 1}
    BY <1>f, FS_AddElement
  <2>5. Cardinality(Open(r)') <= MinDays
    BY <1>f, <2>2, <2>3, <2>4
  <2>6. QED
    BY <2>1, <2>5 DEF CountOf, Late
<1>4. CASE \/ NextDay(r) \/ EnoughDays(r) \/ Fetch(r) \/ RateLimited(r) \/ Cover(r)
           \/ WriteSnapshot(r) \/ \E d \in Days : SaveNormalized(r, d) \/ Link(r, d)
  <2>1. cache' = cache
    BY <1>4 DEF NextDay, EnoughDays, Fetch, RateLimited, Cover, WriteSnapshot, SaveNormalized,
                Link
  <2>2. Open(r)' = Open(r)
    BY <2>1, BarDaysFromCache
  <2>3. \/ phase[r] \in Late /\ phase'[r] \in Late
        \/ phase[r] = "seeking" /\ phase'[r] = "covering" /\ Cardinality(Open(r)) >= MinDays
        \/ phase[r] = "seeking" /\ phase'[r] = "fetching" /\ Cardinality(Open(r)) < MinDays
        \/ phase[r] = "fetching" /\ phase'[r] \in {"fetching", "storing"}
        \/ phase'[r] \in Over \ {"done"}
    <3>1. CASE \/ NextDay(r) \/ EnoughDays(r) \/ Fetch(r) \/ RateLimited(r) \/ Cover(r)
               \/ WriteSnapshot(r)
      BY <3>1 DEF NextDay, EnoughDays, Fetch, RateLimited, Cover, WriteSnapshot, TypeOK, Late,
                  Over
    <3>2. ASSUME NEW d \in Days, SaveNormalized(r, d) \/ Link(r, d)
          PROVE  phase[r] \in Late /\ phase'[r] \in Late \cup {"normalized_conflict"}
      BY <3>2 DEF SaveNormalized, Link, TypeOK, Late
    <3>3. QED
      BY <1>4, <3>1, <3>2 DEF Over
  <2>4. QED
    BY <1>f, <2>2, <2>3 DEF CountOf, Late, Over
<1>5. QED
  BY <1>1, <1>2, <1>3, <1>4 DEF Step

\* A target is passed by finding it a bar on each open day.
LEMMA CoverOfStep ==
    ASSUME TypeOK, Shape, TypeOK', Shape', NEW r \in Runs, PrefetchOf(r), CoverOf(r),
           Begin(r) \/ Blocked(r) \/ Step(r) \/ Fail(r)
    PROVE  CoverOf(r)'
<1> USE DEF Goto, market, catalogs
<1>1. CASE \/ Begin(r) \/ Blocked(r) \/ NextDay(r) \/ TooFewDays(r) \/ Fetch(r) \/ RateLimited(r)
           \/ StoreRaw(r) \/ RawConflict(r) \/ Incomplete(r) \/ Fail(r)
  <2>1. phase'[r] \notin Late
    BY <1>1 DEF TypeOK, Late, Begin, Blocked, NextDay, TooFewDays, Fetch, RateLimited, StoreRaw,
       RawConflict, Incomplete, Fail
  <2>2. Passed(r)' = {}
    BY <2>1 DEF Passed, Late
  <2>3. QED
    BY <2>1, <2>2 DEF CoverOf, Late
<1>2. CASE EnoughDays(r)
  <2>1. phase'[r] = "covering" /\ target'[r] = 1
    BY <1>2 DEF EnoughDays, TypeOK
  <2>2. ~\E t \in Targets : t < 1
    BY DEF Targets
  <2>3. Passed(r)' = {}
    BY <2>1, <2>2 DEF Passed
  <2>4. QED
    BY <2>1, <2>3 DEF CoverOf
<1>3. CASE Cover(r) \/ WriteSnapshot(r) \/ \E d \in Days : SaveNormalized(r, d) \/ Link(r, d)
  <2>1. cache' = cache
    BY <1>3 DEF Cover, WriteSnapshot, SaveNormalized, Link
  <2>2. /\ Open(r)' = Open(r)
        /\ \A t : BarDays(r, t)' = BarDays(r, t)
        /\ \A t, d : BarOf(r, t, d)' = BarOf(r, t, d)
    BY <2>1, BarDaysFromCache
  <2>3. phase[r] \in {"covering", "saving", "linking", "writing"} /\ target[r] \in Targets
    BY <1>3 DEF Cover, WriteSnapshot, SaveNormalized, Link, Shape, ShapeOf
  <2>4. NumTargets \in Nat \ {0} /\ \A t \in Targets : t \in Int /\ 1 <= t /\ t <= NumTargets
    BY CountsAssumption DEF Targets
  <2>5. CASE Cover(r)
    <3>1. phase[r] = "covering" /\ phase'[r] = "saving" /\ target'[r] = target[r] /\ Covered(r)
      BY <2>5 DEF Cover, TypeOK
    <3>2. Open(r) \subseteq BarDays(r, target[r])
      <4>1. Open(r) \subseteq Span(r) \ Closed(r)
        <5>1. Open(r) \subseteq Weekdays
          BY <3>1 DEF PrefetchOf, Late, Asked, Open
        <5>2. \A d \in Open(r) : d <= d
          BY DayFacts
        <5>3. QED
          BY <5>1, <5>2 DEF Span, Closed
      <4>2. QED
        BY <3>1, <4>1 DEF Covered
    <3>3. Passed(r)' \subseteq Passed(r) \cup {target[r]}
      BY <3>1 DEF Passed, Late
    <3>4. QED
      BY <2>2, <3>1, <3>2, <3>3 DEF CoverOf
  <2>6. ASSUME NEW d \in Days, SaveNormalized(r, d) PROVE CoverOf(r)'
    <3>1. /\ phase[r] = "saving" /\ phase'[r] \in {"linking", "normalized_conflict"}
          /\ target'[r] = target[r]
      BY <2>6 DEF SaveNormalized, TypeOK
    <3>2. Passed(r)' \subseteq Passed(r)
      BY <3>1 DEF Passed, Late
    <3>3. QED
      BY <2>2, <3>1, <3>2 DEF CoverOf
  <2>7. ASSUME NEW d \in Days, Link(r, d) PROVE CoverOf(r)'
    <3>1. /\ phase[r] = "linking"
          /\ \/ phase'[r] = "saving" /\ target'[r] = target[r]
             \/ phase'[r] = "covering" /\ target'[r] = target[r] + 1
             \/ phase'[r] = "writing" /\ target'[r] = target[r] /\ ~(target[r] < NumTargets)
      BY <2>7 DEF Link, TypeOK
    <3>2. phase'[r] = "writing" => target[r] = NumTargets
      BY <2>3, <2>4, <3>1
    <3>3. ASSUME NEW t \in Passed(r)' PROVE t \in Passed(r)
      <4>1. t \in Targets /\ t <= target[r]
        BY <2>3, <2>4, <3>1, <3>2 DEF Passed, Late
      <4>2. QED
        BY <2>3, <2>4, <3>1, <4>1 DEF Passed, Late
    <3>4. QED
      BY <2>2, <3>1, <3>2, <3>3 DEF CoverOf
  <2>8. CASE WriteSnapshot(r)
    <3>1. /\ phase[r] = "writing" /\ phase'[r] = "done" /\ target'[r] = target[r]
          /\ snapshots'[r] = RowsOf(r)
      BY <2>8 DEF WriteSnapshot, TypeOK, RowsOf
    <3>2. RowsOf(r)' = RowsOf(r)
      BY <2>2 DEF RowsOf
    <3>3. Passed(r)' \subseteq Passed(r)
      BY <3>1 DEF Passed, Late
    <3>4. QED
      BY <2>2, <3>1, <3>2, <3>3 DEF CoverOf
  <2>9. QED
    BY <1>3, <2>5, <2>6, <2>7, <2>8
<1>4. QED
  BY <1>1, <1>2, <1>3 DEF Step

\* KRX answers with rows on trading days only; so do the answers on their way and
\* the catalog.
LEMMA OnlyTradingDaysStep ==
    ASSUME TypeOK, Shape, OnlyTradingDays, [Next]_vars
    PROVE  OnlyTradingDays'
<1> USE DEF Goto, market, catalogs
<1>1. ASSUME NEW d \in Days, krx'[d] # Empty PROVE d \in TradingDays
  <2>1. CASE UNCHANGED krx
    BY <1>1, <2>1 DEF OnlyTradingDays
  <2>2. ASSUME NEW e \in Days, Publish(e) \/ Revise(e) PROVE d \in TradingDays
    <3>1. /\ \A x \in Days : x # e => krx'[x] = krx[x]
          /\ e \in TradingDays
      BY <2>2 DEF Publish, Revise, TypeOK, OnlyTradingDays
    <3>2. QED
      BY <1>1, <3>1 DEF OnlyTradingDays
  <2>3. ASSUME NEW r \in Runs, Begin(r) \/ Blocked(r) \/ Step(r) \/ Fail(r)
        PROVE  UNCHANGED krx
    BY <2>3 DEF Step, Begin, Blocked, NextDay, TooFewDays, EnoughDays, Fetch, RateLimited,
       StoreRaw, RawConflict, Cover, Incomplete, SaveNormalized, Link, WriteSnapshot, Fail
  <2>4. QED
    BY <2>1, <2>2, <2>3 DEF Next, vars
<1>2. ASSUME NEW d \in Days, canon'[d] \notin {None, Empty} PROVE d \in TradingDays
  <2>1. CASE \A r \in Runs : ~StoreRaw(r)
    BY <1>2, <2>1, OnlyStoreRawWritesRaw DEF OnlyTradingDays
  <2>2. ASSUME NEW r \in Runs, StoreRaw(r) PROVE d \in TradingDays
    <3>1. canon'[d] = canon[d] \/ (d = cursor[r] /\ canon'[d] = answer[r])
      BY <2>2, StoreRawStep DEF StoreRaw, PutRaw, Store!Put, TypeOK
    <3>2. phase[r] = "storing"
      BY <2>2 DEF StoreRaw
    <3>3. QED
      BY <1>2, <3>1, <3>2 DEF OnlyTradingDays
  <2>3. QED
    BY <2>1, <2>2
<1>3. ASSUME NEW r \in Runs, phase'[r] = "storing", answer'[r] # Empty
      PROVE  cursor'[r] \in TradingDays
  <2>1. CASE ~(Begin(r) \/ Blocked(r) \/ Step(r) \/ Fail(r))
    BY <1>3, <2>1, OneRunMoves DEF Local, OnlyTradingDays
  <2>2. CASE Fetch(r)
    <3>1. phase[r] = "fetching" /\ answer'[r] = krx[cursor[r]] /\ cursor' = cursor
      BY <2>2 DEF Fetch, TypeOK
    <3>2. cursor[r] \in Days
      BY <3>1 DEF Shape, ShapeOf
    <3>3. QED
      BY <1>3, <3>1, <3>2 DEF OnlyTradingDays
  <2>3. CASE \/ Begin(r) \/ Blocked(r) \/ NextDay(r) \/ TooFewDays(r) \/ EnoughDays(r)
             \/ RateLimited(r) \/ StoreRaw(r) \/ RawConflict(r) \/ Cover(r) \/ Incomplete(r)
             \/ WriteSnapshot(r) \/ Fail(r)
    <3>1. phase'[r] # "storing"
      BY <2>3 DEF Begin, Blocked, NextDay, TooFewDays, EnoughDays, RateLimited, StoreRaw,
         RawConflict, Cover, Incomplete, WriteSnapshot, Fail, TypeOK
    <3>2. QED
      BY <1>3, <3>1
  <2>4. ASSUME NEW d \in Days, SaveNormalized(r, d) \/ Link(r, d) PROVE phase'[r] # "storing"
    BY <2>4 DEF SaveNormalized, Link, TypeOK
  <2>5. QED
    BY <1>3, <2>1, <2>2, <2>3, <2>4 DEF Step
<1>4. QED
  BY <1>1, <1>2, <1>3 DEF OnlyTradingDays

\* Every run holds exactly what it has asked for, and has passed what it has covered.
THEOREM CompleteInvHolds == Spec => []CompleteInv
<1>1. Init => CompleteInv
  <2> SUFFICES ASSUME Init PROVE CompleteInv
    OBVIOUS
  <2>1. OnlyTradingDays
    BY CalendarAssumption DEF Init, OnlyTradingDays
  <2>2. ASSUME NEW r \in Runs PROVE PrefetchOf(r) /\ CountOf(r) /\ CoverOf(r)
    <3>1. phase[r] = "idle" /\ Cached(r) = {}
      BY DEF Init, Cached
    <3>2. Passed(r) = {}
      BY <3>1 DEF Passed, Late
    <3>3. QED
      BY <3>1, <3>2 DEF PrefetchOf, CountOf, CoverOf, Late
  <2>3. QED
    BY <2>1, <2>2 DEF CompleteInv
<1>2. /\ TypeOK /\ Shape /\ TypeOK' /\ Shape' /\ CompleteInv /\ [Next]_vars
      => CompleteInv'
  <2> SUFFICES ASSUME TypeOK, Shape, TypeOK', Shape', CompleteInv, [Next]_vars
               PROVE  CompleteInv'
    OBVIOUS
  <2>1. OnlyTradingDays'
    BY OnlyTradingDaysStep DEF CompleteInv
  <2>2. ASSUME NEW r \in Runs PROVE PrefetchOf(r)' /\ CountOf(r)' /\ CoverOf(r)'
    <3>1. PrefetchOf(r) /\ CountOf(r) /\ CoverOf(r)
      BY DEF CompleteInv
    <3>2. CASE Begin(r) \/ Blocked(r) \/ Step(r) \/ Fail(r)
      BY <3>1, <3>2, PrefetchOfStep, CountOfStep, CoverOfStep
    <3>3. CASE ~(Begin(r) \/ Blocked(r) \/ Step(r) \/ Fail(r))
      BY <3>1, <3>3, OneRunMoves, CompleteKept
    <3>4. QED
      BY <3>2, <3>3
  <2>3. QED
    BY <2>1, <2>2 DEF CompleteInv
<1>3. QED
  BY <1>1, <1>2, TypeCorrect, PTL DEF Spec

\* After the prefetch every weekday that get_bars reads is in the cache of the run,
\* so no run asks KRX for a day twice.
THEOREM OneRequestPerDayTheorem == Spec => []OneRequestPerDay
<1>1. TypeOK /\ CompleteInv => OneRequestPerDay
  <2> SUFFICES ASSUME TypeOK, CompleteInv, NEW r \in Runs,
                      phase[r] \in {"covering", "saving", "linking", "writing"},
                      NEW d \in Span(r)
               PROVE  d \in Cached(r)
    BY DEF OneRequestPerDay
  <2>1. Cached(r) = Asked(r)
    BY DEF CompleteInv, PrefetchOf, Late
  <2>2. PICK first \in Open(r), last \in Open(r) : d \in Weekdays /\ first <= d /\ d <= last
    BY DEF Span
  <2>3. cursor[r] <= first /\ last <= end[r]
    BY <2>1, <2>2 DEF Open, Asked
  <2>4. {d, first, last, cursor[r], end[r]} \subseteq Int
    BY <2>2, DayFacts
  <2>5. cursor[r] <= d /\ d <= end[r]
    BY <2>2, <2>3, <2>4
  <2>6. QED
    BY <2>1, <2>2, <2>5 DEF Asked
<1>2. QED
  BY <1>1, TypeCorrect, CompleteInvHolds, PTL

\* The MinDays latest trading days are those with fewer than MinDays after them.
LEMMA LatestAreOpen ==
    ASSUME NEW S \in SUBSET Days, NEW T \in SUBSET S, NEW c \in Int,
           Cardinality(T) = MinDays, \A d \in S : d \in T <=> c <= d
    PROVE  {d \in S : Cardinality({e \in S : e > d}) < MinDays} = T
<1>1. S \subseteq Int /\ \A U \in SUBSET S : IsFiniteSet(U)
  <2>1. LastDay \in Nat
    BY CountsAssumption
  <2>2. IsFiniteSet(Days)
    BY <2>1, FS_Interval DEF Days
  <2>3. IsFiniteSet(S)
    BY <2>2, FS_Subset
  <2>4. S \subseteq Int
    BY <2>1 DEF Days
  <2>5. QED
    BY <2>3, <2>4, FS_Subset
<1>2. ASSUME NEW d \in S, d \in T PROVE Cardinality({e \in S : e > d}) < MinDays
  <2> DEFINE After == {e \in S : e > d}
  <2>1. After \subseteq T /\ d \notin After
    <3>1. \A e \in S : e \in Int
      BY <1>1
    <3>2. c <= d
      BY <1>2
    <3>3. \A e \in S : e > d => c <= e
      BY <3>1, <3>2
    <3>4. ~(d > d)
      BY <3>1
    <3>5. QED
      BY <3>3, <3>4
  <2>2. IsFiniteSet(T) /\ IsFiniteSet(After)
    BY <1>1
  <2>3. Cardinality(After) <= Cardinality(T) /\ (Cardinality(T) = Cardinality(After) => T = After)
    BY <2>1, <2>2, FS_Subset
  <2>4. Cardinality(After) # Cardinality(T)
    BY <1>2, <2>1, <2>3
  <2>5. Cardinality(After) \in Nat /\ Cardinality(T) \in Nat
    BY <2>2, FS_CardinalityType
  <2> HIDE DEF After
  <2>6. Cardinality(After) < MinDays
    BY <2>3, <2>4, <2>5
  <2>7. QED
    BY <2>6 DEF After
<1>3. ASSUME NEW d \in S, d \notin T PROVE ~(Cardinality({e \in S : e > d}) < MinDays)
  <2> DEFINE After == {e \in S : e > d}
  <2>1. T \subseteq After
    BY <1>1, <1>3
  <2>2. IsFiniteSet(T) /\ IsFiniteSet(After)
    BY <1>1
  <2>3. Cardinality(T) <= Cardinality(After)
    BY <2>1, <2>2, FS_Subset
  <2>4. Cardinality(After) \in Nat /\ Cardinality(T) \in Nat
    BY <2>2, FS_CardinalityType
  <2> HIDE DEF After
  <2>5. ~(Cardinality(After) < MinDays)
    BY <2>3, <2>4
  <2>6. QED
    BY <2>5 DEF After
<1>4. QED
  BY <1>2, <1>3

\* A completed snapshot holds every target on the MinDays latest trading days up to
\* its end date, unless KRX answered one of them without rows.
THEOREM SnapshotCompleteTheorem == Spec => []SnapshotComplete
<1>1. TypeOK /\ Agreement /\ CompleteInv => SnapshotComplete
  <2> SUFFICES ASSUME TypeOK, Agreement, CompleteInv, NEW r \in Runs, phase[r] = "done",
                      Closed(r) \cap TradingDays = {}
               PROVE  LET days == {d \in TradingDays : d <= end[r]}
                          latest == {d \in days : Cardinality({e \in days : e > d}) < MinDays}
                      IN  {<<row.target, row.day>> : row \in snapshots[r]} = Targets \X latest
    BY DEF SnapshotComplete
  <2> DEFINE days == {d \in TradingDays : d <= end[r]}
             latest == {d \in days : Cardinality({e \in days : e > d}) < MinDays}
  <2>1. /\ Cached(r) = Asked(r) /\ Cardinality(Open(r)) = MinDays
        /\ \A t \in Targets : Open(r) \subseteq BarDays(r, t)
        /\ snapshots[r] = RowsOf(r)
    BY DEF CompleteInv, PrefetchOf, CountOf, CoverOf, Passed, Late
  <2>2. Open(r) \subseteq TradingDays
    <3> SUFFICES ASSUME NEW d \in Open(r) PROVE d \in TradingDays
      OBVIOUS
    <3>1. d \in Days /\ cache[r][d] # None /\ cache[r][d].answer # Empty
      BY DEF Open, Cached
    <3>2. canon[d] # None /\ cache[r][d].answer = canon[d]
      <4>1. canon[d] # None
            /\ cache[r][d] = [answer |-> canon[d], received |-> receipt[d]]
        BY <3>1 DEF Agreement, CacheAgrees
      <4>2. QED
        BY <4>1
    <3>3. QED
      BY <3>1, <3>2 DEF CompleteInv, OnlyTradingDays
  <2>3. Open(r) \subseteq days
    BY <2>1, <2>2 DEF Open, Asked
  <2>4. ASSUME NEW d \in days PROVE d \in Open(r) <=> cursor[r] <= d
    <3>1. d \in Open(r) => cursor[r] <= d
      BY <2>1 DEF Open, Asked
    <3>2. cursor[r] <= d => d \in Cached(r)
      BY <2>1, CalendarAssumption DEF Asked
    <3>3. d \in Cached(r) => d \in Open(r)
      BY DEF Closed
    <3>4. QED
      BY <3>1, <3>2, <3>3
  <2>5. latest = Open(r)
    <3>1. days \in SUBSET Days /\ Open(r) \in SUBSET days /\ cursor[r] \in Int
      BY <2>3, DayFacts, CalendarAssumption
    <3> HIDE DEF days
    <3>2. QED
      BY <2>1, <2>4, <3>1, LatestAreOpen
  <2> HIDE DEF latest, days
  <2>6. ASSUME NEW row \in snapshots[r] PROVE <<row.target, row.day>> \in Targets \X Open(r)
    BY <2>1 DEF RowsOf, Rows, BarDays
  <2>7. ASSUME NEW t \in Targets, NEW d \in Open(r)
        PROVE  \E row \in snapshots[r] : <<row.target, row.day>> = <<t, d>>
    <3> DEFINE row == [target |-> t, day |-> d, value |-> BarOf(r, t, d).value]
    <3>1. d \in BarDays(r, t) /\ d \in Days
      BY <2>1 DEF Open, Cached
    <3>2. BarOf(r, t, d) \in Bars
      BY <3>1, BarOfIsBar
    <3>3. row \in Rows
      BY <3>1, <3>2 DEF Rows, Bars
    <3>4. row \in RowsOf(r)
      BY <3>1, <3>3 DEF RowsOf
    <3>5. QED
      BY <2>1, <3>4
  <2>8. {<<row.target, row.day>> : row \in snapshots[r]} = Targets \X Open(r)
    BY <2>6, <2>7
  <2>9. QED
    BY <2>5, <2>8 DEF latest, days
<1>2. QED
  BY <1>1, TypeCorrect, AgreementTheorem, CompleteInvHolds, PTL

=============================================================================
