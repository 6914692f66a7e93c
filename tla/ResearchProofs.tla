--------------------------- MODULE ResearchProofs ----------------------------
(***************************************************************************)
(* Proofs about the commands of the research program, one section each,    *)
(* for any days, answers, files and models a command may be given.         *)
(***************************************************************************)
EXTENDS H1Live, FlowStudy, Prefalsification, OfiValidation, H1Replay, WalkForward, OfiFeature,
        RiskSizing, Sums

-----------------------------------------------------------------------------
(***************************************************************************)
(* The elements of a finite set of naturals in their order.                *)
(***************************************************************************)

LEMMA LastIsThere ==
    ASSUME NEW S, IsFiniteSet(S), S \subseteq Nat, S # {}
    PROVE  \E d \in S : \A e \in S : e <= d
<1> DEFINE B == {T \in SUBSET S : T # {} /\ ~\E d \in T : \A e \in T : e <= d}
<1>1. SUFFICES ASSUME B # {} PROVE FALSE
  OBVIOUS
<1>2. PICK T \in B : \A U \in SUBSET T : U # T => U \notin B
  <2>1. B \in SUBSET SUBSET S
    OBVIOUS
  <2> HIDE DEF B
  <2> QED BY <1>1, <2>1, SmallestSubset
<1>3. PICK x \in T : TRUE
  OBVIOUS
<1>4. \A e \in T : e \in Nat
  OBVIOUS
<1>5. T \ {x} # {}
  <2> SUFFICES ASSUME T = {x} PROVE FALSE
    BY <1>3
  <2> QED BY <1>3, <1>4
<1>6. PICK d \in T \ {x} : \A e \in T \ {x} : e <= d
  <2>1. T \ {x} \in SUBSET T /\ T \ {x} # T
    BY <1>3
  <2>2. T \ {x} \notin B
    BY <1>2, <2>1
  <2> QED BY <1>5, <2>2
<1>7. \E m \in T : \A e \in T : e <= m
  <2>1. CASE x <= d
    BY <1>6, <2>1
  <2>2. CASE ~(x <= d)
    <3>1. d <= x /\ x \in Nat /\ d \in Nat
      BY <1>3, <1>4, <2>2
    <3>2. \A e \in T : e <= x
      BY <1>4, <1>6, <3>1
    <3> QED BY <1>3, <3>2
  <2> QED BY <2>1, <2>2
<1> QED BY <1>7

\* Of a finite set some element is the i-th.
LEMMA ElementOfRank ==
    ASSUME NEW S, IsFiniteSet(S), S \subseteq Nat, NEW i \in 1..Cardinality(S)
    PROVE  \E d \in S : Cardinality(UpTo(S, d)) = i
<1> DEFINE T == {d \in S : Cardinality(UpTo(S, d)) >= i}
<1>1. \A d \in S : UpTo(S, d) \subseteq S /\ IsFiniteSet(UpTo(S, d))
                   /\ Cardinality(UpTo(S, d)) \in Nat
  BY FS_Subset, FS_CardinalityType DEF UpTo
<1>2. Cardinality(S) \in Nat /\ S # {}
  BY FS_CardinalityType, FS_EmptySet
<1>3. T # {}
  <2>1. PICK d \in S : \A e \in S : e <= d
    BY <1>2, LastIsThere
  <2>2. UpTo(S, d) = S
    BY <2>1 DEF UpTo
  <2> QED BY <1>2, <2>2
<1>4. PICK m \in T : \A u \in T : <<u, m>> \notin OpToRel(<, Nat)
  <2>1. T \subseteq Nat
    OBVIOUS
  <2> HIDE DEF T
  <2> QED BY <1>3, <2>1, NatLessThanWellFounded, WFMin
<1>5. m \in S /\ m \in Nat /\ Cardinality(UpTo(S, m)) >= i
  OBVIOUS
<1>6. ASSUME Cardinality(UpTo(S, m)) # i PROVE FALSE
  <2> DEFINE below == UpTo(S, m) \ {m}
  <2>1. m \in UpTo(S, m)
    BY <1>5 DEF UpTo
  <2>2. IsFiniteSet(below) /\ Cardinality(below) = Cardinality(UpTo(S, m)) - 1
    BY <1>1, <1>5, <2>1, FS_RemoveElement
  <2>3. Cardinality(below) >= i /\ below # {}
    <3>1. Cardinality(UpTo(S, m)) \in Nat
      BY <1>1, <1>5
    <3>2. Cardinality(below) >= i
      BY <1>5, <1>6, <2>2, <3>1
    <3> QED BY <3>2, FS_EmptySet
  <2>4. below \subseteq S /\ below \subseteq Nat
    BY DEF UpTo
  <2>5. PICK p \in below : \A e \in below : e <= p
    <3> HIDE DEF below
    <3> QED BY <2>2, <2>3, <2>4, LastIsThere
  <2>6. p \in S /\ p \in Nat /\ p < m
    BY <2>4, <2>5, <1>5 DEF UpTo
  <2>7. UpTo(S, p) = below
    <3>1. ASSUME NEW e \in S PROVE e <= p <=> e <= m /\ e # m
      <4>1. e \in Nat
        OBVIOUS
      <4>2. e <= m /\ e # m => e <= p
        BY <2>5 DEF UpTo
      <4> QED BY <1>5, <2>6, <4>1, <4>2
    <3> QED BY <3>1 DEF UpTo
  <2>8. p \in T
    BY <2>3, <2>6, <2>7
  <2> QED BY <1>4, <1>5, <2>6, <2>8 DEF OpToRel
<1> QED BY <1>5, <1>6

LEMMA UpToGrows ==
    ASSUME NEW S, S \subseteq Nat, NEW m \in S, NEW n \in S, m <= n
    PROVE  UpTo(S, m) \subseteq UpTo(S, n)
<1> SUFFICES ASSUME NEW e \in S, e <= m PROVE e <= n
  BY DEF UpTo
<1>1. e \in Nat /\ m \in Nat /\ n \in Nat
  OBVIOUS
<1> QED BY <1>1

\* Ascending lists each element once, the smaller ones first.
LEMMA AscendingIs ==
    ASSUME NEW S, IsFiniteSet(S), S \subseteq Nat
    PROVE  /\ Cardinality(S) \in Nat
           /\ Ascending(S) \in [1..Cardinality(S) -> S]
           /\ \A i, k \in 1..Cardinality(S) : i < k => Ascending(S)[i] < Ascending(S)[k]
           /\ \A x \in S : \E i \in 1..Cardinality(S) : Ascending(S)[i] = x
<1> DEFINE N == 1..Cardinality(S)
           rank(n) == Cardinality(UpTo(S, n))
           at == Ascending(S)
<1>1. Cardinality(S) \in Nat
  BY FS_CardinalityType
<1>2. \A n \in S : UpTo(S, n) \in SUBSET S /\ IsFiniteSet(UpTo(S, n))
  BY FS_Subset DEF UpTo
<1>3. \A i \in N : \E n \in S : rank(n) = i
  BY ElementOfRank
<1>4. at = [i \in N |-> CHOOSE n \in S : rank(n) = i]
  BY DEF Ascending
<1> HIDE DEF at, rank
<1>5. \A i \in N : at[i] \in S /\ rank(at[i]) = i
  BY <1>3, <1>4
<1>6. ASSUME NEW m \in S, NEW n \in S, m <= n PROVE rank(m) <= rank(n)
  <2>1. UpTo(S, m) \subseteq UpTo(S, n)
    BY <1>6, UpToGrows
  <2> QED BY <1>2, <2>1, FS_Subset DEF rank
<1>7. ASSUME NEW i \in N, NEW k \in N, i < k PROVE at[i] < at[k]
  <2>1. at[i] \in S /\ at[k] \in S /\ at[i] \in Nat /\ at[k] \in Nat
    BY <1>5
  <2>2. at[k] <= at[i] => k <= i
    BY <1>5, <1>6, <2>1
  <2> QED BY <1>1, <1>7, <2>1, <2>2
<1>8. ASSUME NEW x \in S PROVE \E i \in N : at[i] = x
  <2>1. x \in UpTo(S, x) /\ IsFiniteSet(UpTo(S, x)) /\ UpTo(S, x) \in SUBSET S
    BY <1>2 DEF UpTo
  <2>2. rank(x) \in Nat /\ rank(x) <= Cardinality(S) /\ rank(x) # 0
    BY <2>1, FS_CardinalityType, FS_Subset, FS_EmptySet DEF rank
  <2>3. rank(x) \in N
    BY <1>1, <2>2
  <2> DEFINE y == at[rank(x)]
  <2>4. y \in S /\ rank(y) = rank(x)
    BY <1>5, <2>3
  <2> HIDE DEF y
  <2>5. y = x
    <3>1. ASSUME NEW m \in S, NEW n \in S, m < n PROVE rank(m) # rank(n)
      <4>1. m \in Nat /\ n \in Nat /\ m <= n
        BY <3>1
      <4>2. UpTo(S, m) \subseteq UpTo(S, n)
        BY <4>1, UpToGrows
      <4>3. n \in UpTo(S, n) /\ n \notin UpTo(S, m)
        BY <3>1, <4>1 DEF UpTo
      <4> QED BY <1>2, <4>2, <4>3, FS_Subset DEF rank
    <3>2. x \in Nat /\ y \in Nat
      BY <2>4
    <3> QED BY <2>4, <3>1, <3>2
  <2> QED BY <2>3, <2>5 DEF y
<1>9. at \in [N -> S]
  BY <1>4, <1>5
<1> QED BY <1>1, <1>7, <1>8, <1>9 DEF at

-----------------------------------------------------------------------------
(***************************************************************************)
(* The live snapshot.  All inputs are checked at one moment, that of the   *)
(* last answer; what the signal needs beyond this is that nothing changes  *)
(* between the check and the signal, and that the row taken from an answer *)
(* is one from before the moment asked for.                                *)
(***************************************************************************)

LiveSnapshots ==
    [event : Moments \cup {Yesterday}, price : SnapshotPrices, received : Moments]

\* What was known when the feature was built.
FeaturePast ==
    /\ feature.last.event <= Snapshot
    /\ feature.decision - feature.last.event <= MaxAge
    /\ \A s \in ToSet(primary) \cup ToSet(secondary) : s.received <= feature.decision
    /\ \A k \in DOMAIN feature.funds :
        LET f == feature.funds[k]
        IN  /\ f.published < feature.decision
            /\ f.kappaAvailable <= feature.decision
            /\ \A part \in FlowParts(f) : part # Missing => part.available <= feature.decision

\* What it was computed from.
FeatureComputed ==
    /\ feature.funds \in FundInputs /\ feature.last.price \in Int
    /\ feature.refs[1].close \in Int
    /\ feature.pressure = ClosePressure(feature.funds, feature.last.price, feature.refs[1].close)
    /\ feature.full = \A k \in DOMAIN feature.funds : ~FlowMissing(feature.funds[k])

FetchedInv ==
    /\ liveClock \in Moments
    /\ primary \in Seq(LiveSnapshots)
    /\ primary # <<>> => primary[1].event <= Snapshot
    /\ livePhase \in {"toss", "build"} => primary # <<>>

LiveInv ==
    /\ FetchedInv
    /\ livePhase = "decide" => feature.built
    /\ feature.built =>
        /\ livePhase \in {"decide", "done"}
        /\ FeaturePast /\ FeatureComputed
    /\ signal.made =>
        /\ livePhase = "done" /\ feature.built
        /\ signal.generated = feature.decision
        /\ feature.full
        /\ signal.direction = IF feature.pressure[1] > 0 THEN "LONG" ELSE "SHORT"

\* Of the rows of an answer one is the last.
LEMMA LastRowIsThere ==
    ASSUME NEW rows \in SUBSET Rows, rows # {}
    PROVE  LastRow(rows) \in rows
<1> DEFINE T == {LastMoment - r.event : r \in rows}
<1>1. \A r \in rows : r.event \in Int /\ r.event <= LastMoment
  BY H1LiveAssumption DEF Rows, Moments, Yesterday
<1>2. T \subseteq Nat /\ T # {} /\ LastMoment \in Nat
  BY <1>1, H1LiveAssumption
<1>3. PICK t \in T : \A u \in T : <<u, t>> \notin OpToRel(<, Nat)
  BY <1>2, NatLessThanWellFounded, WFMin
<1>4. PICK r \in rows : t = LastMoment - r.event
  BY <1>3
<1>5. \A s \in rows : s.event <= r.event
  <2> SUFFICES ASSUME NEW s \in rows, ~(s.event <= r.event) PROVE FALSE
    OBVIOUS
  <2>1. LastMoment - s.event \in T
    OBVIOUS
  <2>2. LastMoment - s.event < t /\ LastMoment - s.event \in Nat /\ t \in Nat
    BY <1>1, <1>2, <1>4
  <2> QED BY <1>3, <2>1, <2>2 DEF OpToRel
<1> QED BY <1>5 DEF LastRow

LEMMA LiveInvInit == LiveInit => LiveInv
<1> SUFFICES ASSUME LiveInit PROVE LiveInv
  OBVIOUS
<1>1. liveClock \in Moments /\ primary = <<>>
  BY H1LiveAssumption DEF LiveInit, Moments
<1>2. FetchedInv
  BY <1>1 DEF LiveInit, FetchedInv
<1> QED BY <1>2 DEF LiveInit, LiveInv, NoFeature, NoSignal

LEMMA FetchPrimaryInv == ASSUME LiveInv, FetchPrimary PROVE LiveInv'
<1>1. ~feature.built /\ ~signal.made
  BY DEF LiveInv, FetchPrimary
<1>2. UNCHANGED <<feature, signal>>
  BY DEF FetchPrimary, LiveFailed
<1>3. livePhase' \in {"kis", "toss", "done"}
  BY DEF FetchPrimary, LiveFailed
<1>4. PICK now \in liveClock..LastMoment : \E rows \in MinuteRows(now) :
        LET dated == IF Len(primary) < Len(StockTargets) THEN rows ELSE OnBatchDate(rows, primary)
            eligible == RowsUpTo(dated, Snapshot)
            got == Append(primary, SnapshotOf(LastRow(eligible), now))
        IN  /\ liveClock' = now
            /\ \/ /\ eligible # {}
                  /\ primary' = got
               \/ UNCHANGED primary /\ livePhase' = "done"
  BY DEF FetchPrimary, LiveFailed
<1>5. PICK rows \in MinuteRows(now) :
        LET dated == IF Len(primary) < Len(StockTargets) THEN rows ELSE OnBatchDate(rows, primary)
            eligible == RowsUpTo(dated, Snapshot)
            got == Append(primary, SnapshotOf(LastRow(eligible), now))
        IN  /\ liveClock' = now
            /\ \/ /\ eligible # {}
                  /\ primary' = got
               \/ UNCHANGED primary /\ livePhase' = "done"
  BY <1>4
<1> DEFINE dated == IF Len(primary) < Len(StockTargets) THEN rows ELSE OnBatchDate(rows, primary)
           eligible == RowsUpTo(dated, Snapshot)
           row == LastRow(eligible)
<1>6. now \in Moments
  BY H1LiveAssumption DEF LiveInv, FetchedInv, Moments
<1>7. rows \subseteq Rows
  BY DEF MinuteRows
<1>8. OnBatchDate(rows, primary) \subseteq Rows
  BY <1>7 DEF OnBatchDate, Rows
<1>9. eligible \subseteq Rows /\ \A r \in eligible : r.event <= Snapshot
  BY <1>7, <1>8 DEF RowsUpTo
<1>10. CASE eligible # {} /\ primary' = Append(primary, SnapshotOf(row, now))
  <2>1. row \in eligible
    BY <1>9, <1>10, LastRowIsThere
  <2> HIDE DEF row, eligible
  <2>2. row \in Rows /\ row.event <= Snapshot
    BY <1>9, <2>1
  <2> DEFINE new == SnapshotOf(row, now)
  <2>3. new \in LiveSnapshots /\ new.event <= Snapshot
    BY <1>6, <2>2 DEF SnapshotOf, LiveSnapshots, Rows
  <2> HIDE DEF new
  <2>4. primary \in Seq(LiveSnapshots) /\ (primary # <<>> => primary[1].event <= Snapshot)
    BY DEF LiveInv, FetchedInv
  <2>5. primary' \in Seq(LiveSnapshots) /\ primary' # <<>> /\ primary'[1].event <= Snapshot
    BY <1>10, <2>3, <2>4 DEF new
  <2> QED BY <1>1, <1>2, <1>3, <1>5, <1>6, <2>5 DEF LiveInv, FetchedInv
<1>11. CASE UNCHANGED primary /\ livePhase' = "done"
  BY <1>1, <1>2, <1>5, <1>6, <1>11 DEF LiveInv, FetchedInv
<1> QED BY <1>5, <1>10, <1>11

LEMMA BuildFeatureInv == ASSUME LiveInv, BuildFeature PROVE LiveInv'
<1>1. ~feature.built /\ ~signal.made
  BY DEF LiveInv, BuildFeature
<1>2. FetchedInv /\ primary # <<>>
  BY DEF LiveInv, FetchedInv, BuildFeature
<1>3. UNCHANGED <<liveClock, primary, secondary, signal>>
  BY DEF BuildFeature, LiveFailed
<1>4. FetchedInv' \/ livePhase' \notin {"decide", "done"}
  BY <1>2, <1>3 DEF FetchedInv
<1>5. CASE livePhase' = "done" /\ UNCHANGED feature
  BY <1>1, <1>3, <1>4, <1>5 DEF LiveInv
<1>6. ASSUME NEW refs \in References, NEW inputs \in FundInputs,
             FeatureInputsGood(refs, inputs, liveClock),
             feature' = [built |-> TRUE, decision |-> liveClock, refs |-> refs, funds |-> inputs,
                         last |-> primary[1],
                         pressure |-> ClosePressure(inputs, primary[1].price, refs[1].close),
                         full |-> \A k \in DOMAIN inputs : ~FlowMissing(inputs[k])],
             livePhase' = "decide"
      PROVE  LiveInv'
  <2>1. feature'.built /\ feature'.decision = liveClock /\ feature'.refs = refs
        /\ feature'.funds = inputs /\ feature'.last = primary[1]
    BY <1>6
  <2>2. /\ feature'.pressure = ClosePressure(inputs, primary[1].price, refs[1].close)
        /\ feature'.full = \A k \in DOMAIN inputs : ~FlowMissing(inputs[k])
    BY <1>6
  <2>3. primary[1] \in LiveSnapshots
    BY <1>2 DEF FetchedInv
  <2>4. 1 \in DOMAIN Targets
    BY H1LiveAssumption DEF Targets
  <2>5. ~(liveClock - primary[1].event > MaxAge)
    BY <1>6, <2>4 DEF FeatureInputsGood, BlocksSignal, StalePair
  <2>6. liveClock - primary[1].event <= MaxAge
    BY <1>2, <2>3, <2>5, H1LiveAssumption DEF FetchedInv, LiveSnapshots, Moments, Yesterday
  <2>7. \A s \in ToSet(primary) \cup ToSet(secondary) : s.received <= liveClock
    BY <1>6 DEF FeatureInputsGood, NoLookahead
  <2>8. \A k \in DOMAIN inputs :
            LET f == inputs[k]
            IN  /\ f.published < liveClock
                /\ f.kappaAvailable <= liveClock
                /\ \A part \in FlowParts(f) : part # Missing => part.available <= liveClock
    BY <1>6 DEF FeatureInputsGood, FundAvailable, FlowInTime
  <2>9. FeaturePast'
    BY <1>2, <1>3, <2>1, <2>6, <2>7, <2>8 DEF FeaturePast, FetchedInv
  <2>10. primary[1].price \in SnapshotPrices
    BY <2>3 DEF LiveSnapshots
  <2>11. primary[1].price \in Int
    <3>1. SnapshotPrices \subseteq Nat
      BY H1LiveAssumption
    <3>2. primary[1].price \in Nat
      BY <2>10, <3>1
    <3> QED BY <3>2
  <2>12. refs[1].close \in Int
    BY H1LiveAssumption
  <2>13. FeatureComputed'
    BY <2>1, <2>2, <2>11, <2>12 DEF FeatureComputed
  <2> QED BY <1>1, <1>3, <1>4, <1>6, <2>1, <2>9, <2>13 DEF LiveInv
<1> QED BY <1>5, <1>6 DEF BuildFeature, LiveFailed

LEMMA LiveInvNext == LiveInv /\ [LiveNext]_liveVars => LiveInv'
<1> SUFFICES ASSUME LiveInv, [LiveNext]_liveVars PROVE LiveInv'
  OBVIOUS
<1>1. CASE StartCapture
  BY <1>1 DEF StartCapture, LiveInv, FetchedInv
<1>2. CASE FetchPrimary
  BY <1>2, FetchPrimaryInv
<1>3. CASE FetchSecondary
  <2>1. ~feature.built /\ ~signal.made /\ primary # <<>>
    BY <1>3 DEF LiveInv, FetchedInv, FetchSecondary
  <2>2. UNCHANGED <<primary, feature, signal>> /\ livePhase' \in {"build", "done"}
    BY <1>3 DEF FetchSecondary, LiveFailed
  <2>3. liveClock' \in Moments
    BY <1>3, H1LiveAssumption DEF FetchSecondary, LiveInv, FetchedInv, Moments
  <2> QED BY <2>1, <2>2, <2>3 DEF LiveInv, FetchedInv
<1>4. CASE BuildFeature
  BY <1>4, BuildFeatureInv
<1>5. CASE DecideSignal
  <2>1. feature.built /\ FeaturePast /\ FeatureComputed /\ FetchedInv
    BY <1>5 DEF LiveInv, DecideSignal
  <2>2. UNCHANGED <<liveClock, primary, secondary, feature>> /\ livePhase' = "done"
    BY <1>5 DEF DecideSignal
  <2>3. FetchedInv' /\ FeaturePast' /\ FeatureComputed' /\ feature'.built
    BY <2>1, <2>2 DEF FetchedInv, FeaturePast, FeatureComputed
  <2>4. signal'.made =>
            /\ signal'.generated = feature.decision
            /\ feature.full
            /\ signal'.direction = IF feature.pressure[1] > 0 THEN "LONG" ELSE "SHORT"
    BY <1>5 DEF DecideSignal, Tradable, NoSignal
  <2> QED BY <2>2, <2>3, <2>4 DEF LiveInv
<1>6. CASE UNCHANGED liveVars
  BY <1>6 DEF liveVars, LiveInv, FetchedInv, FeaturePast, FeatureComputed
<1> QED BY <1>1, <1>2, <1>3, <1>4, <1>5, <1>6 DEF LiveNext

\* The inputs of a signal were known when it was made, and its price is one of
\* the moment asked for or before and not older than the age bound, for any
\* number of targets and whatever time the answers take.
THEOREM SignalFromThePastTheorem == LiveSpec => []SignalFromThePast
<1>1. LiveInv => SignalFromThePast
  BY DEF LiveInv, FeaturePast, SignalFromThePast
<1> QED BY LiveInvInit, LiveInvNext, <1>1, PTL DEF LiveSpec

\* With all flows observed the pressure is the sum over the funds.
LEMMA FullPressure ==
    ASSUME NEW f, InputTyped(f), ~FlowMissing(f), NEW last \in Int, NEW close \in Int
    PROVE  FundPressure(f, last, close)
               = f.kappa * f.beta * (f.beta - 1) * f.aum * (last - close) + close * FlowAdjustment(f)
<1>1. \A part \in FlowParts(f) : part # Missing /\ part.value \in Int
  BY DEF InputTyped, FlowMissing
<1>2. /\ f.auction.value \in Int /\ f.program.value \in Int
      /\ f.creation.value \in Int /\ f.multiplier.value \in Int
  BY <1>1 DEF FlowParts
<1>3. FlowAdjustment(f) \in Int
  BY <1>2 DEF FlowAdjustment
<1>4. FlowAdjustment(f) * close = close * FlowAdjustment(f)
  BY <1>3
<1> QED BY <1>4 DEF FundPressure

LEMMA LiveInvDirection == LiveInv => DirectionFromFullFlow
<1> SUFFICES ASSUME LiveInv, signal.made PROVE DirectionFromFullFlow
  BY DEF DirectionFromFullFlow
<1> DEFINE inputs == feature.funds
           last == feature.last.price
           close == feature.refs[1].close
           full(f) == f.kappa * f.beta * (f.beta - 1) * f.aum * (last - close)
                          + close * FlowAdjustment(f)
<1>1. FeatureComputed /\ feature.full
  BY DEF LiveInv
<1>2. inputs \in FundInputs /\ last \in Int /\ close \in Int
  BY <1>1 DEF FeatureComputed
<1>3. \A k \in DOMAIN inputs : ~FlowMissing(inputs[k])
  BY <1>1 DEF FeatureComputed
<1>4. \A k \in DOMAIN inputs : InputTyped(inputs[k])
  BY <1>2, H1LiveAssumption
<1>5. \A k \in DOMAIN inputs : FundPressure(inputs[k], last, close) = full(inputs[k])
  <2> HIDE DEF inputs, last, close
  <2> QED BY <1>2, <1>3, <1>4, FullPressure
<1> DEFINE Pressures == [k \in DOMAIN inputs |-> FundPressure(inputs[k], last, close)]
           Fulls == [k \in DOMAIN inputs |-> full(inputs[k])]
<1>6. Pressures = Fulls
  <2> HIDE DEF full, inputs
  <2> QED BY <1>5
<1>7. feature.pressure[1] = SumFunction(Pressures)
  BY <1>1 DEF FeatureComputed, ClosePressure
<1>8. signal.direction = IF SumFunction(Fulls) > 0 THEN "LONG" ELSE "SHORT"
  <2>1. signal.direction = IF feature.pressure[1] > 0 THEN "LONG" ELSE "SHORT"
    BY DEF LiveInv
  <2> HIDE DEF Pressures, Fulls
  <2> QED BY <2>1, <1>6, <1>7
<1>9. \A k \in DOMAIN inputs : Missing \notin FlowParts(inputs[k])
  BY <1>3 DEF FlowMissing
<1> QED BY <1>8, <1>9 DEF DirectionFromFullFlow

\* A signal's direction is the one the fully observed flows give, for any
\* number of inputs and any amounts.
THEOREM DirectionFromFullFlowTheorem == LiveSpec => []DirectionFromFullFlow
BY LiveInvInit, LiveInvNext, LiveInvDirection, PTL DEF LiveSpec

-----------------------------------------------------------------------------
(***************************************************************************)
(* The flow study.  Common days are numbered in their order, so the days   *)
(* of a row differ, and each common day is a trading day.                  *)
(***************************************************************************)

\* The common days are numbered in their order.
LEMMA CommonDaysAscend ==
    ASSUME IsFiniteSet(CommonSet(flowInput)), CommonSet(flowInput) \subseteq Nat
    PROVE  /\ \A i \in 1..CommonCount : CommonDay(i) \in CommonSet(flowInput)
           /\ \A i, k \in 1..CommonCount : i < k => CommonDay(i) < CommonDay(k)
BY AscendingIs DEF CommonDay, CommonCount

StudyRowsInv ==
    /\ flowPhase \in {"off", "fit", "build"} => \A s \in Symbols : flowRows[s] = {}
    /\ flowPhase \in {"fit", "build"} =>
        flowInput \in FlowInputs /\ ~SomethingMissing(flowInput)
    /\ FlowRowsKnownAtOpen

\* Days of a file are trading days, the common ones of all files.
LEMMA CommonDaysAreTraded ==
    ASSUME NEW input \in FlowInputs, ~SomethingMissing(input)
    PROVE  /\ IsFiniteSet(CommonSet(input)) /\ CommonSet(input) \subseteq InvestorDays(input)
           /\ InvestorDays(input) \subseteq Nat
<1>1. DOMAIN input.flows = FlowScopes /\ InvestorDays(input) # {}
  BY DEF SomethingMissing
<1>2. PICK s \in FlowScopes : TRUE
  BY <1>1 DEF InvestorDays
<1>3. \A scope \in FlowScopes : input.flows[scope] \subseteq Nat /\ IsFiniteSet(input.flows[scope])
  BY <1>1, FlowStudyAssumption
<1>4. CommonSet(input) \in SUBSET input.flows[s]
  BY <1>2 DEF CommonSet
<1>5. IsFiniteSet(CommonSet(input))
  BY <1>2, <1>3, <1>4, FS_Subset
<1>6. InvestorDays(input) \subseteq Nat
  BY <1>1, <1>3 DEF InvestorDays
<1> QED BY <1>5, <1>6 DEF CommonSet

\* A row built from the input lags by two trading days.
LEMMA RowKnownAtOpen ==
    ASSUME flowInput \in FlowInputs, ~SomethingMissing(flowInput),
           NEW symbol, NEW r \in RowsOf(symbol)
    PROVE  /\ PublishedMoment(r.flow) <= OpenMoment(r.day)
           /\ Cardinality({d \in InvestorDays(flowInput) : r.balance < d /\ d <= r.day}) >= 2
<1> DEFINE S == CommonSet(flowInput)
<1>1. IsFiniteSet(S) /\ S \subseteq InvestorDays(flowInput) /\ InvestorDays(flowInput) \subseteq Nat
  BY CommonDaysAreTraded
<1>2. CommonCount \in Nat
  BY <1>1, FS_CardinalityType DEF CommonCount
<1>3. PICK i \in 3..CommonCount :
        /\ PublishedMoment(CommonDay(i - 1)) <= OpenMoment(CommonDay(i))
        /\ r = RowOfDay(i)
  BY DEF RowsOf
<1>4. i \in 1..CommonCount /\ i - 1 \in 1..CommonCount /\ i - 2 \in 1..CommonCount
      /\ i - 2 < i - 1 /\ i - 1 < i
  BY <1>2, <1>3
<1> HIDE DEF S
<1> DEFINE b == CommonDay(i - 2)  m == CommonDay(i - 1)  t == CommonDay(i)
<1>5. m \in S /\ t \in S
  BY <1>1, <1>4, CommonDaysAscend DEF S
<1>6. b < m /\ m < t /\ b \in S
  <2>1. b \in S /\ b < m
    BY <1>1, <1>4, CommonDaysAscend DEF S
  <2>2. m < t
    BY <1>1, <1>4, CommonDaysAscend DEF S
  <2> QED BY <2>1, <2>2
<1>7. r.balance = b /\ r.flow = m /\ r.day = t
  BY <1>3 DEF RowOfDay, BalanceDay
<1> HIDE DEF b, m, t
<1>8. b \in Nat /\ m \in Nat /\ t \in Nat /\ {m, t} \subseteq InvestorDays(flowInput)
  BY <1>1, <1>5, <1>6
<1> DEFINE W == {d \in InvestorDays(flowInput) : b < d /\ d <= t}
<1>9. IsFiniteSet(W)
  <2>1. W \in SUBSET (b..t)
    BY <1>1, <1>8
  <2>2. IsFiniteSet(b..t)
    BY <1>8, FS_Interval
  <2> HIDE DEF W
  <2> QED BY <2>1, <2>2, FS_Subset
<1>10. {m, t} \subseteq W
  BY <1>6, <1>8
<1>11. Cardinality({m, t}) = 2
  <2>1. {m, t} = {m} \cup {t} /\ t \notin {m}
    BY <1>6, <1>8
  <2>2. IsFiniteSet({m}) /\ Cardinality({m}) = 1
    BY FS_Singleton
  <2>3. Cardinality({m} \cup {t}) = Cardinality({m}) + 1
    BY <2>1, <2>2, FS_AddElement
  <2> QED BY <2>1, <2>2, <2>3
<1>12. Cardinality(W) >= 2
  <2> HIDE DEF W
  <2> QED BY <1>9, <1>10, <1>11, FS_Subset, FS_CardinalityType
<1> QED BY <1>3, <1>7, <1>12 DEF m, t

LEMMA StudyRowsInvInit == FlowInit => StudyRowsInv
BY DEF FlowInit, StudyRowsInv, FlowRowsKnownAtOpen

LEMMA StudyRowsInvNext == StudyRowsInv /\ [FlowNext]_flowVars => StudyRowsInv'
<1> SUFFICES ASSUME StudyRowsInv, [FlowNext]_flowVars PROVE StudyRowsInv'
  OBVIOUS
<1>1. CASE LoadFlowInputs
  <2>1. flowRows' = flowRows /\ \A s \in Symbols : flowRows'[s] = {}
    BY <1>1 DEF LoadFlowInputs, StudyRowsInv
  <2>2. FlowRowsKnownAtOpen'
    BY <2>1 DEF FlowRowsKnownAtOpen
  <2>3. flowPhase' = "fit" => flowInput' \in FlowInputs /\ ~SomethingMissing(flowInput')
    BY <1>1 DEF LoadFlowInputs, HoldFlow
  <2>4. flowPhase' \in {"fit", "done"}
    BY <1>1 DEF LoadFlowInputs, HoldFlow
  <2> QED BY <2>1, <2>2, <2>3, <2>4 DEF StudyRowsInv
<1>2. CASE FitResiduals
  <2>1. UNCHANGED <<flowInput, flowRows>> /\ flowPhase = "fit" /\ flowPhase' \in {"build", "done"}
    BY <1>2 DEF FitResiduals, HoldFlow
  <2> QED BY <2>1 DEF StudyRowsInv, FlowRowsKnownAtOpen
<1>3. CASE BuildFlowRows
  <2>1. flowInput \in FlowInputs /\ ~SomethingMissing(flowInput) /\ flowInput' = flowInput
    BY <1>3 DEF BuildFlowRows, StudyRowsInv
  <2>2. CASE flowPhase' = "done" /\ UNCHANGED flowRows
    BY <2>1, <2>2 DEF StudyRowsInv, FlowRowsKnownAtOpen
  <2>3. CASE flowPhase' = "assess" /\ flowRows' = [s \in Symbols |-> RowsOf(s)]
    <3>1. \A s \in Symbols : flowRows'[s] = RowsOf(s)
      BY <2>3
    <3>2. FlowRowsKnownAtOpen'
      BY <2>1, <3>1, RowKnownAtOpen DEF FlowRowsKnownAtOpen
    <3> QED BY <2>3, <3>2 DEF StudyRowsInv
  <2> QED BY <1>3, <2>2, <2>3 DEF BuildFlowRows
<1>4. CASE AssessFlows
  <2>1. UNCHANGED <<flowInput, flowRows>> /\ flowPhase' = "done"
    BY <1>4 DEF AssessFlows
  <2> QED BY <2>1 DEF StudyRowsInv, FlowRowsKnownAtOpen
<1>5. CASE UNCHANGED flowVars
  BY <1>5 DEF flowVars, StudyRowsInv, FlowRowsKnownAtOpen
<1> QED BY <1>1, <1>2, <1>3, <1>4, <1>5 DEF FlowNext

\* The lag of the model, counted in common days, is one in trading days, for
\* any files and whatever days they lack.
THEOREM FlowRowsKnownAtOpenTheorem == FlowSpec => []FlowRowsKnownAtOpen
<1>1. StudyRowsInv => FlowRowsKnownAtOpen
  BY DEF StudyRowsInv
<1> QED BY StudyRowsInvInit, StudyRowsInvNext, <1>1, PTL DEF FlowSpec

-----------------------------------------------------------------------------
(***************************************************************************)
(* The order flow validation: the outcomes scored so far are those of the  *)
(* days up to the cursor, and a model is fitted to days before it.         *)
(***************************************************************************)

TestStart == OfiTrainDays + OfiValidationDays

ScoredInv ==
    /\ scored \in Seq(ToSet(scored))
    /\ Len(observed) \in Nat
    /\ fullModel \subseteq 1..OfiTrainDays
    /\ ofiPhase \in {"off", "train", "cheap", "sealed"} => scored = <<>>
    /\ ScoredOutOfSample

LEMMA SeqOfOwnElements == ASSUME NEW S, NEW s \in Seq(S) PROVE s \in Seq(ToSet(s))
BY DEF ToSet

LEMMA OutcomeIs ==
    ASSUME NEW model, NEW features, NEW k, NEW predicted
    PROVE  /\ Outcome(model, features, k, predicted).day = k
           /\ Outcome(model, features, k, predicted).model = model
BY DEF Outcome

\* The outcomes of a model on days that follow one another.
LEMMA OutcomesOnDays ==
    ASSUME NEW model, NEW first \in Nat, NEW count \in Nat,
           NEW block \in FullOutcomes(model, DaysFrom(first, count))
    PROVE  /\ block \in Seq(ToSet(block)) /\ Len(block) = count
           /\ \A i \in 1..count : block[i].day = first + i - 1 /\ block[i].model = model
<1> DEFINE between == DaysFrom(first, count)
<1>1. Len(between) = count /\ \A i \in 1..count : between[i] = first + i - 1
  BY DEF DaysFrom
<1> HIDE DEF between
<1>2. PICK p \in [1..count -> Directions] :
        block = [i \in 1..count |-> Outcome(model, {"theory", "flow"}, between[i], p[i])]
  BY <1>1 DEF FullOutcomes, Outcomes, between
<1>3. \A i \in 1..count : block[i] = Outcome(model, {"theory", "flow"}, between[i], p[i])
  BY <1>2
<1>4. \A i \in 1..count : block[i].day = between[i] /\ block[i].model = model
  BY <1>3, OutcomeIs
<1>5. block \in [1..count -> ToSet(block)]
  BY <1>2 DEF ToSet
<1>6. block \in Seq(ToSet(block)) /\ Len(block) = count
  BY <1>5
<1> QED BY <1>1, <1>4, <1>6

LEMMA ScoredInvInit == OfiInit => ScoredInv
BY DEF OfiInit, ScoredInv, ScoredOutOfSample

LEMMA SealedTestInv == ASSUME ScoredInv, SealedTest PROVE ScoredInv'
<1>1. PICK full \in FullOutcomes(fullModel, DaysFrom(TestStart + 1, SealedTestDays)) : scored' = full
  BY DEF SealedTest, TestStart
<1>2. TestStart + 1 \in Nat /\ SealedTestDays \in Nat /\ TestStart \in Nat
  BY OfiValidationAssumption DEF TestStart
<1>3. /\ scored' \in Seq(ToSet(scored')) /\ Len(scored') = SealedTestDays
      /\ \A i \in 1..SealedTestDays :
            scored'[i].day = TestStart + 1 + i - 1 /\ scored'[i].model = fullModel
  <2> DEFINE from == TestStart + 1
  <2>1. from \in Nat /\ full \in FullOutcomes(fullModel, DaysFrom(from, SealedTestDays))
    BY <1>1, <1>2
  <2> HIDE DEF from
  <2>2. /\ full \in Seq(ToSet(full)) /\ Len(full) = SealedTestDays
        /\ \A i \in 1..SealedTestDays : full[i].day = from + i - 1 /\ full[i].model = fullModel
    BY <1>2, <2>1, OutcomesOnDays
  <2> QED BY <1>1, <2>2 DEF from
<1>4. fullModel \subseteq 1..OfiTrainDays /\ OfiTrainDays \in Nat /\ OfiValidationDays \in Nat
  BY OfiValidationAssumption DEF ScoredInv
<1>5. ASSUME NEW i \in DOMAIN scored'
      PROVE  /\ \A d \in scored'[i].model : d < scored'[i].day
             /\ scored'[i].day = OfiTrainDays + OfiValidationDays + i
  <2>1. i \in 1..SealedTestDays /\ i \in Nat \ {0}
    BY <1>2, <1>3
  <2>2. scored'[i].day = TestStart + i /\ scored'[i].model = fullModel
    BY <1>2, <1>3, <2>1
  <2>3. TestStart = OfiTrainDays + OfiValidationDays
    BY DEF TestStart
  <2>4. \A d \in fullModel : d < TestStart + i
    BY <1>4, <2>1, <2>3
  <2> QED BY <2>2, <2>3, <2>4
<1>6. UNCHANGED <<observed, fullModel>> /\ ofiPhase' = "walk"
  BY DEF SealedTest
<1> QED BY <1>3, <1>5, <1>6 DEF ScoredInv, ScoredOutOfSample

LEMMA WalkBlockInv == ASSUME ScoredInv, WalkBlock PROVE ScoredInv'
<1> DEFINE left == Len(observed) - Cursor
           size == Min({MaxBlock, left})
<1>1. UNCHANGED <<observed, fullModel>> /\ ofiPhase' \in {"walk", "final"}
  BY DEF WalkBlock
<1>2. CASE UNCHANGED scored
  BY <1>1, <1>2 DEF ScoredInv, ScoredOutOfSample
<1>3. ASSUME left >= MinBlock,
             NEW block \in FullOutcomes(FittedTo(Expanding(size)), DaysFrom(Cursor + 1, size)),
             scored' = scored \o block
      PROVE  ScoredInv'
  <2>1. scored \in Seq(ToSet(scored)) /\ Len(scored) \in Nat /\ Cursor \in Nat
        /\ Cursor = TestStart + Len(scored) /\ TestStart \in Nat
    BY OfiValidationAssumption DEF ScoredInv, Cursor, TestStart
  <2>2. left \in Nat /\ MaxBlock \in Nat
    BY <1>3, <2>1, OfiValidationAssumption DEF ScoredInv
  <2>3. size \in Nat
    <3> HIDE DEF left
    <3> QED BY <2>2 DEF Min
  <2> DEFINE model == FittedTo(Expanding(size))
  <2>4. model \subseteq 1..Cursor
    BY DEF FittedTo, Usable, Expanding
  <2> HIDE DEF size, model
  <2>5. /\ block \in Seq(ToSet(block)) /\ Len(block) = size
        /\ \A i \in 1..size : block[i].day = Cursor + 1 + i - 1 /\ block[i].model = model
    BY <1>3, <2>1, <2>3, OutcomesOnDays DEF model
  <2> DEFINE S == ToSet(scored) \cup ToSet(block)
  <2>6. scored \in Seq(S) /\ block \in Seq(S)
    BY <2>1, <2>5
  <2> HIDE DEF S
  <2>7. /\ scored' \in Seq(S) /\ Len(scored') = Len(scored) + size
        /\ \A i \in 1..(Len(scored) + size) :
            scored'[i] = IF i <= Len(scored) THEN scored[i] ELSE block[i - Len(scored)]
    BY <1>3, <2>5, <2>6
  <2>8. ASSUME NEW i \in DOMAIN scored'
        PROVE  /\ \A d \in scored'[i].model : d < scored'[i].day
               /\ scored'[i].day = OfiTrainDays + OfiValidationDays + i
    <3>1. i \in 1..(Len(scored) + size)
      BY <2>7
    <3>2. CASE i <= Len(scored)
      <4>1. i \in DOMAIN scored /\ scored'[i] = scored[i]
        BY <2>1, <2>3, <2>7, <3>1, <3>2
      <4> QED BY <4>1 DEF ScoredInv, ScoredOutOfSample
    <3>3. CASE ~(i <= Len(scored))
      <4> DEFINE k == i - Len(scored)
      <4>1. k \in 1..size /\ scored'[i] = block[k]
        BY <2>1, <2>3, <2>7, <3>1, <3>3
      <4>2. block[k].day = Cursor + k /\ block[k].model = model
        BY <2>1, <2>3, <2>5, <4>1
      <4>3. Cursor + k = TestStart + i
        BY <2>1, <3>1
      <4>4. TestStart = OfiTrainDays + OfiValidationDays
        BY DEF TestStart
      <4>5. \A d \in model : d < Cursor + k
        <5> SUFFICES ASSUME NEW d \in model PROVE d < Cursor + k
          OBVIOUS
        <5>1. d \in 1..Cursor
          BY <2>4
        <5>2. k \in Nat \ {0} /\ Cursor \in Nat
          BY <2>1, <2>3, <4>1
        <5> HIDE DEF k
        <5> QED BY <5>1, <5>2
      <4> QED BY <4>1, <4>2, <4>3, <4>4, <4>5
    <3> QED BY <3>2, <3>3
  <2>9. scored' \in Seq(ToSet(scored'))
    BY <2>7, SeqOfOwnElements
  <2> QED BY <1>1, <2>8, <2>9 DEF ScoredInv, ScoredOutOfSample
<1> QED BY <1>2, <1>3 DEF WalkBlock

LEMMA ScoredInvNext == ScoredInv /\ [OfiNext]_ofiVars => ScoredInv'
<1> SUFFICES ASSUME ScoredInv, [OfiNext]_ofiVars PROVE ScoredInv'
  OBVIOUS
<1>1. CASE StartValidation
  <2>1. UNCHANGED <<fullModel, scored>> /\ ofiPhase = "off" /\ observed' \in OfiObservations
    BY <1>1 DEF StartValidation
  <2>2. Len(observed') \in Nat
    BY <2>1, OfiValidationAssumption
  <2> QED BY <2>1, <2>2 DEF ScoredInv, ScoredOutOfSample
<1>2. CASE FitTrain
  <2>1. UNCHANGED <<scored, observed>> /\ ofiPhase = "train"
    BY <1>2 DEF FitTrain
  <2>2. fullModel' \subseteq 1..OfiTrainDays
    BY <1>2 DEF FitTrain, FittedTo, Usable, ScoredInv
  <2> QED BY <2>1, <2>2 DEF ScoredInv, ScoredOutOfSample
<1>3. CASE CheapReject
  <2>1. UNCHANGED <<scored, observed, fullModel>> /\ ofiPhase = "cheap"
    BY <1>3 DEF CheapReject
  <2> QED BY <2>1 DEF ScoredInv, ScoredOutOfSample
<1>4. CASE SealedTest
  BY <1>4, SealedTestInv
<1>5. CASE WalkBlock
  BY <1>5, WalkBlockInv
<1>6. CASE FinalGate
  <2>1. UNCHANGED <<scored, observed, fullModel>> /\ ofiPhase' = "done"
    BY <1>6 DEF FinalGate, Stop
  <2> QED BY <2>1 DEF ScoredInv, ScoredOutOfSample
<1>7. CASE UNCHANGED ofiVars
  BY <1>7 DEF ofiVars, ScoredInv, ScoredOutOfSample
<1> QED BY <1>1, <1>2, <1>3, <1>4, <1>5, <1>6, <1>7 DEF OfiNext

\* Each profit the final gate counts is of a day after all days its model was
\* fitted to, and of the next day after the one before, for any split of the
\* days, any observations and any number of refits.
THEOREM ScoredOutOfSampleTheorem == OfiSpec => []ScoredOutOfSample
<1>1. ScoredInv => ScoredOutOfSample
  BY DEF ScoredInv
<1> QED BY ScoredInvInit, ScoredInvNext, <1>1, PTL DEF OfiSpec

-----------------------------------------------------------------------------
(***************************************************************************)
(* The prefalsification study.  While no series is chosen no day has a     *)
(* control from one, so a row with all controls tells that there was one.  *)
(***************************************************************************)

ObservationsTyped ==
    /\ observations \in Seq(ToSet(observations))
    /\ \A i \in DOMAIN observations : {"program", "turnover"} \subseteq DOMAIN observations[i]

StudyInv ==
    /\ ObservationsTyped
    /\ studyPhase \in {"off", "probe"} => observations = <<>>
    /\ studyPhase # "done" => studyResult = NoResult
    /\ studyModel = "WEAK" /\ series = "NONE" =>
        \A i \in DOMAIN observations : ~observations[i].controls["semiconductor"].has
    /\ CompletedStudyHadEveryDataset

LEMMA ObservationIs ==
    ASSUME NEW d, NEW a
    PROVE  /\ {"program", "turnover"} \subseteq DOMAIN WeakObservation(d, a)
           /\ series = "NONE" => ~WeakObservation(d, a).controls["semiconductor"].has
<1>1. {"program", "turnover"} \subseteq DOMAIN WeakObservation(d, a)
  BY DEF WeakObservation
<1>2. ASSUME series = "NONE" PROVE ~WeakObservation(d, a).controls["semiconductor"].has
  <2>1. WeakObservation(d, a).controls["semiconductor"] = Known(NoValue, CloseOf(d), CloseOf(d))
    BY <1>2 DEF WeakObservation, Factors
  <2>2. ~Known(NoValue, CloseOf(d), CloseOf(d)).has
    BY DEF Known
  <2> QED BY <2>1, <2>2
<1> QED BY <1>1, <1>2

LEMMA StudyInvInit == StudyInit => StudyInv
<1> SUFFICES ASSUME StudyInit PROVE StudyInv
  OBVIOUS
<1>1. ObservationsTyped
  BY DEF StudyInit, ObservationsTyped
<1>2. CompletedStudyHadEveryDataset
  BY DEF StudyInit, NoResult, CompletedStudyHadEveryDataset
<1> QED BY <1>1, <1>2 DEF StudyInit, StudyInv

\* A day collected is put before the others.
LEMMA CollectDayInv == ASSUME StudyInv, CollectDay PROVE StudyInv'
<1>1. /\ studyPhase = "collect" /\ studyPhase' \in {"collect", "fit"}
      /\ UNCHANGED <<studyModel, series, studyResult>>
  BY DEF CollectDay
<1>2. studyResult' = NoResult /\ CompletedStudyHadEveryDataset'
  BY <1>1 DEF StudyInv, CompletedStudyHadEveryDataset, NoResult
<1>3. CASE UNCHANGED observations
  BY <1>1, <1>2, <1>3 DEF StudyInv, ObservationsTyped
<1>4. ASSUME NEW a \in KrxDays,
             observations' = <<WeakObservation(cursor, a)>> \o observations
      PROVE  StudyInv'
  <2> DEFINE new == WeakObservation(cursor, a)
             S == ToSet(observations) \cup {new}
  <2>1. observations \in Seq(S) /\ <<new>> \in Seq(S)
    BY DEF StudyInv, ObservationsTyped
  <2>2. /\ {"program", "turnover"} \subseteq DOMAIN new
        /\ series = "NONE" => ~new.controls["semiconductor"].has
    BY ObservationIs
  <2> HIDE DEF new, S
  <2>3. /\ observations' \in Seq(S) /\ Len(observations') = Len(observations) + 1
        /\ \A i \in 1..(Len(observations) + 1) :
            observations'[i] = IF i = 1 THEN new ELSE observations[i - 1]
    BY <1>4, <2>1 DEF new
  <2>4. ASSUME NEW i \in DOMAIN observations'
        PROVE  \/ observations'[i] = new
               \/ \E k \in DOMAIN observations : observations'[i] = observations[k]
    <3>1. i \in 1..(Len(observations) + 1) /\ Len(observations) \in Nat
      BY <2>1, <2>3
    <3>2. i # 1 => i - 1 \in DOMAIN observations
      BY <2>1, <3>1
    <3> QED BY <2>3, <3>1, <3>2
  <2>5. ObservationsTyped'
    <3>1. observations' \in Seq(ToSet(observations'))
      BY <2>3, SeqOfOwnElements
    <3>2. \A i \in DOMAIN observations : {"program", "turnover"} \subseteq DOMAIN observations[i]
      BY DEF StudyInv, ObservationsTyped
    <3>3. ASSUME NEW i \in DOMAIN observations'
          PROVE  {"program", "turnover"} \subseteq DOMAIN observations'[i]
      <4>1. CASE observations'[i] = new
        BY <2>2, <4>1
      <4>2. CASE \E k \in DOMAIN observations : observations'[i] = observations[k]
        BY <3>2, <4>2
      <4> QED BY <2>4, <4>1, <4>2
    <3> QED BY <3>1, <3>3 DEF ObservationsTyped
  <2>6. ASSUME studyModel' = "WEAK", series' = "NONE", NEW i \in DOMAIN observations'
        PROVE  ~observations'[i].controls["semiconductor"].has
    <3>1. series = "NONE" /\ studyModel = "WEAK"
      BY <1>1, <2>6
    <3>2. \A k \in DOMAIN observations : ~observations[k].controls["semiconductor"].has
      BY <3>1 DEF StudyInv
    <3> QED BY <2>2, <2>4, <3>1, <3>2
  <2> QED BY <1>1, <1>2, <2>5, <2>6 DEF StudyInv
<1> QED BY <1>3, <1>4 DEF CollectDay

\* A study that completes has a row with all its controls, and the program value
\* of the day before.
LEMMA CompletedRow ==
    ASSUME ObservationsTyped, RunStudy, studyResult'.status = "COMPLETED",
           studyResult.status # "COMPLETED"
    PROVE  \E i \in 2..Len(observations) :
                observations[i].controls["semiconductor"].has /\ observations[i - 1].program.has
<1> DEFINE rows == RegressionRows(observations)
<1>1. PICK raw \in AssessmentsOf(rows), controlled \in AssessmentsOf(Controlled(rows)) :
        studyResult' = StudyVerdict(rows, raw, controlled)
  BY DEF RunStudy
<1>2. controlled # "NONE"
  BY <1>1 DEF StudyVerdict, Hold
<1>3. CanRegress(Controlled(rows))
  BY <1>1, <1>2 DEF AssessmentsOf
<1>4. \E r \in Controlled(rows) : TRUE
  BY <1>3 DEF CanRegress
<1>5. PICK r \in rows : r.controlled
  BY <1>4 DEF Controlled
<1>6. PICK i \in (AdvLookback + 1)..Len(observations) :
        RowEligible(observations, i) /\ r = RowOf(observations, i)
  BY <1>5 DEF RegressionRows, RowIndices
<1>7. ControlsGood(observations[i])
  BY <1>5, <1>6 DEF RowOf
<1>8. observations[i].controls["semiconductor"].has
  BY <1>7 DEF ControlsGood, Factors, KnownFrom
<1>9. observations[i - 1].program.has
  BY <1>6 DEF RowEligible, KnownBy
<1>10. i \in 2..Len(observations)
  <2>1. Len(observations) \in Nat
    BY DEF ObservationsTyped
  <2> QED BY <1>6, <2>1, PrefalsificationAssumption
<1> QED BY <1>8, <1>9, <1>10

LEMMA RunStudyInv == ASSUME StudyInv, RunStudy PROVE StudyInv'
<1>1. /\ UNCHANGED <<studyModel, series, observations>>
      /\ studyPhase = "fit" /\ studyPhase' \in {"done", "failed"}
      /\ studyPhase' = "failed" => UNCHANGED studyResult
  BY DEF RunStudy
<1>2. ObservationsTyped /\ studyResult = NoResult
  BY <1>1 DEF StudyInv
<1>3. ASSUME studyModel = "WEAK", studyResult'.status = "COMPLETED"
      PROVE  MissingDatasets = {}
  <2>1. PICK i \in 2..Len(observations) :
            observations[i].controls["semiconductor"].has /\ observations[i - 1].program.has
    BY <1>2, <1>3, CompletedRow DEF NoResult
  <2>2. i \in DOMAIN observations /\ i - 1 \in DOMAIN observations
    BY <1>2 DEF ObservationsTyped
  <2>3. series # "NONE"
    BY <1>3, <2>1, <2>2 DEF StudyInv
  <2>4. observations # <<>>
    BY <2>2
  <2> QED BY <2>1, <2>2, <2>3, <2>4 DEF MissingDatasets
<1>4. MissingDatasets' = MissingDatasets
  BY <1>1 DEF MissingDatasets
<1>5. CompletedStudyHadEveryDataset'
  BY <1>1, <1>3, <1>4 DEF CompletedStudyHadEveryDataset
<1>6. ObservationsTyped'
  BY <1>1, <1>2 DEF ObservationsTyped
<1> QED BY <1>1, <1>2, <1>5, <1>6 DEF StudyInv

LEMMA StudyInvNext == StudyInv /\ [StudyNext]_studyVars => StudyInv'
<1> SUFFICES ASSUME StudyInv, [StudyNext]_studyVars PROVE StudyInv'
  OBVIOUS
<1>1. CASE StartWeakStudy
  <2>1. UNCHANGED <<series, observations, studyResult>> /\ studyPhase = "off"
        /\ studyPhase' \in {"probe", "failed"}
    BY <1>1 DEF StartWeakStudy
  <2>2. observations' = <<>> /\ studyResult' = NoResult
    BY <2>1 DEF StudyInv
  <2> QED BY <2>1, <2>2 DEF StudyInv, ObservationsTyped, CompletedStudyHadEveryDataset, NoResult
<1>2. CASE ProbeSeries
  <2>1. UNCHANGED <<studyModel, observations, studyResult>> /\ studyPhase = "probe"
        /\ studyPhase' \in {"probe", "collect"}
    BY <1>2 DEF ProbeSeries
  <2>2. observations' = <<>> /\ studyResult' = NoResult
    BY <2>1 DEF StudyInv
  <2> QED BY <2>1, <2>2 DEF StudyInv, ObservationsTyped, CompletedStudyHadEveryDataset, NoResult
<1>3. CASE CollectDay
  BY <1>3, CollectDayInv
<1>4. CASE StudyRequestFails
  <2>1. UNCHANGED <<studyModel, series, observations, studyResult>> /\ studyPhase' = "failed"
        /\ studyPhase \in {"probe", "collect"}
    BY <1>4 DEF StudyRequestFails
  <2> QED BY <2>1 DEF StudyInv, ObservationsTyped, CompletedStudyHadEveryDataset, NoResult
<1>5. CASE LoadStrongInputs
  <2>1. studyModel' # "WEAK" /\ studyResult' = NoResult /\ studyPhase' \in {"fit", "failed"}
    BY <1>5 DEF LoadStrongInputs, StudyInv
  <2>2. CASE UNCHANGED observations
    BY <2>1, <2>2 DEF StudyInv, ObservationsTyped, CompletedStudyHadEveryDataset
  <2>3. CASE observations' \in StrongInputs
    <3>1. ObservationsTyped'
      BY <2>3, PrefalsificationAssumption DEF ObservationsTyped, ToSet, TimedFields
    <3> QED BY <2>1, <3>1 DEF StudyInv, CompletedStudyHadEveryDataset
  <2> QED BY <1>5, <2>2, <2>3 DEF LoadStrongInputs
<1>6. CASE HoldWithoutInputs
  <2>1. studyModel' # "WEAK" /\ UNCHANGED observations /\ studyPhase' = "done"
    BY <1>6 DEF HoldWithoutInputs
  <2> QED BY <2>1 DEF StudyInv, ObservationsTyped, CompletedStudyHadEveryDataset
<1>7. CASE RunStudy
  BY <1>7, RunStudyInv
<1>8. CASE UNCHANGED studyVars
  BY <1>8 DEF studyVars, StudyInv, ObservationsTyped, CompletedStudyHadEveryDataset, MissingDatasets
<1> QED BY <1>1, <1>2, <1>3, <1>4, <1>5, <1>6, <1>7, <1>8 DEF StudyNext

\* A weak study that completed has seen every dataset the audit of its
\* collection requires, whatever KRX answered and whatever the CSV held.
THEOREM CompletedStudyHadEveryDatasetTheorem == StudySpec => []CompletedStudyHadEveryDataset
<1>1. StudyInv => CompletedStudyHadEveryDataset
  BY DEF StudyInv
<1> QED BY StudyInvInit, StudyInvNext, <1>1, PTL DEF StudySpec

\* A row's inputs are among the values the probe leaves alone.
LEMMA SameFeature ==
    ASSUME ObservationsTyped, NEW i \in RowIndices(observations)
    PROVE  Feature(WithOthersAfter(observations, CutoffOf(observations[i].date)), i)
               = Feature(observations, i)
<1> DEFINE moment == CutoffOf(observations[i].date)
           other == WithOthersAfter(observations, moment)
           lookback == (i - AdvLookback)..(i - 1)
<1>1. i \in (AdvLookback + 1)..Len(observations) /\ RowEligible(observations, i)
  BY DEF RowIndices
<1>2. Len(observations) \in Nat /\ AdvLookback \in Nat \ {0}
  BY PrefalsificationAssumption DEF ObservationsTyped
<1>3. lookback \subseteq DOMAIN observations /\ i - 1 \in lookback
  BY <1>1, <1>2 DEF ObservationsTyped
<1>4. observations[i - 1].program.available <= moment
  BY <1>1 DEF RowEligible, KnownBy
<1>5. \A k \in lookback : observations[k].turnover.available <= moment
  BY <1>1 DEF RowEligible, KnownBy
<1> HIDE DEF moment, lookback
<1>6. ASSUME NEW k \in DOMAIN observations, NEW f \in DOMAIN observations[k],
             observations[k][f].available <= moment
      PROVE  other[k][f] = observations[k][f]
  BY <1>6 DEF WithOthersAfter
<1> HIDE DEF other
<1>7. \A k \in lookback : {"program", "turnover"} \subseteq DOMAIN observations[k]
  BY <1>3 DEF ObservationsTyped
<1>8. other[i - 1].program = observations[i - 1].program
  BY <1>3, <1>4, <1>6, <1>7
<1>9. \A k \in lookback : other[k].turnover = observations[k].turnover
  BY <1>3, <1>5, <1>6, <1>7
<1>10. [k \in lookback |-> other[k].turnover.value] = [k \in lookback |-> observations[k].turnover.value]
  BY <1>9
<1> QED BY <1>8, <1>10 DEF Feature, other, moment, lookback

\* The feature of a day is the same whatever the values that became known
\* later, for any observations of the weak and of the strong model.
THEOREM FeatureIgnoresLaterValuesTheorem == StudySpec => []FeatureIgnoresLaterValues
<1>1. StudyInv => FeatureIgnoresLaterValues
  BY SameFeature DEF StudyInv, FeatureIgnoresLaterValues
<1> QED BY StudyInvInit, StudyInvNext, <1>1, PTL DEF StudySpec

-----------------------------------------------------------------------------
(***************************************************************************)
(* The replay.  Position and cash of the engine are the sums over the days *)
(* of what their orders moved; when every day with a signal was filled in  *)
(* full, the one is zero and the other what the trades add up to.          *)
(***************************************************************************)

\* What a day has added to the position, and to the cash in trade units.
Moved(i) ==
    IF i \in DOMAIN fillsOf THEN Sign(days[i]) * (fillsOf[i].entry - fillsOf[i].exit) ELSE 0

Earned(i) ==
    IF i \in DOMAIN fillsOf
    THEN 2000 * (Sign(days[i]) * (fillsOf[i].exit * ExitPrice(days[i])
                                    - fillsOf[i].entry * EntryPrice(days[i])))
    ELSE 0

ReplayDone ==
    /\ position = SumFunctionOnSet([i \in DOMAIN days |-> Moved(i)], DOMAIN days)
    /\ 2000 * cash = SumFunctionOnSet([i \in DOMAIN days |-> Earned(i)], DOMAIN days)
    /\ \A i \in DOMAIN fillsOf :
        days[i].signal = "NONE" => fillsOf[i] = [entry |-> 0, exit |-> 0]

DayFills == [entry : Int, exit : Int]

ReplayInv ==
    /\ days \in Seq(ReplayDays) /\ fillsOf \in Seq(DayFills)
    /\ position \in Int /\ cash \in Int
    /\ replayPhase \in {"off", "audited"} => days = <<>> /\ fillsOf = <<>> /\ position = 0 /\ cash = 0
    /\ replayPhase = "engine" => Len(fillsOf) < Len(days)
    /\ replayPhase = "score" => Len(fillsOf) = Len(days)
    /\ replayPhase # "done" => verdict = "NONE"
    /\ replayPhase \in {"engine", "score"} => ReplayDone
    /\ PassedReplayIsSettled

LEMMA QuoteTyped ==
    ASSUME NEW d \in ReplayDays
    PROVE  /\ Sign(d) \in {-1, 1} /\ EntryPrice(d) \in Int /\ ExitPrice(d) \in Int
           /\ EntryFill(d) \in Int /\ ExitFill(d) \in Int
<1>1. /\ d.entry.bid \in Int /\ d.entry.ask \in Int /\ d.exit.bid \in Int /\ d.exit.ask \in Int
      /\ d.entry.bidSize \in Int /\ d.entry.askSize \in Int
      /\ d.exit.bidSize \in Int /\ d.exit.askSize \in Int
  BY H1ReplayAssumption
<1>2. ReplayRate[1] \in Nat /\ ReplayRate[2] \in Nat \ {0} /\ Quantity \in Int
  BY H1ReplayAssumption
<1>3. ASSUME NEW q, NEW size \in Int PROVE FillOf(q, size) \in Int
  <2> DEFINE share == (size * ReplayRate[1]) \div ReplayRate[2]
  <2>1. size * ReplayRate[1] \in Int
    BY <1>2
  <2>2. share \in Int
    BY <1>2, <2>1
  <2> HIDE DEF share
  <2>3. Min({Quantity, share}) \in Int
    BY <1>2, <2>2 DEF Min
  <2> QED BY <2>3 DEF FillOf, share
<1>4. EntryFill(d) \in Int
  BY <1>1, <1>3 DEF EntryFill
<1>5. ExitFill(d) \in Int
  BY <1>1, <1>3 DEF ExitFill
<1> QED BY <1>1, <1>4, <1>5 DEF Sign, EntryPrice, ExitPrice

LEMMA SignedInt == \A s \in {-1, 1}, x \in Int : s * x \in Int
OBVIOUS

LEMMA DayTermsTyped ==
    ASSUME days \in Seq(ReplayDays), fillsOf \in Seq(DayFills), NEW i \in DOMAIN days
    PROVE  Moved(i) \in Int /\ Earned(i) \in Int
<1>1. CASE i \notin DOMAIN fillsOf
  BY <1>1 DEF Moved, Earned
<1>2. CASE i \in DOMAIN fillsOf
  <2>1. days[i] \in ReplayDays
    OBVIOUS
  <2>2. fillsOf[i] \in DayFills
    BY <1>2
  <2>3. fillsOf[i].entry \in Int /\ fillsOf[i].exit \in Int
    BY <2>2 DEF DayFills
  <2>4. Sign(days[i]) \in {-1, 1} /\ EntryPrice(days[i]) \in Int /\ ExitPrice(days[i]) \in Int
    BY <2>1, QuoteTyped
  <2>5. fillsOf[i].entry - fillsOf[i].exit \in Int
    BY <2>3
  <2>6. fillsOf[i].exit * ExitPrice(days[i]) - fillsOf[i].entry * EntryPrice(days[i]) \in Int
    BY <2>3, <2>4
  <2>7. Moved(i) \in Int
    BY <1>2, <2>4, <2>5, SignedInt DEF Moved
  <2>8. Sign(days[i]) * (fillsOf[i].exit * ExitPrice(days[i])
                                    - fillsOf[i].entry * EntryPrice(days[i])) \in Int
    BY <2>4, <2>6, SignedInt
  <2>9. Earned(i) \in Int
    BY <1>2, <2>8 DEF Earned
  <2> QED BY <2>7, <2>9
<1> QED BY <1>1, <1>2

LEMMA ReplayInvInit == ReplayInit => ReplayInv
BY DEF ReplayInit, ReplayInv, PassedReplayIsSettled

LEMMA StartReplayInv == ASSUME ReplayInv, StartReplay PROVE ReplayInv'
<1>1. PICK n \in 1..MaxDays : \E input \in [1..n -> ReplayDays] :
        /\ days' = input
        /\ replayPhase' = IF \A i \in 1..n : ReplayDayValid(input[i]) THEN "engine" ELSE "done"
  BY DEF StartReplay
<1>2. n \in Nat \ {0}
  BY H1ReplayAssumption
<1>3. days' \in [1..n -> ReplayDays] /\ replayPhase' \in {"engine", "done"}
  BY <1>1
<1>4. days' \in Seq(ReplayDays) /\ Len(days') = n /\ DOMAIN days' = 1..n
  BY <1>2, <1>3
<1>5. /\ fillsOf' = <<>> /\ position' = 0 /\ cash' = 0 /\ verdict' = "NONE"
  BY DEF StartReplay, ReplayInv
<1>6. ReplayDone'
  <2> DEFINE D == DOMAIN days'
             M == [i \in DOMAIN days |-> Moved(i)]'
             E == [i \in DOMAIN days |-> Earned(i)]'
  <2>1. IsFiniteSet(D)
    BY <1>2, <1>4, FS_Interval
  <2>2. \A i \in D : M[i] = 0 /\ E[i] = 0
    BY <1>5 DEF Moved, Earned
  <2> HIDE DEF D, M, E
  <2>3. SumFunctionOnSet(M, D) = 0 /\ SumFunctionOnSet(E, D) = 0
    BY <2>1, <2>2, SumZero
  <2> QED BY <1>5, <2>3 DEF D, M, E, ReplayDone
<1>7. PassedReplayIsSettled'
  BY <1>5 DEF PassedReplayIsSettled
<1> QED BY <1>2, <1>3, <1>4, <1>5, <1>6, <1>7 DEF ReplayInv

\* The two sums grow by what the day moved.
LEMMA RunEngineDayInv == ASSUME ReplayInv, RunEngineDay PROVE ReplayInv'
<1>1. /\ days \in Seq(ReplayDays) /\ fillsOf \in Seq(DayFills)
      /\ Len(fillsOf) < Len(days) /\ ReplayDone /\ position \in Int /\ cash \in Int
      /\ verdict = "NONE"
  BY DEF ReplayInv, RunEngineDay
<1>2. Len(fillsOf) \in Nat /\ Len(days) \in Nat
  BY <1>1
<1>3. PICK j \in Nat \ {0} : j = Len(fillsOf) + 1
  BY <1>2
<1>4. j \in DOMAIN days /\ j <= Len(days)
  BY <1>1, <1>2, <1>3
<1>5. PICK d \in ReplayDays : d = days[j]
  BY <1>1, <1>4
<1>6. PICK entered \in Int, exited \in Int :
        /\ d.signal = "NONE" => entered = 0 /\ exited = 0
        /\ fillsOf' = Append(fillsOf, [entry |-> entered, exit |-> exited])
        /\ position' = position + Sign(d) * (entered - exited)
        /\ cash' = cash + Sign(d) * (exited * ExitPrice(d) - entered * EntryPrice(d))
  <2> DEFINE entered == IF d.signal = "NONE" THEN 0 ELSE EntryFill(d)
             exited == IF d.signal = "NONE" THEN 0 ELSE ExitFill(d)
  <2>1. entered \in Int /\ exited \in Int /\ (d.signal = "NONE" => entered = 0 /\ exited = 0)
    BY QuoteTyped
  <2>2. /\ fillsOf' = Append(fillsOf, [entry |-> entered, exit |-> exited])
        /\ position' = position + Sign(d) * (entered - exited)
        /\ cash' = cash + Sign(d) * (exited * ExitPrice(d) - entered * EntryPrice(d))
    BY <1>3, <1>5 DEF RunEngineDay
  <2> HIDE DEF entered, exited
  <2> QED BY <2>1, <2>2
<1>7. /\ replayPhase' = IF Len(fillsOf') = Len(days) THEN "score" ELSE "engine"
      /\ days' = days /\ verdict' = verdict
  BY DEF RunEngineDay
<1>8. PICK fill \in DayFills : fill = [entry |-> entered, exit |-> exited]
  BY DEF DayFills
<1>9. PICK moved \in Int : moved = Sign(d) * (entered - exited)
  <2>1. entered - exited \in Int
    BY <1>6
  <2> QED BY <1>5, <2>1, QuoteTyped, SignedInt
<1>10. PICK earned \in Int : earned = Sign(d) * (exited * ExitPrice(d) - entered * EntryPrice(d))
  <2>1. exited * ExitPrice(d) - entered * EntryPrice(d) \in Int
    BY <1>5, <1>6, QuoteTyped
  <2> QED BY <1>5, <2>1, QuoteTyped, SignedInt
<1>11. /\ fillsOf' \in Seq(DayFills) /\ Len(fillsOf') = j
       /\ DOMAIN fillsOf' = 1..j /\ DOMAIN fillsOf = 1..(j - 1)
       /\ fillsOf'[j] = fill /\ \A i \in 1..(j - 1) : fillsOf'[i] = fillsOf[i]
  <2>1. fillsOf' = Append(fillsOf, fill)
    BY <1>6, <1>8
  <2> QED BY <1>1, <1>2, <1>3, <2>1
<1> DEFINE D == DOMAIN days
           M == [i \in DOMAIN days |-> Moved(i)]
           M2 == [i \in DOMAIN days |-> Moved(i)]'
           E == [i \in DOMAIN days |-> Earned(i)]
           E2 == [i \in DOMAIN days |-> Earned(i)]'
<1>12. IsFiniteSet(D) /\ j \in D
  <2>1. D = 1..Len(days)
    BY <1>1
  <2> QED BY <1>2, <1>4, <2>1, FS_Interval
<1>13. \A i \in D : M[i] \in Int
  BY <1>1, DayTermsTyped
<1>14. \A i \in D : E[i] \in Int
  BY <1>1, DayTermsTyped
<1>15. ASSUME NEW i \in D, i # j PROVE M2[i] = M[i] /\ E2[i] = E[i]
  <2>1. i \in DOMAIN fillsOf' <=> i \in DOMAIN fillsOf
    <3>1. i \in Nat
      BY <1>1
    <3> QED BY <1>11, <1>15, <3>1
  <2>2. i \in DOMAIN fillsOf => fillsOf'[i] = fillsOf[i]
    BY <1>11
  <2>3. M2[i] = M[i]
    BY <1>7, <2>1, <2>2 DEF Moved
  <2>4. E2[i] = E[i]
    BY <1>7, <2>1, <2>2 DEF Earned
  <2> QED BY <2>3, <2>4
<1>16. M[j] = 0 /\ E[j] = 0
  <2>1. j \notin DOMAIN fillsOf
    BY <1>3, <1>11
  <2> QED BY <1>4, <2>1 DEF Moved, Earned
<1>17. M2[j] = moved /\ E2[j] = 2000 * earned
  <2>1. j \in DOMAIN fillsOf' /\ fillsOf'[j].entry = entered /\ fillsOf'[j].exit = exited
    BY <1>3, <1>8, <1>11
  <2>2. Moved(j)' = moved
    BY <1>5, <1>7, <1>9, <2>1 DEF Moved
  <2>3. Earned(j)' = 2000 * earned
    BY <1>5, <1>7, <1>10, <2>1 DEF Earned
  <2> QED BY <1>4, <1>7, <2>2, <2>3
<1> HIDE DEF D, M, M2, E, E2
<1>18. PICK gained \in Int : gained = 2000 * earned
  OBVIOUS
<1>19. M2[j] = M[j] + moved
  BY <1>16, <1>17
<1>20. E2[j] = E[j] + gained
  BY <1>16, <1>17, <1>18
<1>21. SumFunctionOnSet(M2, D) = SumFunctionOnSet(M, D) + moved
  <2>1. \A i \in D : i # j => M2[i] = M[i]
    BY <1>15
  <2> QED BY <1>12, <1>13, <1>19, <2>1, SumAdds
<1>22. SumFunctionOnSet(E2, D) = SumFunctionOnSet(E, D) + gained
  <2>1. \A i \in D : i # j => E2[i] = E[i]
    BY <1>15
  <2> QED BY <1>12, <1>14, <1>20, <2>1, SumAdds
<1>23. position' = position + moved /\ cash' = cash + earned
  BY <1>6, <1>9, <1>10
<1>24. position = SumFunctionOnSet(M, D) /\ 2000 * cash = SumFunctionOnSet(E, D)
  BY <1>1 DEF ReplayDone, M, E, D
<1>25. position' \in Int /\ cash' \in Int
  BY <1>1, <1>23
<1>26. 2000 * cash' = SumFunctionOnSet(E2, D)
  BY <1>1, <1>18, <1>22, <1>23, <1>24
<1>27. position' = SumFunctionOnSet(M2, D)
  BY <1>21, <1>23, <1>24
<1>28. ASSUME NEW i \in DOMAIN fillsOf', days'[i].signal = "NONE"
       PROVE  fillsOf'[i] = [entry |-> 0, exit |-> 0]
  <2>1. CASE i = j
    BY <1>5, <1>6, <1>7, <1>8, <1>11, <1>28, <2>1
  <2>2. CASE i # j
    <3>1. i \in DOMAIN fillsOf /\ fillsOf'[i] = fillsOf[i]
      BY <1>3, <1>11, <2>2
    <3> QED BY <1>1, <1>7, <1>28, <3>1 DEF ReplayDone
  <2> QED BY <2>1, <2>2
<1>29. ReplayDone'
  <2>1. D = DOMAIN days'
    BY <1>7 DEF D
  <2> QED BY <1>26, <1>27, <1>28, <2>1 DEF ReplayDone, M2, E2
<1>30. PassedReplayIsSettled'
  BY <1>1, <1>7 DEF PassedReplayIsSettled
<1>31. /\ replayPhase' \in {"engine", "score"}
       /\ replayPhase' = "engine" => Len(fillsOf') < Len(days')
       /\ replayPhase' = "score" => Len(fillsOf') = Len(days')
  BY <1>2, <1>4, <1>7, <1>11
<1>32. days' \in Seq(ReplayDays) /\ verdict' = "NONE"
  BY <1>1, <1>7
<1> QED BY <1>11, <1>25, <1>29, <1>30, <1>31, <1>32 DEF ReplayInv
\* A replay that passes has filled every day with a signal, and only those.
LEMMA ScoreReplaySettles ==
    ASSUME ReplayInv, ScoreReplay, verdict' = "PASS" PROVE PassedReplayIsSettled'
<1> DEFINE C == Signalled
           D == DOMAIN days
           n == Cardinality(C)
           E == [i \in DOMAIN days |-> Earned(i)]
           M == [i \in DOMAIN days |-> Moved(i)]
<1>1. /\ days \in Seq(ReplayDays) /\ fillsOf \in Seq(DayFills) /\ Len(fillsOf) = Len(days)
      /\ ReplayDone /\ DOMAIN fillsOf = DOMAIN days
  BY DEF ReplayInv, ScoreReplay
<1>2. /\ D \subseteq Nat /\ IsFiniteSet(D) /\ C \in SUBSET D /\ IsFiniteSet(C) /\ C \subseteq Nat
  <2>1. D = 1..Len(days) /\ Len(days) \in Nat
    BY <1>1
  <2>2. C \subseteq D
    BY DEF Signalled
  <2> HIDE DEF C, D
  <2>3. IsFiniteSet(D) /\ D \subseteq Nat
    BY <2>1, FS_Interval
  <2> QED BY <2>2, <2>3, FS_Subset
<1>3. \A i \in C : Completed(i)
  BY DEF ScoreReplay, ReplayVerdict, Unfilled
<1>4. {i \in DOMAIN days : Completed(i)} = C
  BY <1>3 DEF Completed, Signalled
<1>5. ASSUME NEW i \in D, i \notin C PROVE M[i] = 0 /\ E[i] = 0
  <2>1. fillsOf[i].entry = 0 /\ fillsOf[i].exit = 0
    BY <1>1, <1>5 DEF Signalled, ReplayDone
  <2>2. Sign(days[i]) \in {-1, 1} /\ EntryPrice(days[i]) \in Int /\ ExitPrice(days[i]) \in Int
    BY <1>1, QuoteTyped
  <2>3. Moved(i) = 0
    BY <1>1, <2>1, <2>2 DEF Moved
  <2>4. Earned(i) = 0
    BY <1>1, <2>1, <2>2 DEF Earned
  <2> QED BY <2>3, <2>4
<1>6. ASSUME NEW i \in C PROVE M[i] = 0 /\ E[i] = TradeOf(days[i]).gross
  <2>1. fillsOf[i].entry = Quantity /\ fillsOf[i].exit = Quantity /\ Quantity \in Int /\ i \in D
    BY <1>2, <1>3, H1ReplayAssumption DEF Completed
  <2>2. Sign(days[i]) \in {-1, 1} /\ EntryPrice(days[i]) \in Int /\ ExitPrice(days[i]) \in Int
    BY <1>1, <2>1, QuoteTyped
  <2>3. Moved(i) = 0
    BY <1>1, <2>1, <2>2 DEF Moved
  <2>4. \A s \in {-1, 1}, q, x, y \in Int : 2000 * (s * (q * x - q * y)) = s * (x - y) * q * 2000
    OBVIOUS
  <2>5. Earned(i) = TradeOf(days[i]).gross
    BY <1>1, <2>1, <2>2, <2>4 DEF Earned, TradeOf
  <2> QED BY <2>1, <2>3, <2>5
<1>7. \A i \in D : E[i] \in Int
  BY <1>1, DayTermsTyped
<1>8. /\ n \in Nat /\ Ascending(C) \in [1..n -> C]
      /\ \A i, k \in 1..n : i < k => Ascending(C)[i] < Ascending(C)[k]
      /\ \A x \in C : \E i \in 1..n : Ascending(C)[i] = x
  <2> HIDE DEF C
  <2> QED BY <1>2, AscendingIs
<1>9. /\ DOMAIN trades' = 1..n
      /\ \A k \in 1..n : trades'[k] = TradeOf(days[Ascending(C)[k]])
  BY <1>4, <1>8 DEF ScoreReplay
<1>10. Len(trades') = n
  <2> DEFINE T == {TradeOf(days[i]) : i \in C}
  <2>1. \A k \in 1..n : trades'[k] \in T
    BY <1>8, <1>9
  <2>2. trades' = [k \in 1..n |-> trades'[k]]
    BY <1>4, <1>8 DEF ScoreReplay
  <2> HIDE DEF T, n
  <2>3. trades' \in [1..n -> T]
    BY <2>1, <2>2
  <2> QED BY <1>8, <2>3
<1> DEFINE H == [i \in DOMAIN trades |-> trades[i].gross]'
<1>11. \A i \in 1..n : H[i] = E[Ascending(C)[i]]
  BY <1>6, <1>8, <1>9
<1>12. \A i, k \in 1..n : Ascending(C)[i] = Ascending(C)[k] => i = k
  <2> SUFFICES ASSUME NEW i \in 1..n, NEW k \in 1..n, Ascending(C)[i] = Ascending(C)[k], i # k
               PROVE  FALSE
    OBVIOUS
  <2>1. Ascending(C)[i] \in Nat /\ i \in Int /\ k \in Int
    BY <1>2, <1>8
  <2>2. i < k \/ k < i
    BY <2>1
  <2> HIDE DEF C, n
  <2> QED BY <1>8, <2>1, <2>2
<1>13. DOMAIN H = 1..n
  BY <1>9
<1>14. position = SumFunctionOnSet(M, D) /\ 2000 * cash = SumFunctionOnSet(E, D)
  BY <1>1 DEF ReplayDone
<1>15. \A i \in D : M[i] = 0
  BY <1>5, <1>6
<1>16. \A i \in D \ C : E[i] = 0
  BY <1>5
<1> HIDE DEF C, D, E, H, M, n
<1>17. position = 0
  <2>1. IsFiniteSet(D)
    BY <1>2
  <2>2. SumFunctionOnSet(M, D) = 0
    BY <1>15, <2>1, SumZero
  <2> QED BY <1>14, <2>2
<1>18. 2000 * cash = SumFunctionOnSet(E, C)
  <2>1. IsFiniteSet(D) /\ C \in SUBSET D
    BY <1>2
  <2>2. SumFunctionOnSet(E, D) = SumFunctionOnSet(E, C)
    BY <1>7, <1>16, <2>1, SumOfPart
  <2> QED BY <1>14, <2>2
<1>19. SumFunctionOnSet(H, 1..n) = SumFunctionOnSet(E, C)
  <2> DEFINE I == 1..n
             f == Ascending(C)
  <2>1. \A i \in C : E[i] \in Int
    BY <1>2, <1>7
  <2>2. IsFiniteSet(I) /\ IsFiniteSet(C)
    BY <1>2, <1>8, FS_Interval
  <2>3. f \in [I -> C]
    BY <1>8
  <2>4. \A x \in C : \E i \in I : f[i] = x
    BY <1>8
  <2>5. \A i, k \in I : f[i] = f[k] => i = k
    BY <1>12
  <2>6. \A i \in I : H[i] = E[f[i]]
    BY <1>11
  <2> HIDE DEF I, f
  <2>7. SumFunctionOnSet(H, I) = SumFunctionOnSet(E, C)
    BY <2>1, <2>2, <2>3, <2>4, <2>5, <2>6, SumRenamed
  <2> QED BY <2>7 DEF I
<1>20. Total(H) = 2000 * cash
  BY <1>13, <1>18, <1>19 DEF Total, SumFunction
<1>21. position' = position /\ cash' = cash /\ days' = days
  BY DEF ScoreReplay
<1>22. Signalled' = C
  BY <1>21 DEF Signalled, C
<1> QED BY <1>10, <1>17, <1>20, <1>21, <1>22 DEF PassedReplayIsSettled, H, n

LEMMA ReplayInvNext == ReplayInv /\ [ReplayNext]_replayVars => ReplayInv'
<1> SUFFICES ASSUME ReplayInv, [ReplayNext]_replayVars PROVE ReplayInv'
  OBVIOUS
<1>1. CASE AuditStored
  BY <1>1 DEF AuditStored, ReplayInv, PassedReplayIsSettled
<1>2. CASE StartReplay
  BY <1>2, StartReplayInv
<1>3. CASE RunEngineDay
  BY <1>3, RunEngineDayInv
<1>4. CASE ScoreReplay
  <2>1. PassedReplayIsSettled'
    <3>1. CASE verdict' = "PASS"
      BY <1>4, <3>1, ScoreReplaySettles
    <3>2. CASE verdict' # "PASS"
      BY <3>2 DEF PassedReplayIsSettled
    <3> QED BY <3>1, <3>2
  <2> QED BY <1>4, <2>1 DEF ScoreReplay, ReplayInv
<1>5. CASE UNCHANGED replayVars
  BY <1>5 DEF replayVars, ReplayInv, ReplayDone, Moved, Earned, PassedReplayIsSettled,
              Signalled
<1> QED BY <1>1, <1>2, <1>3, <1>4, <1>5 DEF ReplayNext

\* A replay that passes leaves no position open, and its cash is what the
\* trades it counted add up to, for any days, quantity and participation rate.
THEOREM PassedReplayIsSettledTheorem == ReplaySpec => []PassedReplayIsSettled
<1>1. ReplayInv => PassedReplayIsSettled
  BY DEF ReplayInv
<1> QED BY ReplayInvInit, ReplayInvNext, <1>1, PTL DEF ReplaySpec
-----------------------------------------------------------------------------
(***************************************************************************)
(* The order flow feature.  When events are in strict order, those up to a *)
(* moment are a prefix, and the prefix up to an earlier moment is the same *)
(* whether the later events are there or not.                              *)
(***************************************************************************)

LEMMA AscendingOfPrefix ==
    ASSUME NEW m \in Nat, NEW s
    PROVE  PartAt(s, 1..m) = [i \in 1..m |-> s[i]]
<1> DEFINE P == 1..m
<1>1. Cardinality(P) = m /\ IsFiniteSet(P)
  BY FS_Interval
<1>2. ASSUME NEW n \in P PROVE Cardinality(UpTo(P, n)) = n
  <2>1. UpTo(P, n) = 1..n
    BY DEF UpTo
  <2> QED BY <2>1, FS_Interval
<1> DEFINE at == Ascending(P)
<1>3. at = [i \in 1..m |-> CHOOSE n \in P : Cardinality(UpTo(P, n)) = i]
  <2> HIDE DEF P
  <2> QED BY <1>1 DEF Ascending
<1>4. ASSUME NEW i \in 1..m PROVE at[i] = i
  <2>1. i \in P /\ Cardinality(UpTo(P, i)) = i
    BY <1>2
  <2>2. at[i] = CHOOSE n \in P : Cardinality(UpTo(P, n)) = i
    BY <1>3
  <2> HIDE DEF at, P
  <2>3. at[i] \in P /\ Cardinality(UpTo(P, at[i])) = i
    BY <2>1, <2>2
  <2> QED BY <1>2, <2>3
<1> HIDE DEF at
<1>5. PartAt(s, P) = [i \in 1..Cardinality(P) |-> s[at[i]]]
  BY DEF PartAt, at
<1> QED BY <1>1, <1>4, <1>5

LEMMA UpToMomentIsPrefix ==
    ASSUME NEW events, EventsTyped(events), AllTimed(events), StrictlyIncreasing(events),
           NEW t \in Int
    PROVE  \E m \in 0..Len(events) : {i \in DOMAIN events : events[i].time <= t} = 1..m
<1> DEFINE P == {i \in DOMAIN events : events[i].time <= t}
<1>1. /\ Len(events) \in Nat /\ DOMAIN events = 1..Len(events)
      /\ \A i \in DOMAIN events : events[i].time \in Int
  BY DEF EventsTyped, AllTimed
<1>2. ASSUME NEW i \in P, i # 1 PROVE i - 1 \in P
  <2>1. i \in 1..Len(events) /\ i - 1 \in 1..(Len(events) - 1)
    BY <1>1, <1>2
  <2>2. events[i - 1].time < events[(i - 1) + 1].time /\ (i - 1) + 1 = i
    BY <2>1 DEF StrictlyIncreasing
  <2>3. i - 1 \in DOMAIN events /\ events[i - 1].time \in Int /\ events[i].time \in Int
        /\ events[i].time <= t
    BY <1>1, <2>1
  <2> QED BY <2>2, <2>3
<1>3. IsFiniteSet(P) /\ P \subseteq Nat /\ P \subseteq 1..Len(events)
  <2>1. Len(events) \in Nat
    BY <1>1
  <2>2. IsFiniteSet(1..Len(events))
    BY <2>1, FS_Interval
  <2>3. P \in SUBSET (1..Len(events))
    BY <1>1
  <2> QED BY <2>1, <2>2, <2>3, FS_Subset
<1>4. CASE P = {}
  <2>1. 1..0 = {} /\ 0 \in 0..Len(events)
    BY <1>1
  <2> QED BY <1>4, <2>1
<1>5. CASE P # {}
  <2> HIDE DEF P
  <2>1. PICK m \in P : \A e \in P : e <= m
    BY <1>3, <1>5, LastIsThere
  <2>2. m \in Nat /\ m \in 0..Len(events) /\ P \subseteq 1..m
    BY <1>1, <1>3, <2>1
  <2> DEFINE G == {k \in 1..m : k \notin P}
  <2>3. ASSUME G # {} PROVE FALSE
    <3>1. IsFiniteSet(G) /\ G \subseteq Nat
      <4>1. IsFiniteSet(1..m) /\ G \in SUBSET (1..m) /\ 1..m \subseteq Nat
        BY <2>2, FS_Interval
      <4> HIDE DEF G
      <4> QED BY <4>1, FS_Subset
    <3> HIDE DEF G
    <3>2. PICK k \in G : \A e \in G : e <= k
      BY <2>3, <3>1, LastIsThere
    <3>3. k \in 1..m /\ k \notin P
      BY DEF G
    <3>4. k + 1 \in 1..m
      BY <2>1, <2>2, <3>3
    <3>5. k + 1 \notin G
      BY <3>2, <3>3
    <3>6. k + 1 \in P
      BY <3>4, <3>5 DEF G
    <3>7. k \in Nat /\ k + 1 # 1 /\ (k + 1) - 1 = k
      BY <2>2, <3>3
    <3>8. (k + 1) - 1 \in P
      BY <1>2, <3>6, <3>7
    <3> QED BY <3>3, <3>7, <3>8
  <2>4. P = 1..m
    BY <2>2, <2>3
  <2> QED BY <2>2, <2>4 DEF P
<1> QED BY <1>4, <1>5

\* The events of the window alone are in order, and they are all of the window.
LEMMA EligibleAlone ==
    ASSUME NEW events, EventsTyped(events), AllTimed(events), StrictlyIncreasing(events)
    PROVE  /\ AllTimed(Eligible(events)) /\ StrictlyIncreasing(Eligible(events))
           /\ Eligible(Eligible(events)) = Eligible(events)
           /\ AtStart(Eligible(events)) = AtStart(events)
<1>1. /\ Len(events) \in Nat /\ DOMAIN events = 1..Len(events)
      /\ \A i \in DOMAIN events : events[i].time \in Int
  BY DEF EventsTyped, AllTimed
<1>2. WindowStart \in Int /\ WindowEnd \in Int /\ WindowStart <= WindowEnd
  BY OfiFeatureAssumption
<1>3. PICK m \in 0..Len(events) : {i \in DOMAIN events : events[i].time <= WindowEnd} = 1..m
  BY <1>2, UpToMomentIsPrefix
<1>4. PICK n \in 0..Len(events) : {i \in DOMAIN events : events[i].time <= WindowStart} = 1..n
  BY <1>2, UpToMomentIsPrefix
<1>5. m \in Nat /\ n \in Nat /\ m <= Len(events)
  BY <1>1
<1> DEFINE p == Eligible(events)
<1>6. p = [i \in 1..m |-> events[i]]
  BY <1>3, <1>5, AscendingOfPrefix DEF Eligible, EventsUpTo
<1>7. AtStart(events) = [i \in 1..n |-> events[i]]
  BY <1>4, <1>5, AscendingOfPrefix DEF AtStart, EventsUpTo
<1> HIDE DEF p
<1>8. Len(p) = m
  <2> DEFINE E == {events[i] : i \in 1..m}
  <2>1. p \in [1..m -> E]
    BY <1>6
  <2> HIDE DEF E
  <2> QED BY <1>5, <2>1
<1>9. StrictlyIncreasing(p)
  <2> SUFFICES ASSUME NEW i \in 1..(m - 1) PROVE p[i].time < p[i + 1].time
    BY <1>8 DEF StrictlyIncreasing
  <2>1. i \in 1..(Len(events) - 1) /\ i \in 1..m /\ i + 1 \in 1..m
    BY <1>1, <1>5
  <2> QED BY <1>6, <2>1 DEF StrictlyIncreasing
<1>10. {i \in DOMAIN p : p[i].time <= WindowEnd} = 1..m
  BY <1>3, <1>6
<1>11. {i \in DOMAIN p : p[i].time <= WindowStart} = 1..n
  <2>1. ASSUME NEW i \in 1..n PROVE i \in 1..m
    <3>1. i \in DOMAIN events /\ events[i].time <= WindowStart /\ events[i].time \in Int
      BY <1>1, <1>4
    <3>2. events[i].time <= WindowEnd
      BY <1>2, <3>1
    <3> QED BY <1>3, <3>1, <3>2
  <2>2. ASSUME NEW i \in 1..m PROVE i \in 1..n <=> p[i].time <= WindowStart
    BY <1>3, <1>4, <1>6
  <2>3. DOMAIN p = 1..m
    BY <1>6
  <2> HIDE DEF p
  <2> QED BY <2>1, <2>2, <2>3
<1>12. Eligible(p) = [i \in 1..m |-> p[i]]
  BY <1>5, <1>10, AscendingOfPrefix DEF Eligible, EventsUpTo
<1>13. AtStart(p) = [i \in 1..n |-> p[i]]
  BY <1>5, <1>11, AscendingOfPrefix DEF AtStart, EventsUpTo
<1>14. Eligible(p) = p
  BY <1>6, <1>12
<1>15. AtStart(p) = AtStart(events)
  <2>1. \A i \in 1..n : p[i] = events[i]
    BY <1>6, <1>11
  <2> QED BY <1>7, <1>13, <2>1
<1>16. AllTimed(p)
  <2>1. \A i \in 1..m : i \in DOMAIN events
    BY <1>1, <1>5
  <2> QED BY <1>6, <2>1 DEF AllTimed
<1> QED BY <1>9, <1>14, <1>15, <1>16 DEF p

LEMMA SameFeatureWithoutLater ==
    ASSUME NEW w \in Windows, FiltersPassed(w)
    PROVE  FeatureOf([w EXCEPT !.quotes = Eligible(@), !.programs = Eligible(@)]) = FeatureOf(w)
<1> DEFINE v == [w EXCEPT !.quotes = Eligible(@), !.programs = Eligible(@)]
<1>1. /\ {"quotes", "programs"} \subseteq DOMAIN w
      /\ EventsTyped(w.quotes) /\ EventsTyped(w.programs)
  BY OfiFeatureAssumption
<1>2. /\ v.quotes = Eligible(w.quotes) /\ v.programs = Eligible(w.programs)
      /\ v.flags = w.flags /\ v.adv = w.adv /\ v.semantics = w.semantics
  BY <1>1
<1> HIDE DEF v
<1>3. /\ AllTimed(w.quotes) /\ StrictlyIncreasing(w.quotes)
      /\ AllTimed(w.programs) /\ StrictlyIncreasing(w.programs)
  BY DEF FiltersPassed
<1>4. /\ AllTimed(v.quotes) /\ StrictlyIncreasing(v.quotes)
      /\ Eligible(v.quotes) = Eligible(w.quotes)
      /\ AtStart(v.quotes) = AtStart(w.quotes)
  BY <1>1, <1>2, <1>3, EligibleAlone
<1>5. /\ AllTimed(v.programs) /\ StrictlyIncreasing(v.programs)
      /\ Eligible(v.programs) = Eligible(w.programs)
      /\ AtStart(v.programs) = AtStart(w.programs)
  BY <1>1, <1>2, <1>3, EligibleAlone
<1>6. FiltersPassed(v)
  BY <1>2, <1>4, <1>5 DEF FiltersPassed
<1>7. Active(v) = Active(w)
  BY <1>4 DEF Active
<1>8. ProgramNotional(v.programs, v.semantics) = ProgramNotional(w.programs, w.semantics)
  BY <1>2, <1>5 DEF ProgramNotional
<1>9. FeatureOf(v) = FeatureOf(w)
  BY <1>2, <1>6, <1>7, <1>8 DEF FeatureOf
<1> QED BY <1>9 DEF v

\* No number of a feature that could be computed depends on an event after the
\* window, for any window of events, whatever its bounds.
THEOREM FeatureIgnoresLaterEventsTheorem == OfiFeatureSpec => []FeatureIgnoresLaterEvents
<1>1. OfiFeatureInit => FeatureIgnoresLaterEvents
  BY DEF OfiFeatureInit, FeatureIgnoresLaterEvents, NotYet
<1>2. FeatureIgnoresLaterEvents /\ [ComputeFeature]_ofiFeatureVars => FeatureIgnoresLaterEvents'
  <2>1. ASSUME ComputeFeature PROVE FeatureIgnoresLaterEvents'
    <3>1. PICK w \in Windows : window' = w /\ ofiFeature' = FeatureOf(w)
      BY <2>1 DEF ComputeFeature
    <3>2. CASE ~FiltersPassed(w)
      BY <3>1, <3>2 DEF FeatureOf, NotComputable, FeatureIgnoresLaterEvents
    <3>3. CASE FiltersPassed(w)
      BY <3>1, <3>3, SameFeatureWithoutLater DEF FeatureIgnoresLaterEvents
    <3> QED BY <3>2, <3>3
  <2>2. ASSUME FeatureIgnoresLaterEvents, UNCHANGED ofiFeatureVars
        PROVE  FeatureIgnoresLaterEvents'
    BY <2>2 DEF ofiFeatureVars, FeatureIgnoresLaterEvents
  <2> QED BY <2>1, <2>2
<1> QED BY <1>1, <1>2, PTL DEF OfiFeatureSpec
-----------------------------------------------------------------------------
(***************************************************************************)
(* The time weights of the order flow feature.  Each quote of the window   *)
(* is the last one from its own moment, or the start of the window, to the *)
(* next one's, or the end: the weights telescope.                          *)
(***************************************************************************)

\* The differences between successive bounds add up to the whole.
LEMMA Telescopes ==
    ASSUME NEW L \in Nat, NEW b, \A i \in 1..(L + 1) : b[i] \in Int,
           NEW F, \A i \in 1..L : F[i] = b[i + 1] - b[i]
    PROVE  SumFunctionOnSet(F, 1..L) = b[L + 1] - b[1]
<1> DEFINE covers(k) == SumFunctionOnSet(F, 1..k) = b[k + 1] - b[1]
           B == {k \in 0..L : ~covers(k)}
<1>1. SUFFICES ASSUME B # {} PROVE FALSE
  <2>1. L \in 0..L
    OBVIOUS
  <2> QED BY <1>1, <2>1
<1>2. B \in SUBSET Nat
  OBVIOUS
<1> HIDE DEF B
<1>3. PICK k \in B : \A j \in B : <<j, k>> \notin OpToRel(<, Nat)
  BY <1>1, <1>2, NatLessThanWellFounded, WFMin
<1>4. k \in 0..L /\ ~covers(k) /\ k \in Nat
  BY DEF B
<1>5. CASE k = 0
  <2>1. 1..0 = {}
    OBVIOUS
  <2>2. SumFunctionOnSet(F, {}) = 0
    BY SumZero, FS_EmptySet
  <2>3. b[1] \in Int
    OBVIOUS
  <2> QED BY <1>4, <1>5, <2>1, <2>2, <2>3
<1>6. CASE k # 0
  <2> DEFINE j == k - 1
  <2>1. j \in 0..L /\ j \in Nat /\ j < k /\ j + 1 = k /\ k \in 1..L
    BY <1>4, <1>6
  <2>2. j \notin B
    BY <1>2, <1>3, <2>1 DEF OpToRel
  <2>3. covers(j)
    BY <2>1, <2>2 DEF B
  <2>4. \A i \in 1..k : F[i] \in Int
    <3> SUFFICES ASSUME NEW i \in 1..k PROVE F[i] \in Int
      OBVIOUS
    <3>1. i \in 1..L /\ i \in 1..(L + 1) /\ i + 1 \in 1..(L + 1)
      BY <1>4
    <3>2. b[i] \in Int /\ b[i + 1] \in Int
      BY <3>1
    <3> QED BY <3>1, <3>2
  <2>5. IsFiniteSet(1..k)
    BY <1>4, FS_Interval
  <2>6. SumFunctionOnSet(F, 1..k) = F[k] + SumFunctionOnSet(F, 1..j)
    <3>1. k \in 1..k
      BY <1>4, <2>1
    <3>2. SumFunctionOnSet(F, 1..k) = F[k] + SumFunctionOnSet(F, (1..k) \ {k})
      BY <2>4, <2>5, <3>1, SumWithout
    <3>3. (1..k) \ {k} = 1..j
      <4>1. ASSUME NEW i \in (1..k) \ {k} PROVE i \in 1..j
        BY <2>1
      <4>2. ASSUME NEW i \in 1..j PROVE i \in (1..k) \ {k}
        BY <2>1
      <4> QED BY <4>1, <4>2
    <3> HIDE DEF j
    <3> QED BY <3>2, <3>3
  <2> HIDE DEF covers, j
  <2>7. F[k] = b[k + 1] - b[k]
    BY <2>1
  <2>8. b[k] \in Int /\ b[k + 1] \in Int /\ b[1] \in Int
    <3>1. k \in 1..(L + 1) /\ k + 1 \in 1..(L + 1) /\ 1 \in 1..(L + 1)
      BY <1>4, <2>1
    <3> QED BY <3>1
  <2>9. covers(k)
    BY <2>1, <2>3, <2>6, <2>7, <2>8 DEF covers
  <2> QED BY <1>4, <2>9
<1> QED BY <1>5, <1>6

\* One more fraction over c keeps the value of the sum over c.
LEMMA AddedFraction ==
    ASSUME NEW n \in Int, NEW d \in Int, NEW c \in Int, NEW e \in Int,
           NEW w \in Int, NEW sum \in Int, n * c = d * (e * sum)
    PROVE  ((e * w) * d + n * c) * c = (c * d) * (e * (w + sum))
<1>1. ((e * w) * d + n * c) * c = ((e * w) * d + d * (e * sum)) * c
  OBVIOUS
<1>2. ((e * w) * d + d * (e * sum)) * c = (c * d) * (e * (w + sum))
  OBVIOUS
<1> QED BY <1>1, <1>2

\* The sum of e times each weight, over c.
OneBook(L, W, c, e) == [i \in 1..L |-> <<e * W[i], c>>]

AddsUpTo(f, c, e, sum) == f[1] * c = f[2] * (e * sum) /\ f[1] \in Int /\ f[2] \in Int

\* Fractions over c, of numerators e times a weight: their sum times c is e
\* times the sum of the weights, over the common denominator.
LEMMA SameBookSum ==
    ASSUME NEW L \in Nat, NEW c \in Int, NEW e \in Int, NEW W, \A i \in 1..L : W[i] \in Int
    PROVE  AddsUpTo(SumFractions(OneBook(L, W, c, e)), c, e, SumFunctionOnSet(W, 1..L))
<1> DEFINE S == 1..L
           T == [i \in S |-> <<e * W[i], c>>]
           X == Int \X Int
           op == [x \in X \X X |-> AddFraction(x[1], x[2])]
           step(g, s) == IF s = {} THEN <<0, 1>> ELSE AddFraction(T[Pick(s)], g[s \ {Pick(s)}])
           fold(g) == g = [s \in SUBSET S |-> step(g, s)]
           f == CHOOSE g : fold(g)
<1>1. IsFiniteSet(S)
  BY FS_Interval
<1>2. ASSUME NEW i \in S PROVE e * W[i] \in Int /\ T[i] = <<e * W[i], c>> /\ T[i] \in X
  <2> PICK w \in Int : w = W[i]
    OBVIOUS
  <2>1. e * w \in Int
    OBVIOUS
  <2> QED BY <2>1
<1>3. ASSUME NEW x \in X, NEW y \in X PROVE AddFraction(x, y) \in X
  <2> PICK x1, x2, y1, y2 \in Int : x = <<x1, x2>> /\ y = <<y1, y2>>
    OBVIOUS
  <2>1. x1 * y2 + y1 * x2 \in Int /\ x2 * y2 \in Int
    OBVIOUS
  <2> QED BY <2>1 DEF AddFraction
<1>4. DOMAIN T = S
  OBVIOUS
<1>5. SumFractions(T) = f[S]
  BY <1>4 DEF SumFractions, FoldSeq, FoldFunction, FoldFunctionOnSet, MapThenFoldSet, Pick
<1> HIDE DEF T
<1>6. \E g : fold(g)
  <2>1. op \in [X \X X -> X]
    BY <1>3
  <2>2. \A x, y \in X : op[<<x, y>>] = AddFraction(x, y)
    OBVIOUS
  <2>3. <<0, 1>> \in X
    OBVIOUS
  <2> HIDE DEF op, X, S
  <2>4. PICK g : IsFold(op, <<0, 1>>, X, T, S, g)
    BY <1>1, <1>2, <2>1, <2>3, FoldExists
  <2>5. ASSUME NEW s \in SUBSET S PROVE g[s] = step(g, s)
    <3>1. g[s] = StepOf(op, <<0, 1>>, T, g, s)
      BY <2>4 DEF IsFold
    <3>2. s # {} => T[Pick(s)] \in X /\ g[s \ {Pick(s)}] \in X
      BY <1>2, <2>4, PickIsThere DEF IsFold
    <3> QED BY <2>2, <3>1, <3>2 DEF StepOf
  <2> HIDE DEF step
  <2> QED BY <2>4, <2>5 DEF IsFold
<1>7. fold(f)
  BY <1>6
<1> HIDE DEF f
<1>8. \A s \in SUBSET S : f[s] = step(f, s)
  <2> HIDE DEF step
  <2> QED BY <1>7
<1> DEFINE good(s) == /\ f[s] \in X
                      /\ f[s][1] * c = f[s][2] * (e * SumFunctionOnSet(W, s))
           B == {s \in SUBSET S : ~good(s)}
<1>9. B = {}
  <2> SUFFICES ASSUME B # {} PROVE FALSE
    OBVIOUS
  <2>1. PICK s \in B : \A u \in SUBSET s : u # s => u \notin B
    <3>1. B \in SUBSET SUBSET S
      OBVIOUS
    <3> HIDE DEF B, S
    <3> QED BY <1>1, <3>1, SmallestSubset
  <2>2. s \in SUBSET S /\ ~good(s) /\ IsFiniteSet(s)
    BY <1>1, FS_Subset
  <2>3. s # {}
    <3> SUFFICES ASSUME s = {} PROVE good(s)
      BY <2>2
    <3>1. SumFunctionOnSet(W, {}) = 0
      BY SumZero, FS_EmptySet
    <3>2. f[s] = <<0, 1>>
      BY <1>8, <2>2
    <3>3. 0 * c = 1 * (e * 0)
      OBVIOUS
    <3> QED BY <3>1, <3>2, <3>3
  <2> DEFINE x == Pick(s)
             u == s \ {x}
  <2>4. x \in s /\ x \in S /\ u \in SUBSET s /\ u # s /\ u \in SUBSET S /\ IsFiniteSet(u)
    BY <2>2, <2>3, PickIsThere, FS_Subset
  <2>5. f[s] = AddFraction(T[x], f[u])
    BY <1>8, <2>2, <2>3
  <2>6. good(u)
    BY <2>1, <2>4
  <2>7. \A y \in s : W[y] \in Int
    BY <2>2
  <2> HIDE DEF B, x
  <2>8. SumFunctionOnSet(W, s) = W[x] + SumFunctionOnSet(W, u)
    BY <2>2, <2>4, <2>7, SumWithout
  <2>9. SumFunctionOnSet(W, u) \in Int
    BY <2>4, <2>7, SumInt
  <2> HIDE DEF u
  <2> PICK n, d \in Int : f[u] = <<n, d>>
    BY <2>6
  <2> PICK w, sum \in Int : w = W[x] /\ sum = SumFunctionOnSet(W, u)
    BY <2>4, <2>7, <2>9
  <2>10. n * c = d * (e * sum)
    BY <2>6
  <2>11. T[x] = <<e * w, c>>
    BY <1>2, <2>4
  <2>12. f[s] = <<(e * w) * d + n * c, c * d>>
    BY <2>5, <2>11 DEF AddFraction
  <2>13. ((e * w) * d + n * c) * c = (c * d) * (e * (w + sum))
    BY <2>10, AddedFraction
  <2>14. (e * w) * d + n * c \in Int /\ c * d \in Int
    OBVIOUS
  <2>15. f[s] \in X
    BY <2>12, <2>14
  <2>16. f[s][1] * c = f[s][2] * (e * SumFunctionOnSet(W, s))
    BY <2>8, <2>12, <2>13
  <2> QED BY <2>2, <2>15, <2>16
<1>10. good(S)
  <2>1. S \in SUBSET S
    OBVIOUS
  <2> HIDE DEF good, S
  <2> QED BY <1>9, <2>1
<1>11. SumFractions(OneBook(L, W, c, e)) = f[S]
  BY <1>5 DEF OneBook, T
<1> HIDE DEF S
<1>12. f[S] \in X /\ f[S][1] * c = f[S][2] * (e * SumFunctionOnSet(W, S))
  BY <1>10
<1> QED BY <1>11, <1>12 DEF AddsUpTo, S

LEMMA LargerOfTwo ==
    ASSUME NEW a \in Int, NEW b \in Int
    PROVE  Max({a, b}) = IF a >= b THEN a ELSE b
BY DEF Max

LEMMA SmallerOfTwo ==
    ASSUME NEW a \in Int, NEW b \in Int
    PROVE  Min({a, b}) = IF a <= b THEN a ELSE b
BY DEF Min

\* Quotes of which the first is the one valid at the start of the window, and
\* the others came one after the other until its end.
FillWindow(qs) ==
    /\ Len(qs) \in Nat \ {0} /\ DOMAIN qs = 1..Len(qs)
    /\ \A i \in 1..Len(qs) : qs[i].time \in Int /\ qs[i].time <= WindowEnd
    /\ \A i \in 1..(Len(qs) - 1) : qs[i].time < qs[i + 1].time
    /\ \A i \in 1..Len(qs) : qs[i].time <= WindowStart <=> i = 1
    /\ \A i \in 1..Len(qs) : qs[i].bidDepth \in Int /\ qs[i].askDepth \in Int

LEMMA ActiveFillsWindow ==
    ASSUME NEW w \in Windows, FiltersPassed(w)
    PROVE  FillWindow(Active(w))
<1> DEFINE events == w.quotes
<1>1. /\ EventsTyped(events) /\ AllTimed(events) /\ StrictlyIncreasing(events)
      /\ \A i \in DOMAIN events : events[i].bidDepth \in Int /\ events[i].askDepth \in Int
      /\ AtStart(events) # <<>>
  BY OfiFeatureAssumption DEF FiltersPassed
<1> HIDE DEF events
<1>2. WindowStart \in Int /\ WindowEnd \in Int /\ WindowStart <= WindowEnd
  BY OfiFeatureAssumption
<1>3. /\ Len(events) \in Nat /\ DOMAIN events = 1..Len(events)
      /\ \A i \in DOMAIN events : events[i].time \in Int
  BY <1>1 DEF EventsTyped, AllTimed
<1>4. PICK m \in 0..Len(events) : {i \in DOMAIN events : events[i].time <= WindowEnd} = 1..m
  BY <1>1, <1>2, UpToMomentIsPrefix
<1>5. PICK n \in 0..Len(events) : {i \in DOMAIN events : events[i].time <= WindowStart} = 1..n
  BY <1>1, <1>2, UpToMomentIsPrefix
<1>6. m \in Nat /\ n \in Nat /\ m <= Len(events) /\ n <= Len(events)
  BY <1>3
<1> DEFINE p == Eligible(events)
           first == AtStart(events)
<1>7. p = [i \in 1..m |-> events[i]]
  BY <1>4, <1>6, AscendingOfPrefix DEF Eligible, EventsUpTo
<1>8. first = [i \in 1..n |-> events[i]]
  BY <1>5, <1>6, AscendingOfPrefix DEF AtStart, EventsUpTo
<1>9. ASSUME NEW i \in 1..Len(events)
      PROVE  (i <= m <=> events[i].time <= WindowEnd) /\ (i <= n <=> events[i].time <= WindowStart)
  <2>1. i \in Nat /\ i >= 1 /\ i \in DOMAIN events
    BY <1>3
  <2>2. i \in 1..m <=> events[i].time <= WindowEnd
    BY <1>4, <2>1
  <2>3. i \in 1..n <=> events[i].time <= WindowStart
    BY <1>5, <2>1
  <2> QED BY <1>6, <2>1, <2>2, <2>3
<1>10. n >= 1
  <2>1. first # <<>>
    BY <1>1
  <2> SUFFICES ASSUME n = 0 PROVE FALSE
    BY <1>6
  <2> QED BY <1>8, <2>1
<1>11. n <= m
  <2>1. n \in 1..Len(events) /\ n \in DOMAIN events
    BY <1>3, <1>6, <1>10
  <2>2. events[n].time <= WindowStart
    BY <1>6, <1>9, <2>1
  <2>3. events[n].time \in Int
    BY <1>3, <2>1
  <2>4. events[n].time <= WindowEnd
    BY <1>2, <2>2, <2>3
  <2> QED BY <1>9, <2>1, <2>4
<1> HIDE DEF p, first
<1>12. Len(p) = m /\ Len(first) = n
  <2> DEFINE E == {events[i] : i \in 1..m}
             G == {events[i] : i \in 1..n}
  <2>1. p \in [1..m -> E] /\ first \in [1..n -> G]
    BY <1>7, <1>8
  <2> HIDE DEF E, G
  <2> QED BY <1>6, <2>1
<1> DEFINE L == (1 + m) - n
           qs == Active(w)
<1>13. qs = [i \in 1..L |-> p[(i + n) - 1]]
  <2>1. qs = SubSeq(p, n, m)
    BY <1>12 DEF Active, p, first, events
  <2>2. SubSeq(p, n, m) = [i \in 1..((1 + m) - n) |-> p[(i + n) - 1]]
    OBVIOUS
  <2> QED BY <2>1, <2>2
<1>14. L \in Nat /\ L >= 1
  BY <1>6, <1>11
<1>15. ASSUME NEW i \in 1..L
       PROVE  /\ (i + n) - 1 \in 1..m /\ (i + n) - 1 \in 1..Len(events)
              /\ (i + n) - 1 \in DOMAIN events
              /\ qs[i] = events[(i + n) - 1]
  <2>1. (i + n) - 1 \in 1..m /\ (i + n) - 1 \in 1..Len(events)
    BY <1>6, <1>10, <1>11
  <2>2. qs[i] = p[(i + n) - 1]
    BY <1>13
  <2> QED BY <1>3, <1>7, <2>1, <2>2
<1>16. Len(qs) = L /\ DOMAIN qs = 1..L
  <2> DEFINE E == {p[(i + n) - 1] : i \in 1..L}
  <2>1. qs \in [1..L -> E]
    BY <1>13
  <2> HIDE DEF E, qs, L
  <2> QED BY <1>14, <2>1
<1> HIDE DEF qs
<1>17. ASSUME NEW i \in 1..L
       PROVE  /\ qs[i].time \in Int /\ qs[i].time <= WindowEnd
              /\ qs[i].time <= WindowStart <=> i = 1
              /\ qs[i].bidDepth \in Int /\ qs[i].askDepth \in Int
  <2> DEFINE k == (i + n) - 1
  <2>1. k \in 1..m /\ k \in 1..Len(events) /\ k \in DOMAIN events /\ qs[i] = events[k]
    BY <1>15
  <2>2. k <= m /\ (k <= n <=> i = 1)
    BY <1>6, <1>14
  <2> HIDE DEF k
  <2>3. events[k].time \in Int /\ events[k].bidDepth \in Int /\ events[k].askDepth \in Int
    BY <1>1, <1>3, <2>1
  <2> QED BY <1>9, <2>1, <2>2, <2>3
<1>18. ASSUME NEW i \in 1..(L - 1) PROVE qs[i].time < qs[i + 1].time
  <2> DEFINE k == (i + n) - 1
  <2>1. i \in 1..L /\ i + 1 \in 1..L /\ k + 1 = ((i + 1) + n) - 1
    BY <1>6, <1>14
  <2>2. qs[i] = events[k] /\ qs[i + 1] = events[k + 1]
    BY <1>15, <2>1
  <2>3. k \in 1..(Len(events) - 1)
    BY <1>6, <1>10, <1>11
  <2>4. events[k].time < events[k + 1].time
    BY <1>1, <2>3 DEF StrictlyIncreasing
  <2> QED BY <2>2, <2>4
<1> HIDE DEF L
<1> QED BY <1>14, <1>16, <1>17, <1>18 DEF FillWindow, qs

Weight(qs, i) == Max({Duration(qs, i), 0})

LEMMA WeightsAddUp ==
    ASSUME NEW qs, FillWindow(qs), NEW W, \A i \in 1..Len(qs) : W[i] = Weight(qs, i)
    PROVE  /\ \A i \in 1..Len(qs) : W[i] \in Int
           /\ SumFunctionOnSet(W, 1..Len(qs)) = WindowTicks
<1> DEFINE L == Len(qs)
           bound(i) == IF i = 1 THEN WindowStart ELSE IF i = L + 1 THEN WindowEnd ELSE qs[i].time
           b == [i \in 1..(L + 1) |-> bound(i)]
<1>1. L \in Nat /\ L >= 1
  BY DEF FillWindow
<1>2. /\ WindowStart \in Int /\ WindowEnd \in Int /\ WindowTicks \in Int
      /\ WindowEnd = WindowStart + WindowTicks /\ WindowStart <= WindowEnd
  BY OfiFeatureAssumption
<1>3. ASSUME NEW i \in 1..L
      PROVE  /\ qs[i].time \in Int /\ qs[i].time <= WindowEnd
             /\ qs[i].time <= WindowStart <=> i = 1
  BY DEF FillWindow
<1>4. ASSUME NEW i \in 1..(L + 1) PROVE b[i] = bound(i) /\ b[i] \in Int
  <2>1. i # L + 1 => i \in 1..L
    BY <1>1
  <2> QED BY <1>2, <1>3, <2>1
<1>5. ASSUME NEW i \in 1..L PROVE W[i] = b[i + 1] - b[i]
  <2>1. i \in 1..(L + 1) /\ i + 1 \in 1..(L + 1) /\ i # L + 1 /\ i + 1 # 1
    BY <1>1
  <2>2. b[i] = (IF i = 1 THEN WindowStart ELSE qs[i].time)
    BY <1>4, <2>1
  <2>3. b[i + 1] = (IF i = L THEN WindowEnd ELSE qs[i + 1].time)
    BY <1>1, <1>4, <2>1
  <2>4. b[i] \in Int /\ b[i + 1] \in Int
    BY <1>4, <2>1
  <2> HIDE DEF b
  <2>5. Max({qs[i].time, WindowStart}) = b[i]
    BY <1>2, <1>3, <2>2, LargerOfTwo
  <2>6. (IF i < L THEN Min({qs[i + 1].time, WindowEnd}) ELSE WindowEnd) = b[i + 1]
    <3>1. CASE i = L
      BY <1>1, <2>3, <3>1
    <3>2. CASE i # L
      <4>1. i < L /\ i + 1 \in 1..L
        BY <1>1, <3>2
      <4>2. qs[i + 1].time \in Int /\ qs[i + 1].time <= WindowEnd
        BY <1>3, <4>1
      <4>3. Min({qs[i + 1].time, WindowEnd}) = qs[i + 1].time
        BY <1>2, <4>2, SmallerOfTwo
      <4> QED BY <2>3, <3>2, <4>1, <4>3
    <3> QED BY <3>1, <3>2
  <2>7. Duration(qs, i) = b[i + 1] - b[i]
    BY <2>5, <2>6 DEF Duration
  <2>8. b[i] <= b[i + 1]
    <3>1. CASE i = L
      BY <1>2, <1>3, <2>2, <2>3, <3>1
    <3>2. CASE i # L
      <4>1. i \in 1..(L - 1) /\ i + 1 \in 1..L /\ i + 1 # 1
        BY <1>1, <3>2
      <4>2. qs[i].time < qs[i + 1].time
        BY <4>1 DEF FillWindow
      <4>3. ~(qs[i + 1].time <= WindowStart) /\ qs[i + 1].time \in Int /\ qs[i].time \in Int
        BY <1>3, <4>1
      <4> QED BY <1>2, <2>2, <2>3, <3>2, <4>2, <4>3
    <3> QED BY <3>1, <3>2
  <2>9. b[i + 1] - b[i] \in Int /\ b[i + 1] - b[i] >= 0
    BY <2>4, <2>8
  <2>10. Max({b[i + 1] - b[i], 0}) = b[i + 1] - b[i]
    BY <2>9, LargerOfTwo
  <2> QED BY <2>7, <2>10 DEF Weight
<1>6. \A i \in 1..L : W[i] \in Int
  <2> SUFFICES ASSUME NEW i \in 1..L PROVE W[i] \in Int
    OBVIOUS
  <2>1. i \in 1..(L + 1) /\ i + 1 \in 1..(L + 1)
    BY <1>1
  <2>2. b[i] \in Int /\ b[i + 1] \in Int
    BY <1>4, <2>1
  <2> HIDE DEF b
  <2> QED BY <1>5, <2>2
<1>7. b[1] = WindowStart /\ b[L + 1] = WindowEnd
  <2>1. 1 \in 1..(L + 1) /\ L + 1 \in 1..(L + 1) /\ L + 1 # 1
    BY <1>1
  <2> QED BY <1>4, <2>1
<1>8. \A i \in 1..(L + 1) : b[i] \in Int
  BY <1>4
<1> HIDE DEF b, L
<1>9. SumFunctionOnSet(W, 1..L) = b[L + 1] - b[1]
  BY <1>1, <1>5, <1>8, Telescopes
<1> QED BY <1>2, <1>6, <1>7, <1>9 DEF L

LEMMA ImbalanceOfOneBook ==
    ASSUME NEW qs, FillWindow(qs),
           NEW c \in Int, NEW e \in Int,
           \A i \in 1..Len(qs) : /\ qs[i].bidDepth + qs[i].askDepth = c
                                 /\ qs[i].bidDepth - qs[i].askDepth = e
    PROVE  LET d == DepthImbalance(qs)
           IN  d[1] * c = (d[2] * WindowTicks) * e
<1> DEFINE L == Len(qs)
           W == [i \in 1..L |-> Weight(qs, i)]
           d == DepthImbalance(qs)
<1>1. L \in Nat /\ DOMAIN qs = 1..L
  BY DEF FillWindow
<1>2. \A i \in 1..L : W[i] = Weight(qs, i)
  OBVIOUS
<1>3. d = SumFractions(OneBook(L, W, c, e))
  <2>1. [i \in DOMAIN qs |->
           <<(qs[i].bidDepth - qs[i].askDepth) * Max({Duration(qs, i), 0}),
             qs[i].bidDepth + qs[i].askDepth>>] = OneBook(L, W, c, e)
    BY <1>1, <1>2 DEF Weight, OneBook
  <2> QED BY <2>1 DEF DepthImbalance
<1> HIDE DEF W, L, d
<1>4. (\A i \in 1..L : W[i] \in Int) /\ SumFunctionOnSet(W, 1..L) = WindowTicks
  BY <1>2, WeightsAddUp DEF L
<1>5. AddsUpTo(d, c, e, SumFunctionOnSet(W, 1..L))
  BY <1>1, <1>3, <1>4, SameBookSum
<1>6. d[1] * c = d[2] * (e * WindowTicks) /\ d[1] \in Int /\ d[2] \in Int
  BY <1>4, <1>5 DEF AddsUpTo
<1> PICK x, y, t \in Int : x = d[1] /\ y = d[2] /\ t = WindowTicks
  BY <1>6, OfiFeatureAssumption
<1>7. x * c = y * (e * t)
  BY <1>6
<1>8. y * (e * t) = (y * t) * e
  OBVIOUS
<1> QED BY <1>7, <1>8 DEF d

\* OfiFeature!WeightsCoverTheWindow: whenever the quotes came, the weights of
\* the imbalance add up to the window.
THEOREM WeightsCoverTheWindowTheorem == OfiFeatureSpec => []WeightsCoverTheWindow
<1>1. OfiFeatureInit => WeightsCoverTheWindow
  BY DEF OfiFeatureInit, WeightsCoverTheWindow, NotYet
<1>2. WeightsCoverTheWindow /\ [ComputeFeature]_ofiFeatureVars => WeightsCoverTheWindow'
  <2>1. ASSUME ComputeFeature PROVE WeightsCoverTheWindow'
    <3> PICK w \in Windows : window' = w /\ ofiFeature' = FeatureOf(w)
      BY <2>1 DEF ComputeFeature
    <3> DEFINE qs == Active(w)
               first == qs[1]
               f == FeatureOf(w)
    <3> SUFFICES ASSUME f.status = "COMPUTABLE",
                        \A q \in ToSet(qs) : q.bidDepth = first.bidDepth /\ q.askDepth = first.askDepth
                 PROVE  f.x_depth[1] * (first.bidDepth + first.askDepth)
                          = f.x_depth[2] * (first.bidDepth - first.askDepth)
      BY DEF WeightsCoverTheWindow
    <3>1. FiltersPassed(w)
      BY DEF FeatureOf, NotComputable
    <3>2. f.x_depth = <<DepthImbalance(qs)[1], DepthImbalance(qs)[2] * WindowTicks>>
      BY <3>1 DEF FeatureOf, NotComputable
    <3>3. FillWindow(qs)
      BY <3>1, ActiveFillsWindow
    <3> HIDE DEF qs, f
    <3>4. /\ 1 \in 1..Len(qs) /\ first.bidDepth \in Int /\ first.askDepth \in Int
          /\ \A i \in 1..Len(qs) : qs[i] \in ToSet(qs)
      BY <3>3 DEF FillWindow, ToSet
    <3> PICK c \in Int : c = first.bidDepth + first.askDepth
      BY <3>4
    <3> PICK e \in Int : e = first.bidDepth - first.askDepth
      BY <3>4
    <3>5. \A i \in 1..Len(qs) : /\ qs[i].bidDepth + qs[i].askDepth = c
                                /\ qs[i].bidDepth - qs[i].askDepth = e
      BY <3>4
    <3>6. DepthImbalance(qs)[1] * c = (DepthImbalance(qs)[2] * WindowTicks) * e
      BY <3>3, <3>5, ImbalanceOfOneBook
    <3> QED BY <3>2, <3>6
  <2>2. ASSUME WeightsCoverTheWindow, UNCHANGED ofiFeatureVars PROVE WeightsCoverTheWindow'
    BY <2>2 DEF ofiFeatureVars, WeightsCoverTheWindow
  <2> QED BY <2>1, <2>2
<1> QED BY <1>1, <1>2, PTL DEF OfiFeatureSpec
-----------------------------------------------------------------------------
(***************************************************************************)
(* The walk-forward study.  The selected bars have a date each, so windows *)
(* that share no bar share no date; the test windows of two folds share no *)
(* bar, since the window moves by no less than it has days.                *)
(***************************************************************************)

OneDateEach(s) ==
    /\ Len(s) \in Nat /\ DOMAIN s = 1..Len(s)
    /\ \A i, k \in DOMAIN s : s[i].date = s[k].date => i = k

FoldOf(n) == [train |-> DatesOf(Split(n).train), test |-> DatesOf(Split(n).test)]

WalkInv ==
    /\ OneDateEach(bars) /\ OneDateEach(candidates) /\ OneDateEach(allTrades)
    /\ (\E S : folds \in Seq(S)) /\ (\E S : allTrades \in Seq(S))
    /\ \A n \in DOMAIN folds : folds[n] = FoldOf(n)
    /\ \A k \in DOMAIN allTrades : \E n \in DOMAIN folds : allTrades[k].date \in folds[n].test
    /\ wfPhase = "off" => folds = <<>> /\ allTrades = <<>>

LEMMA WalkNumbers ==
    /\ TrainDays \in Nat /\ ValidationDays \in Nat /\ TestDays \in Nat /\ TradingDays \in Nat
    /\ AdvBars \in Nat \ {0} /\ TestDays <= ValidationDays
BY WalkForwardAssumption

LEMMA DatesApart ==
    ASSUME OneDateEach(bars), NEW I, NEW K, I \cap K = {}
    PROVE  DatesOf(I) \cap DatesOf(K) = {}
BY DEF OneDateEach, DatesOf

LEMMA FoldsApart ==
    ASSUME NEW m \in Nat \ {0}, NEW n \in Nat \ {0}
    PROVE  /\ Split(m).train \cap Split(m).test = {}
           /\ m < n => Split(m).test \cap Split(n).test = {}
<1>1. PICK a \in Int : a = TrainDays + (m - 1) * ValidationDays
  <2>1. (m - 1) * ValidationDays \in Int
    BY WalkNumbers
  <2> QED BY <2>1, WalkNumbers
<1>2. PICK b \in Int : b = TrainDays + (n - 1) * ValidationDays
  <2>1. (n - 1) * ValidationDays \in Int
    BY WalkNumbers
  <2> QED BY <2>1, WalkNumbers
<1>3. m < n => a + ValidationDays <= b
  <2> SUFFICES ASSUME m < n PROVE a + ValidationDays <= b
    OBVIOUS
  <2>1. \A x, y, v \in Nat : x < y => x * v + v <= y * v
    <3> SUFFICES ASSUME NEW x \in Nat, NEW y \in Nat, NEW v \in Nat, x < y
                 PROVE  x * v + v <= y * v
      OBVIOUS
    <3>1. PICK z \in Nat : y = x + 1 + z
      <4>1. y - x - 1 \in Nat /\ y = x + 1 + (y - x - 1)
        OBVIOUS
      <4> QED BY <4>1
    <3>2. y * v = x * v + v + z * v
      BY <3>1
    <3>3. z * v \in Nat /\ x * v \in Nat
      BY <3>1
    <3> QED BY <3>2, <3>3
  <2>2. m - 1 \in Nat /\ n - 1 \in Nat /\ m - 1 < n - 1
    OBVIOUS
  <2>3. (m - 1) * ValidationDays + ValidationDays <= (n - 1) * ValidationDays
    BY <2>1, <2>2, WalkNumbers
  <2>4. (m - 1) * ValidationDays \in Int /\ (n - 1) * ValidationDays \in Int
    BY WalkNumbers
  <2> QED BY <1>1, <1>2, <2>3, <2>4, WalkNumbers
<1>4. /\ Split(m).train = 1..a /\ Split(m).test = (a + 1)..(a + TestDays)
      /\ Split(n).test = (b + 1)..(b + TestDays)
  BY <1>1, <1>2 DEF Split
<1> QED BY <1>3, <1>4, WalkNumbers

\* The part of a sequence at some of its places has dates of its own too.
LEMMA PartHasOneDateEach ==
    ASSUME NEW s, OneDateEach(s), NEW places \in SUBSET DOMAIN s
    PROVE  /\ OneDateEach(PartAt(s, places))
           /\ \A k \in DOMAIN PartAt(s, places) :
                \E i \in places : PartAt(s, places)[k] = s[i]
<1>1. Len(s) \in Nat /\ DOMAIN s = 1..Len(s)
  BY DEF OneDateEach
<1>2. IsFiniteSet(places) /\ places \subseteq Nat
  <2>1. IsFiniteSet(1..Len(s)) /\ places \in SUBSET (1..Len(s))
    BY <1>1, FS_Interval
  <2> QED BY <1>1, <2>1, FS_Subset
<1> DEFINE n == Cardinality(places)
           at == Ascending(places)
           part == PartAt(s, places)
<1>3. /\ n \in Nat /\ at \in [1..n -> places]
      /\ \A i, k \in 1..n : i < k => at[i] < at[k]
  BY <1>2, AscendingIs
<1>4. part = [i \in 1..n |-> s[at[i]]]
  BY DEF PartAt
<1> HIDE DEF at, n, part
<1>5. Len(part) = n /\ DOMAIN part = 1..n
  <2> DEFINE E == {s[i] : i \in places}
  <2>1. part \in [1..n -> E]
    BY <1>3, <1>4
  <2> HIDE DEF E
  <2> QED BY <1>3, <2>1
<1>6. ASSUME NEW i \in 1..n, NEW k \in 1..n, part[i].date = part[k].date PROVE i = k
  <2>1. at[i] \in places /\ at[k] \in places /\ at[i] \in Nat /\ at[k] \in Nat
    BY <1>2, <1>3
  <2>2. at[i] = at[k]
    BY <1>4, <1>6, <2>1 DEF OneDateEach
  <2>3. i < k \/ k < i \/ i = k
    BY <1>3
  <2> QED BY <1>3, <2>1, <2>2, <2>3
<1>7. OneDateEach(part)
  BY <1>3, <1>5, <1>6 DEF OneDateEach
<1>8. ASSUME NEW k \in DOMAIN part PROVE \E i \in places : part[k] = s[i]
  BY <1>3, <1>4, <1>5, <1>8
<1> QED BY <1>7, <1>8 DEF part

LEMMA EmptyHasOneDateEach == OneDateEach(<<>>)
BY DEF OneDateEach

LEMMA WalkInvInit == WalkForwardInit => WalkInv
BY EmptyHasOneDateEach DEF WalkForwardInit, WalkInv

LEMMA LoadCatalogInv == ASSUME WalkInv, LoadCatalog PROVE WalkInv'
<1>1. /\ UNCHANGED <<candidates, folds, allTrades>> /\ folds = <<>> /\ allTrades = <<>>
      /\ wfPhase' # "off" /\ OneDateEach(bars) /\ OneDateEach(candidates)
      /\ (\E S : folds \in Seq(S)) /\ (\E S : allTrades \in Seq(S))
  BY DEF WalkInv, LoadCatalog
<1>2. OneDateEach(bars)'
  <2>1. CASE UNCHANGED bars
    BY <1>1, <2>1 DEF OneDateEach
  <2>2. CASE ~ UNCHANGED bars
    <3>1. PICK c \in Catalogs : bars' = LatestBars(c.bars) /\ BarsGood(c.bars)
      BY <2>2 DEF LoadCatalog
    <3>2. Len(c.bars) \in Nat /\ TradingDays \in Nat
      BY WalkForwardAssumption, WalkNumbers
    <3> DEFINE sorted == ByDate(c.bars)
               first == Len(c.bars) - TradingDays + 1
               latest == LatestBars(c.bars)
    <3>3. latest = [i \in 1..TradingDays |-> sorted[i + first - 1]]
      <4>1. latest = SubSeq(sorted, first, Len(c.bars))
        BY DEF LatestBars
      <4>2. first \in Int /\ 1 + Len(c.bars) - first = TradingDays
        BY <3>2
      <4> HIDE DEF sorted, first, latest
      <4> QED BY <3>2, <4>1, <4>2
    <3>4. \A i, k \in 1..TradingDays : latest[i].date = latest[k].date => i = k
      BY <3>1 DEF BarsGood, IsInjective
    <3> HIDE DEF latest, sorted, first
    <3>5. Len(latest) = TradingDays /\ DOMAIN latest = 1..TradingDays
      <4> DEFINE E == {sorted[i + first - 1] : i \in 1..TradingDays}
      <4>1. latest \in [1..TradingDays -> E]
        BY <3>3
      <4> HIDE DEF E
      <4> QED BY <3>2, <4>1
    <3> QED BY <3>1, <3>2, <3>4, <3>5 DEF OneDateEach, latest
  <2> QED BY <2>1, <2>2
<1>3. OneDateEach(candidates)' /\ OneDateEach(allTrades)'
  BY <1>1, EmptyHasOneDateEach
<1> QED BY <1>1, <1>2, <1>3 DEF WalkInv

LEMMA BuildCandidatesInv == ASSUME WalkInv, BuildCandidates PROVE WalkInv'
<1>1. /\ UNCHANGED <<bars, folds, allTrades>> /\ wfPhase' # "off"
      /\ OneDateEach(bars) /\ OneDateEach(candidates)
  BY DEF WalkInv, BuildCandidates
<1>2. OneDateEach(candidates)'
  <2>1. CASE UNCHANGED candidates
    BY <1>1, <2>1 DEF OneDateEach
  <2>2. CASE ~ UNCHANGED candidates
    <3> DEFINE places == {i \in BasisIndices : ~WithinBand(DailyPressure(i))}
               n == Cardinality(places)
               trading == Ascending(places)
    <3>1. candidates' = [k \in DOMAIN trading |->
                            [date |-> bars[trading[k] + 1].date, bar |-> bars[trading[k] + 1],
                             long |-> DailyPressure(trading[k])[1] > 0]]
      BY <2>2 DEF BuildCandidates
    <3> HIDE DEF trading
    <3>2. /\ candidates' = [k \in DOMAIN trading |-> candidates'[k]]
          /\ \A k \in DOMAIN trading : candidates'[k].date = bars[trading[k] + 1].date
      BY <3>1
    <3> USE DEF trading
    <3>3. /\ IsFiniteSet(places) /\ places \subseteq Nat
          /\ \A i \in places : i + 1 \in DOMAIN bars
      <4>1. Len(bars) \in Nat /\ DOMAIN bars = 1..Len(bars)
        BY <1>1 DEF OneDateEach
      <4>2. places \in SUBSET (AdvBars..(Len(bars) - 1))
        BY DEF BasisIndices
      <4>3. IsFiniteSet(AdvBars..(Len(bars) - 1))
        BY <4>1, FS_Interval, WalkNumbers
      <4> HIDE DEF places
      <4>4. IsFiniteSet(places)
        BY <4>2, <4>3, FS_Subset
      <4>5. ASSUME NEW i \in places PROVE i \in Nat /\ i + 1 \in DOMAIN bars
        BY <4>1, <4>2, WalkNumbers
      <4> QED BY <4>4, <4>5
    <3> HIDE DEF places
    <3>4. /\ n \in Nat /\ trading \in [1..n -> places]
          /\ \A i, k \in 1..n : i < k => trading[i] < trading[k]
      BY <3>3, AscendingIs
    <3> HIDE DEF n, trading
    <3>5. Len(candidates') = n /\ DOMAIN candidates' = 1..n
      <4> DEFINE E == {candidates'[i] : i \in 1..n}
      <4>1. candidates' \in [1..n -> E]
        BY <3>2, <3>4
      <4> HIDE DEF E
      <4> QED BY <3>4, <4>1
    <3>6. ASSUME NEW i \in 1..n, NEW k \in 1..n, candidates'[i].date = candidates'[k].date
          PROVE  i = k
      <4>1. /\ trading[i] \in Nat /\ trading[k] \in Nat
            /\ trading[i] + 1 \in DOMAIN bars /\ trading[k] + 1 \in DOMAIN bars
        BY <3>3, <3>4
      <4>2. bars[trading[i] + 1].date = bars[trading[k] + 1].date
        BY <3>2, <3>4, <3>6
      <4>3. trading[i] + 1 = trading[k] + 1
        BY <1>1, <4>1, <4>2 DEF OneDateEach
      <4>4. i < k \/ k < i \/ i = k
        BY <3>4
      <4> QED BY <3>4, <4>1, <4>3, <4>4
    <3> QED BY <3>4, <3>5, <3>6 DEF OneDateEach
  <2> QED BY <2>1, <2>2
<1>3. \A n \in DOMAIN folds' : folds'[n] = FoldOf(n)'
  BY <1>1 DEF WalkInv, FoldOf, DatesOf
<1>4. OneDateEach(bars)' /\ OneDateEach(allTrades)'
  BY <1>1 DEF WalkInv
<1> QED BY <1>1, <1>2, <1>3, <1>4 DEF WalkInv

\* What a fold adds has a date in its test window, each another one.
LEMMA ExecuteFoldInv == ASSUME WalkInv, ExecuteFold PROVE WalkInv'
<1>1. /\ UNCHANGED <<bars, candidates>> /\ wfPhase = "folds" /\ wfPhase' # "off"
      /\ OneDateEach(bars) /\ OneDateEach(candidates) /\ OneDateEach(allTrades)
      /\ \A n \in DOMAIN folds : folds[n] = FoldOf(n)
      /\ \A k \in DOMAIN allTrades : \E n \in DOMAIN folds : allTrades[k].date \in folds[n].test
  BY DEF WalkInv, ExecuteFold
<1>2. OneDateEach(bars)' /\ OneDateEach(candidates)' /\ \A n : FoldOf(n)' = FoldOf(n)
  BY <1>1 DEF OneDateEach, FoldOf, DatesOf
<1>3. CASE UNCHANGED <<folds, allTrades>>
  BY <1>1, <1>2, <1>3 DEF WalkInv
<1>4. CASE ~ UNCHANGED <<folds, allTrades>>
  <2>1. PICK S : folds \in Seq(S)
    BY DEF WalkInv
  <2>2. PICK U : allTrades \in Seq(U)
    BY DEF WalkInv
  <2>3. PICK n \in Nat \ {0} : n = Len(folds) + 1 /\ DOMAIN folds = 1..(n - 1)
    BY <2>1
  <2> DEFINE places == {k \in DOMAIN candidates : candidates[k].date \in DatesOf(Split(n).test)}
             tested == PartAt(candidates, places)
             added == [k \in DOMAIN tested |-> TradeOfCandidate(tested[k])]
  <2>4. folds' = Append(folds, FoldOf(n)) /\ allTrades' = allTrades \o added
    BY <1>4, <2>3 DEF ExecuteFold, FoldOf
  <2>5. /\ OneDateEach(tested)
        /\ \A k \in DOMAIN tested : tested[k].date \in DatesOf(Split(n).test)
    <3>1. places \in SUBSET DOMAIN candidates
      OBVIOUS
    <3>2. OneDateEach(tested) /\ \A k \in DOMAIN tested : \E i \in places : tested[k] = candidates[i]
      <4> HIDE DEF places
      <4> QED BY <1>1, <3>1, PartHasOneDateEach
    <3> QED BY <3>2
  <2> HIDE DEF places, tested
  <2>6. \A k \in DOMAIN tested : added[k].date = tested[k].date
    BY DEF TradeOfCandidate
  <2>7. PICK m \in Nat : DOMAIN tested = 1..m
    BY <2>5 DEF OneDateEach
  <2>8. DOMAIN added = 1..m
    BY <2>7
  <2> DEFINE E == {added[k] : k \in 1..m}
             V == U \cup E
  <2>9. added \in [1..m -> E]
    <3>1. added = [k \in 1..m |-> added[k]]
      BY <2>7
    <3> HIDE DEF added
    <3> QED BY <3>1
  <2> HIDE DEF added, E
  <2>10. added \in Seq(V) /\ allTrades \in Seq(V) /\ Len(added) = m
    BY <2>2, <2>7, <2>9
  <2> HIDE DEF V
  <2>11. PICK a \in Nat : a = Len(allTrades) /\ DOMAIN allTrades = 1..a
    BY <2>10
  <2>12. /\ allTrades' \in Seq(V) /\ Len(allTrades') = a + m /\ DOMAIN allTrades' = 1..(a + m)
         /\ \A k \in 1..(a + m) : allTrades'[k] = IF k <= a THEN allTrades[k] ELSE added[k - a]
    <3>1. \A X : \A s, t \in Seq(X) :
            /\ s \o t \in Seq(X) /\ Len(s \o t) = Len(s) + Len(t)
            /\ \A k \in 1..(Len(s) + Len(t)) :
                (s \o t)[k] = IF k <= Len(s) THEN s[k] ELSE t[k - Len(s)]
      OBVIOUS
    <3>2. /\ allTrades' \in Seq(V) /\ Len(allTrades') = Len(allTrades) + Len(added)
          /\ \A k \in 1..(Len(allTrades) + Len(added)) :
                allTrades'[k] = IF k <= Len(allTrades) THEN allTrades[k]
                                ELSE added[k - Len(allTrades)]
      BY <2>4, <2>10, <3>1
    <3>3. DOMAIN allTrades' = 1..Len(allTrades')
      BY <3>2
    <3> QED BY <2>10, <2>11, <3>2, <3>3
  <2>13. \A k \in 1..(a + m) :
            \/ k \in DOMAIN allTrades /\ allTrades'[k] = allTrades[k]
            \/ k - a \in 1..m /\ k - a \in DOMAIN tested /\ allTrades'[k] = added[k - a]
    BY <2>7, <2>11, <2>12
  <2>14. /\ DOMAIN folds' = 1..n /\ folds'[n] = FoldOf(n)
         /\ \A i \in DOMAIN folds : folds'[i] = folds[i]
         /\ \E W : folds' \in Seq(W)
    <3>1. folds \in Seq(S \cup {FoldOf(n)}) /\ FoldOf(n) \in S \cup {FoldOf(n)}
      BY <2>1
    <3> HIDE DEF FoldOf
    <3>2. folds' \in Seq(S \cup {FoldOf(n)})
      BY <2>4, <3>1
    <3> QED BY <2>3, <2>4, <3>1, <3>2
  <2>15. \A i \in DOMAIN folds' : folds'[i] = FoldOf(i)'
    <3>1. ASSUME NEW i \in DOMAIN folds' PROVE folds'[i] = FoldOf(i)
      <4>1. i = n \/ i \in DOMAIN folds
        BY <2>3, <2>14
      <4> QED BY <1>1, <2>14, <4>1
    <3> QED BY <1>2, <3>1
  <2>16. ASSUME NEW k \in DOMAIN allTrades
         PROVE  \E i \in DOMAIN folds : i < n /\ allTrades[k].date \in DatesOf(Split(i).test)
    BY <1>1, <2>3 DEF FoldOf
  <2>17. ASSUME NEW k \in 1..m PROVE added[k].date \in DatesOf(Split(n).test)
    BY <2>5, <2>6, <2>7
  <2>18. ASSUME NEW k \in DOMAIN allTrades'
         PROVE  \E i \in DOMAIN folds' : allTrades'[k].date \in folds'[i].test
    <3>1. CASE k \in DOMAIN allTrades /\ allTrades'[k] = allTrades[k]
      BY <1>1, <2>3, <2>14, <3>1
    <3>2. CASE k - a \in 1..m /\ allTrades'[k] = added[k - a]
      <4>1. allTrades'[k].date \in FoldOf(n).test
        BY <2>17, <3>2 DEF FoldOf
      <4> QED BY <2>14, <4>1
    <3> QED BY <2>12, <2>13, <3>1, <3>2
  <2>19. ASSUME NEW k \in DOMAIN allTrades, NEW l \in 1..m
         PROVE  allTrades[k].date # added[l].date
    <3>1. PICK i \in DOMAIN folds : i < n /\ allTrades[k].date \in DatesOf(Split(i).test)
      BY <2>16
    <3>2. i \in Nat \ {0}
      BY <2>3
    <3>3. Split(i).test \cap Split(n).test = {}
      BY <3>1, <3>2, FoldsApart
    <3>4. DatesOf(Split(i).test) \cap DatesOf(Split(n).test) = {}
      BY <1>1, <3>3, DatesApart
    <3> QED BY <2>17, <3>1, <3>4
  <2>20. ASSUME NEW k \in 1..(a + m), NEW l \in 1..(a + m),
                allTrades'[k].date = allTrades'[l].date
         PROVE  k = l
    <3>1. CASE k \in DOMAIN allTrades /\ l \in DOMAIN allTrades
      <4>1. allTrades'[k] = allTrades[k] /\ allTrades'[l] = allTrades[l]
        BY <2>11, <2>12, <3>1
      <4> QED BY <1>1, <2>20, <3>1, <4>1 DEF OneDateEach
    <3>2. CASE k \in DOMAIN allTrades /\ l \notin DOMAIN allTrades
      BY <2>11, <2>12, <2>13, <2>19, <2>20, <3>2
    <3>3. CASE k \notin DOMAIN allTrades /\ l \in DOMAIN allTrades
      BY <2>11, <2>12, <2>13, <2>19, <2>20, <3>3
    <3>4. CASE k \notin DOMAIN allTrades /\ l \notin DOMAIN allTrades
      <4>1. /\ k - a \in DOMAIN tested /\ l - a \in DOMAIN tested
            /\ allTrades'[k] = added[k - a] /\ allTrades'[l] = added[l - a]
        BY <2>13, <3>4
      <4>2. tested[k - a].date = tested[l - a].date
        BY <2>6, <2>20, <4>1
      <4>3. k - a = l - a
        BY <2>5, <4>1, <4>2 DEF OneDateEach
      <4> QED BY <4>3
    <3> QED BY <3>1, <3>2, <3>3, <3>4
  <2>21. OneDateEach(allTrades)'
    BY <2>12, <2>20 DEF OneDateEach
  <2>22. \E W : allTrades' \in Seq(W)
    BY <2>12
  <2> QED BY <1>1, <1>2, <2>14, <2>15, <2>18, <2>21, <2>22 DEF WalkInv
<1> QED BY <1>3, <1>4

LEMMA WalkInvNext == WalkInv /\ [WalkForwardNext]_wfVars => WalkInv'
<1> SUFFICES ASSUME WalkInv, [WalkForwardNext]_wfVars PROVE WalkInv'
  OBVIOUS
<1>1. CASE UNCHANGED <<bars, candidates, folds, allTrades>> /\ (wfPhase' = "off" => wfPhase = "off")
  BY <1>1 DEF WalkInv, OneDateEach, FoldOf, DatesOf
<1>2. CASE PromoteStudy
  BY <1>1, <1>2 DEF PromoteStudy
<1>3. CASE UNCHANGED wfVars
  BY <1>1, <1>3 DEF wfVars
<1> QED BY <1>2, <1>3, LoadCatalogInv, BuildCandidatesInv, ExecuteFoldInv DEF WalkForwardNext

\* No fold tests a bar it trains on and no day is traded twice, for any stored
\* bars and any split whose test window moves by at least its own length.
THEOREM TestDaysCountedOnceTheorem == WalkForwardSpec => []TestDaysCountedOnce
<1>1. ASSUME WalkInv PROVE TestDaysCountedOnce
  <2>1. ASSUME NEW n \in DOMAIN folds PROVE folds[n].train \cap folds[n].test = {}
    <3>1. n \in Nat \ {0}
      BY <1>1 DEF WalkInv
    <3>2. DatesOf(Split(n).train) \cap DatesOf(Split(n).test) = {}
      BY <1>1, <3>1, FoldsApart, DatesApart DEF WalkInv
    <3> QED BY <1>1, <3>2 DEF WalkInv, FoldOf
  <2>2. IsInjective([k \in DOMAIN allTrades |-> allTrades[k].date])
    BY <1>1 DEF WalkInv, OneDateEach, IsInjective
  <2> QED BY <2>1, <2>2 DEF TestDaysCountedOnce
<1> QED BY WalkInvInit, WalkInvNext, <1>1, PTL DEF WalkForwardSpec

-----------------------------------------------------------------------------
(***************************************************************************)
(* The risk engine.  What is rounded is off by at most half a unit of its  *)
(* last digit, and that unit is less than 10 q / MaxCoefficient for any q  *)
(* the value does not exceed.  With the limit n / d, the three roundings   *)
(* of a leg (of the scale, of its product with the quantity and of that    *)
(* over the lot) add up to less than 1 / d, and two multiples of 1 / d     *)
(* apart by less than that are in order.                                   *)
(***************************************************************************)

LEMMA TimesKeepsOrder ==
    ASSUME NEW a \in Int, NEW b \in Int, NEW c \in Nat, a <= b
    PROVE  a * c <= b * c
OBVIOUS

LEMMA CancelsLess ==
    ASSUME NEW a \in Int, NEW b \in Int, NEW c \in Nat, a * c < b * c
    PROVE  a < b
OBVIOUS

LEMMA CancelsAtMost ==
    ASSUME NEW a \in Int, NEW b \in Int, NEW c \in Nat, c > 0, a * c <= b * c
    PROVE  a <= b
OBVIOUS

LEMMA HalfEvenNear ==
    ASSUME NEW n \in Nat, NEW d \in Nat \ {0}
    PROVE  /\ HalfEven(n, d) \in Nat
           /\ 2 * HalfEven(n, d) * d <= 2 * n + d
           /\ 2 * n <= 2 * HalfEven(n, d) * d + d
<1> PICK q \in Int : q = n \div d
  OBVIOUS
<1>1. d * q <= n /\ n < d * q + d
  OBVIOUS
<1>2. q >= 0
  OBVIOUS
<1> PICK p \in Int : p = d * q
  OBVIOUS
<1>3. HalfEven(n, d) \in {q, q + 1} /\ (HalfEven(n, d) = q => 2 * (n - p) <= d)
      /\ (HalfEven(n, d) = q + 1 => 2 * (n - p) >= d)
  BY DEF HalfEven
<1>4. CASE HalfEven(n, d) = q
  <2>1. 2 * q * d = 2 * p
    OBVIOUS
  <2> QED BY <1>1, <1>2, <1>3, <1>4, <2>1
<1>5. CASE HalfEven(n, d) = q + 1
  <2>1. 2 * (q + 1) * d = 2 * p + 2 * d
    OBVIOUS
  <2> QED BY <1>1, <1>2, <1>3, <1>5, <2>1
<1> QED BY <1>3, <1>4, <1>5

LEMMA HalfEvenAtMost ==
    ASSUME NEW n \in Nat, NEW d \in Nat \ {0}, NEW q \in Nat, n <= q * d
    PROVE  HalfEven(n, d) <= q
<1> PICK h \in Nat : h = HalfEven(n, d) /\ 2 * h * d <= 2 * n + d
  BY HalfEvenNear
<1>1. SUFFICES ASSUME h >= q + 1 PROVE FALSE
  OBVIOUS
<1>2. (q + 1) * d <= h * d
  BY <1>1, TimesKeepsOrder
<1>3. (q + 1) * d = q * d + d /\ 2 * h * d = 2 * (h * d)
  OBVIOUS
<1> QED BY <1>2, <1>3

\* x is n / d, at most q, to the nearest unit of 1 / x[2], and the unit is small.
NearQuotient(x, n, d, q) ==
    /\ x[1] \in Nat /\ x[2] \in Nat \ {0}
    /\ 2 * x[1] * d <= 2 * (n * x[2]) + d
    /\ 2 * (n * x[2]) <= 2 * x[1] * d + d
    /\ x[1] <= q * x[2]
    /\ MaxCoefficient < 10 * q * x[2]

LEMMA RoundedNear ==
    ASSUME NEW n \in Nat, NEW d \in Nat \ {0}, NEW q \in Nat \ {0},
           n <= q * d, q <= MaxCoefficient
    PROVE  NearQuotient(Rounded(n, d), n, d, q)
<1>1. /\ IsFiniteSet(Tens) /\ Tens \subseteq Nat \ {0} /\ 1 \in Tens /\ MaxCoefficient \in Nat
      /\ \A t \in Tens : 10 * t \in Tens \/ t >= MaxCoefficient
  BY RiskAssumption
<1>2. ASSUME NEW t \in Nat \ {0} PROVE n * t \in Nat /\ HalfEven(n * t, d) <= q * t
  <2>1. n * t <= (q * d) * t
    BY TimesKeepsOrder
  <2>2. (q * d) * t = (q * t) * d /\ q * t \in Nat /\ n * t \in Nat
    OBVIOUS
  <2> PICK x, y \in Nat : x = n * t /\ y = q * t
    BY <2>2
  <2>3. x <= y * d
    BY <2>1, <2>2
  <2> QED BY <2>3, HalfEvenAtMost
<1> DEFINE Best(t) == Fits(n, d, t) /\ (10 * t \in Tens => ~Fits(n, d, 10 * t))
           F == {t \in Tens : Fits(n, d, t)}
<1>3. \E t \in Tens : Best(t)
  <2>1. 1 \in F
    <3>1. HalfEven(n * 1, d) <= q * 1 /\ n * 1 \in Nat
      BY <1>2
    <3>2. HalfEven(n * 1, d) \in Nat
      BY <3>1, HalfEvenNear
    <3> QED BY <1>1, <3>1, <3>2 DEF Fits
  <2>2. IsFiniteSet(F) /\ F \subseteq Nat
    BY <1>1, FS_Subset
  <2> HIDE DEF F
  <2>3. PICK t \in F : \A e \in F : e <= t
    BY <2>1, <2>2, LastIsThere
  <2>4. t \in Tens /\ Fits(n, d, t) /\ t \in Nat \ {0}
    BY <1>1 DEF F
  <2>5. 10 * t \notin F
    <3>1. ~(10 * t <= t)
      BY <2>4
    <3> QED BY <2>3, <3>1
  <2> QED BY <2>4, <2>5 DEF F
<1> DEFINE t == CHOOSE t \in Tens : Best(t)
<1>4. t \in Tens /\ Best(t)
  <2> HIDE DEF Best
  <2> QED BY <1>3
<1>5. Rounded(n, d) = <<HalfEven(n * t, d), t>>
  BY DEF Rounded
<1> HIDE DEF t
<1>6. t \in Nat \ {0}
  BY <1>1, <1>4
<1> PICK x \in Nat : x = n * t
  BY <1>2, <1>6
<1> PICK h \in Nat : /\ h = HalfEven(x, d)
                     /\ 2 * h * d <= 2 * x + d
                     /\ 2 * x <= 2 * h * d + d
  BY HalfEvenNear
<1>7. h <= q * t
  BY <1>2, <1>6
<1>8. MaxCoefficient < 10 * q * t
  <2>1. CASE 10 * t \in Tens
    <3>1. ~Fits(n, d, 10 * t) /\ 10 * t \in Nat \ {0}
      BY <1>1, <1>4, <2>1
    <3>2. HalfEven(n * (10 * t), d) <= q * (10 * t) /\ n * (10 * t) \in Nat
      BY <1>2, <3>1
    <3>3. HalfEven(n * (10 * t), d) \in Nat
      BY <3>2, HalfEvenNear
    <3>4. q * (10 * t) = 10 * q * t /\ q * (10 * t) \in Nat
      BY <1>6
    <3> PICK y \in Nat : y = q * (10 * t)
      BY <3>4
    <3> QED BY <1>1, <3>1, <3>2, <3>3, <3>4 DEF Fits
  <2>2. CASE 10 * t \notin Tens
    <3>1. t >= MaxCoefficient
      BY <1>1, <1>4, <2>2
    <3>2. 1 * t <= q * t
      BY <1>6, TimesKeepsOrder
    <3>3. 10 * q * t = 10 * (q * t) /\ q * t \in Nat
      BY <1>6
    <3> QED BY <1>1, <1>6, <3>1, <3>2, <3>3
  <2> QED BY <2>1, <2>2
<1>9. Rounded(n, d)[1] = h /\ Rounded(n, d)[2] = t
  BY <1>5
<1> QED BY <1>6, <1>7, <1>8, <1>9 DEF NearQuotient

LEMMA SumsScaled ==
    ASSUME NEW a \in Int, NEW b \in Int, NEW c \in Int, NEW s \in Nat, 2 * a <= 2 * b + c
    PROVE  2 * (a * s) <= 2 * (b * s) + c * s
<1>1. (2 * a) * s <= (2 * b + c) * s
  BY TimesKeepsOrder
<1>2. (2 * a) * s = 2 * (a * s) /\ (2 * b + c) * s = 2 * (b * s) + c * s
  OBVIOUS
<1> QED BY <1>1, <1>2

\* The unit 1 / x is a small part of q.
SmallUnit(q, x) == MaxCoefficient < 10 * q * x

\* Over 1 / x y, left exceeds right by no more than two roundings.
AtMostAfterRounding(left, right, t, u, x, y) ==
    2 * (left * (x * y)) <= 2 * (right * (x * y)) + (t * y + u * x * t)

LessThanPlus(left, right, q, u, t) ==
    MaxCoefficient * left < MaxCoefficient * right + 5 * ((q * (1 + u)) * t)

\* The lots of a leg of q units at the scale m / t differ from m q / t by less
\* than the roundings and one lot.
LotsBounded(j, m, t, q, u) ==
    /\ j \in Nat
    /\ LessThanPlus((j * u) * t, m * q, q, u, t)
    /\ LessThanPlus(m * q, ((j + 1) * u) * t, q, u, t)

LEMMA RoundingsAdd ==
    ASSUME NEW q \in Nat, NEW u \in Nat \ {0}, NEW t \in Nat \ {0},
           NEW x \in Nat \ {0}, NEW y \in Nat \ {0}, SmallUnit(q, x), SmallUnit(q, y),
           NEW left \in Int, NEW right \in Int, AtMostAfterRounding(left, right, t, u, x, y)
    PROVE  LessThanPlus(left, right, q, u, t)
<1> PICK N \in Nat : N = MaxCoefficient
  BY RiskAssumption
<1>0. /\ N < 10 * q * x /\ N < 10 * q * y
      /\ 2 * (left * (x * y)) <= 2 * (right * (x * y)) + (t * y + u * x * t)
  BY DEF SmallUnit, AtMostAfterRounding
<1> DEFINE z == x * y
<1>1. z \in Nat /\ z > 0
  OBVIOUS
<1>2. N * (t * y) < 10 * (q * t * z)
  <2>1. t * y \in Nat /\ t * y > 0
    OBVIOUS
  <2> PICK p \in Nat \ {0} : p = t * y
    BY <2>1
  <2> PICK w \in Int : w = 10 * q * x
    OBVIOUS
  <2>2. N * p < w * p
    BY <1>0
  <2>3. (10 * q * x) * (t * y) = 10 * (q * t * z)
    OBVIOUS
  <2> QED BY <2>2, <2>3
<1>3. N * (u * x * t) < 10 * (q * t * u * z)
  <2>1. u * x * t \in Nat /\ u * x * t > 0
    <3> PICK p \in Nat \ {0} : p = u * x
      OBVIOUS
    <3> QED OBVIOUS
  <2> PICK p \in Nat \ {0} : p = u * x * t
    BY <2>1
  <2> PICK w \in Int : w = 10 * q * y
    OBVIOUS
  <2>2. N * p < w * p
    BY <1>0
  <2>3. (10 * q * y) * (u * x * t) = 10 * (q * t * u * z)
    OBVIOUS
  <2> QED BY <2>2, <2>3
<1>4. (2 * (left * z)) * N <= (2 * (right * z) + (t * y + u * x * t)) * N
  <2> PICK a, b \in Int : a = 2 * (left * z) /\ b = 2 * (right * z) + (t * y + u * x * t)
    OBVIOUS
  <2> QED BY <1>0, TimesKeepsOrder
<1>5. (2 * (left * z)) * N = 2 * (N * left) * z
  OBVIOUS
<1>6. (2 * (right * z) + (t * y + u * x * t)) * N
        = 2 * (N * right) * z + N * (t * y) + N * (u * x * t)
  OBVIOUS
<1>7. 10 * (q * t * z) + 10 * (q * t * u * z) = (10 * ((q * (1 + u)) * t)) * z
  OBVIOUS
<1> PICK a, b, c \in Int : /\ a = 2 * (N * left) /\ b = 2 * (N * right)
                           /\ c = 10 * ((q * (1 + u)) * t)
  OBVIOUS
<1>8. b * z + c * z = (b + c) * z
  OBVIOUS
<1> HIDE DEF z
<1>9. a * z < (b + c) * z
  <2> PICK e1, e2, f1, f2, g, h, k \in Int :
        /\ e1 = N * (t * y) /\ e2 = N * (u * x * t) /\ f1 = 10 * (q * t * z)
        /\ f2 = 10 * (q * t * u * z) /\ g = a * z /\ h = b * z /\ k = c * z
    BY <1>1
  <2> QED BY <1>2, <1>3, <1>4, <1>5, <1>6, <1>7, <1>8
<1>10. a < b + c
  BY <1>1, <1>9, CancelsLess
<1> QED BY <1>10 DEF LessThanPlus

LEMMA LotsNear ==
    ASSUME NEW m \in Nat, NEW t \in Nat \ {0}, m <= t,
           NEW q \in Nat \ {0}, q <= MaxCoefficient, NEW u \in Nat \ {0}
    PROVE  LotsBounded(Lots(Times(<<m, t>>, q), u), m, t, q, u)
<1>1. MaxCoefficient \in Nat
  BY RiskAssumption
<1>2. m * q \in Nat /\ m * q <= q * t
  <2>1. m * q <= t * q
    BY TimesKeepsOrder
  <2> QED BY <2>1
<1> PICK mq \in Nat : mq = m * q
  BY <1>2
<1> DEFINE a == Times(<<m, t>>, q)
<1>3. a = Rounded(mq, t)
  BY DEF Times
<1>4. NearQuotient(a, mq, t, q)
  BY <1>2, <1>3, RoundedNear
<1> HIDE DEF a
<1> PICK k \in Nat : k = a[1]
  BY <1>4 DEF NearQuotient
<1> PICK x \in Nat \ {0} : x = a[2]
  BY <1>4 DEF NearQuotient
<1>5. u * x \in Nat \ {0} /\ k <= q * (u * x)
  <2>1. u * x \in Nat /\ u * x > 0
    OBVIOUS
  <2>2. k <= q * x
    BY <1>4 DEF NearQuotient
  <2>3. 1 * (q * x) <= u * (q * x)
    <3> PICK p \in Nat : p = q * x
      OBVIOUS
    <3> QED BY TimesKeepsOrder
  <2>4. u * (q * x) = q * (u * x) /\ 1 * (q * x) = q * x
    OBVIOUS
  <2> QED BY <2>1, <2>2, <2>3, <2>4
<1> PICK ux \in Nat \ {0} : ux = u * x
  BY <1>5
<1> DEFINE b == Rounded(k, ux)
<1>6. NearQuotient(b, k, ux, q)
  BY <1>5, RoundedNear
<1> HIDE DEF b
<1> PICK l \in Nat : l = b[1]
  BY <1>6 DEF NearQuotient
<1> PICK y \in Nat \ {0} : y = b[2]
  BY <1>6 DEF NearQuotient
<1> DEFINE j == Lots(Times(<<m, t>>, q), u)
<1>7. j = l \div y
  BY DEF Lots, a, b
<1> HIDE DEF j
<1>8. j \in Int /\ j >= 0 /\ y * j <= l /\ l < y * j + y
  BY <1>7
<1>9. /\ 2 * k * t <= 2 * (mq * x) + t /\ 2 * (mq * x) <= 2 * k * t + t
      /\ 2 * l * ux <= 2 * (k * y) + ux /\ 2 * (k * y) <= 2 * l * ux + ux
      /\ MaxCoefficient < 10 * q * x /\ MaxCoefficient < 10 * q * y
  BY <1>4, <1>6 DEF NearQuotient
\* What the first rounding adds, over all three denominators.
<1>10. /\ 2 * ((k * t) * y) <= 2 * ((mq * x) * y) + t * y
       /\ 2 * ((mq * x) * y) <= 2 * ((k * t) * y) + t * y
  <2> PICK v, w \in Int : v = k * t /\ w = mq * x
    OBVIOUS
  <2>1. 2 * v <= 2 * w + t /\ 2 * w <= 2 * v + t
    BY <1>9
  <2>2. 2 * (v * y) <= 2 * (w * y) + t * y /\ 2 * (w * y) <= 2 * (v * y) + t * y
    BY <2>1, SumsScaled
  <2> QED BY <2>2
\* The second.
<1>11. /\ 2 * ((l * ux) * t) <= 2 * ((k * y) * t) + ux * t
       /\ 2 * ((k * y) * t) <= 2 * ((l * ux) * t) + ux * t
  <2> PICK v, w \in Int : v = l * ux /\ w = k * y
    OBVIOUS
  <2>1. 2 * v <= 2 * w + ux /\ 2 * w <= 2 * v + ux
    BY <1>9
  <2>2. 2 * (v * t) <= 2 * (w * t) + ux * t /\ 2 * (w * t) <= 2 * (v * t) + ux * t
    BY <2>1, SumsScaled
  <2> QED BY <2>2
\* And the lots.
<1>12. /\ (y * j) * (ux * t) <= l * (ux * t)
       /\ l * (ux * t) <= (y * j + y) * (ux * t)
  <2> PICK p \in Nat : p = ux * t
    OBVIOUS
  <2> PICK v \in Int : v = y * j
    BY <1>8
  <2>1. v * p <= l * p
    BY <1>8, TimesKeepsOrder
  <2>2. l * p <= (v + y) * p
    BY <1>8, TimesKeepsOrder
  <2> QED BY <2>1, <2>2
<1>13. /\ (y * j) * (ux * t) = ((j * u) * t) * (x * y)
       /\ (y * j + y) * (ux * t) = (((j + 1) * u) * t) * (x * y)
       /\ l * (ux * t) = (l * ux) * t /\ (k * y) * t = (k * t) * y
       /\ (mq * x) * y = (m * q) * (x * y)
       /\ ux * t = u * x * t
  <2>1. (y * j) * (ux * t) = ((j * u) * t) * (x * y)
    BY <1>8
  <2>2. (y * j + y) * (ux * t) = (((j + 1) * u) * t) * (x * y)
    BY <1>8
  <2> QED BY <2>1, <2>2
<1>14. PICK p \in Int : p = (j * u) * t
  BY <1>8
<1>15. PICK r \in Int : r = ((j + 1) * u) * t
  BY <1>8
<1>16. PICK z \in Int : z = x * y
  OBVIOUS
<1>17. PICK lu \in Int : lu = (l * ux) * t
  OBVIOUS
<1>18. PICK kt \in Int : kt = (k * t) * y
  OBVIOUS
<1>19. 2 * (p * z) <= 2 * ((m * q) * z) + (t * y + u * x * t)
  BY <1>10, <1>11, <1>12, <1>13, <1>14, <1>15, <1>16, <1>17, <1>18
<1>20. 2 * ((m * q) * z) <= 2 * (r * z) + (t * y + u * x * t)
  BY <1>10, <1>11, <1>12, <1>13, <1>14, <1>15, <1>16, <1>17, <1>18
<1>21. /\ AtMostAfterRounding(p, mq, t, u, x, y) /\ AtMostAfterRounding(mq, r, t, u, x, y)
       /\ SmallUnit(q, x) /\ SmallUnit(q, y)
  BY <1>9, <1>19, <1>20, <1>16 DEF AtMostAfterRounding, SmallUnit
<1>22. /\ q \in Nat /\ {u, t, x, y} \subseteq Nat \ {0}
       /\ mq \in Int /\ p \in Int /\ r \in Int
  OBVIOUS
<1>23. LessThanPlus(p, mq, q, u, t) /\ LessThanPlus(mq, r, q, u, t)
  BY ONLY <1>21, <1>22, RoundingsAdd
<1>24. j \in Nat
  BY <1>8
<1> QED BY <1>23, <1>24, <1>14, <1>15 DEF LotsBounded, j

\* Nothing is bought of a leg nobody asked for.
LEMMA NoLotsOfNothing ==
    ASSUME NEW m \in Nat, NEW t \in Nat \ {0}, NEW u \in Nat \ {0}, MaxCoefficient >= 1
    PROVE  Lots(Times(<<m, t>>, 0), u) = 0
<1>1. m * 0 = 0 /\ MaxCoefficient \in Nat
  BY RiskAssumption
<1> DEFINE a == Times(<<m, t>>, 0)
<1>2. a = Rounded(0, t)
  BY <1>1 DEF Times
<1>3. NearQuotient(a, 0, t, 1)
  BY <1>1, <1>2, RoundedNear
<1> HIDE DEF a
<1> PICK k \in Nat : k = a[1]
  BY <1>3 DEF NearQuotient
<1> PICK x \in Nat \ {0} : x = a[2]
  BY <1>3 DEF NearQuotient
<1>4. k = 0
  <2>1. 2 * k * t <= t
    BY <1>3 DEF NearQuotient
  <2> SUFFICES ASSUME k >= 1 PROVE FALSE
    OBVIOUS
  <2>2. 1 * t <= k * t
    BY TimesKeepsOrder
  <2>3. 2 * k * t = 2 * (k * t)
    OBVIOUS
  <2> QED BY <2>1, <2>2, <2>3
<1>5. u * x \in Nat \ {0}
  <2>1. u * x \in Nat /\ u * x > 0
    OBVIOUS
  <2> QED BY <2>1
<1> PICK ux \in Nat \ {0} : ux = u * x
  BY <1>5
<1> DEFINE b == Rounded(0, ux)
<1>6. NearQuotient(b, 0, ux, 1)
  BY <1>1, RoundedNear
<1> HIDE DEF b
<1> PICK l \in Nat : l = b[1]
  BY <1>6 DEF NearQuotient
<1> PICK y \in Nat \ {0} : y = b[2]
  BY <1>6 DEF NearQuotient
<1>7. l = 0
  <2>1. 2 * l * ux <= ux
    BY <1>6 DEF NearQuotient
  <2> SUFFICES ASSUME l >= 1 PROVE FALSE
    OBVIOUS
  <2>2. 1 * ux <= l * ux
    BY TimesKeepsOrder
  <2>3. 2 * l * ux = 2 * (l * ux)
    OBVIOUS
  <2> QED BY <2>1, <2>2, <2>3
<1>8. Lots(a, u) = l \div y
  BY <1>4 DEF Lots, b
<1>9. 0 \div y = 0
  OBVIOUS
<1> QED BY <1>7, <1>8, <1>9 DEF a

\* m / t is at most n / d, but for a rounding.
ScaleWithin(m, t, n, d) == MaxCoefficient * (m * d) < MaxCoefficient * (n * t) + 5 * (d * t)

LEMMA ScaleNear ==
    ASSUME NEW m \in Nat, NEW t \in Nat \ {0}, NEW n \in Nat, NEW d \in Nat \ {0}, n <= d,
           MaxCoefficient >= 1, ~Less(Rounded(n, d), <<m, t>>)
    PROVE  ScaleWithin(m, t, n, d)
<1> DEFINE r == Rounded(n, d)
<1>1. NearQuotient(r, n, d, 1)
  <2>1. MaxCoefficient \in Nat /\ n <= 1 * d
    BY RiskAssumption
  <2> QED BY <2>1, RoundedNear
<1> HIDE DEF r
<1> PICK N \in Nat : N = MaxCoefficient
  BY RiskAssumption
<1> PICK l \in Nat : l = r[1]
  BY <1>1 DEF NearQuotient
<1> PICK x \in Nat \ {0} : x = r[2]
  BY <1>1 DEF NearQuotient
<1>2. 2 * l * d <= 2 * (n * x) + d /\ N < 10 * x
  BY <1>1 DEF NearQuotient
<1>3. m * x <= l * t
  BY DEF Less, r
<1>4. (m * x) * d <= (l * t) * d
  <2> PICK v, w \in Int : v = m * x /\ w = l * t
    OBVIOUS
  <2> QED BY <1>3, TimesKeepsOrder
<1>5. 2 * ((l * d) * t) <= 2 * ((n * x) * t) + d * t
  <2> PICK v, w \in Int : v = l * d /\ w = n * x
    OBVIOUS
  <2>1. 2 * v <= 2 * w + d
    <3>1. 2 * l * d = 2 * (l * d)
      OBVIOUS
    <3> QED BY <1>2, <3>1
  <2>2. 2 * (v * t) <= 2 * (w * t) + d * t
    BY <2>1, SumsScaled
  <2> QED BY <2>2
<1>6. (m * x) * d = (m * d) * x /\ (l * t) * d = (l * d) * t /\ (n * x) * t = (n * t) * x
  OBVIOUS
<1>7. d * t \in Nat /\ d * t > 0
  OBVIOUS
<1> PICK md, nt, dt \in Nat : md = m * d /\ nt = n * t /\ dt = d * t
  OBVIOUS
<1>8. 2 * (md * x) <= 2 * (nt * x) + dt
  <2> PICK v, w \in Int : v = (m * x) * d /\ w = (l * t) * d
    OBVIOUS
  <2> QED BY <1>4, <1>5, <1>6
<1>9. (2 * (md * x)) * N <= (2 * (nt * x) + dt) * N
  <2> PICK v, w \in Int : v = 2 * (md * x) /\ w = 2 * (nt * x) + dt
    OBVIOUS
  <2> QED BY <1>8, TimesKeepsOrder
<1>10. dt * N < dt * (10 * x)
  <2>1. dt > 0
    BY <1>7
  <2> PICK w \in Int : w = 10 * x
    OBVIOUS
  <2> QED BY <1>2, <2>1
<1>11. /\ (2 * (md * x)) * N = (2 * (N * md)) * x
       /\ (2 * (nt * x) + dt) * N = (2 * (N * nt)) * x + dt * N
       /\ dt * (10 * x) = (10 * dt) * x
  OBVIOUS
<1> PICK a, b \in Int : a = 2 * (N * md) /\ b = 2 * (N * nt)
  OBVIOUS
<1>12. (b + 10 * dt) * x = b * x + (10 * dt) * x
  OBVIOUS
<1>13. a * x < (b + 10 * dt) * x
  BY <1>9, <1>10, <1>11, <1>12
<1>14. a < b + 10 * dt
  BY <1>13, CancelsLess
<1> QED BY <1>14 DEF ScaleWithin

\* Small enough that q units of u rounded at 1 / d reach no further unit.
NoUnitReached(q, u, d) == 5 * q * (u + 2) * d <= MaxCoefficient

LEMMA WithinFactor ==
    ASSUME NEW m \in Nat, NEW t \in Nat \ {0}, NEW n \in Nat, NEW d \in Nat \ {0},
           ScaleWithin(m, t, n, d),
           NEW q \in Nat \ {0}, NEW u \in Nat \ {0}, NoUnitReached(q, u, d),
           NEW j \in Nat, LotsBounded(j, m, t, q, u)
    PROVE  (j * u) * d <= q * n
<1> PICK N \in Nat : N = MaxCoefficient
  BY RiskAssumption
<1> PICK a \in Nat : a = j * u
  OBVIOUS
<1>1. /\ N * (m * d) < N * (n * t) + 5 * (d * t)
      /\ N * (a * t) < N * (m * q) + 5 * ((q * (1 + u)) * t)
      /\ 5 * q * (u + 2) * d <= N
  BY DEF ScaleWithin, LotsBounded, LessThanPlus, NoUnitReached
<1>2. (N * (m * d)) * q < (N * (n * t) + 5 * (d * t)) * q
  <2> PICK v, w \in Int : v = N * (m * d) /\ w = N * (n * t) + 5 * (d * t)
    OBVIOUS
  <2> QED BY <1>1
<1>3. (N * (a * t)) * d < (N * (m * q) + 5 * ((q * (1 + u)) * t)) * d
  <2> PICK v, w \in Int : v = N * (a * t) /\ w = N * (m * q) + 5 * ((q * (1 + u)) * t)
    OBVIOUS
  <2> QED BY <1>1
<1>4. (5 * q * (u + 2) * d) * t <= N * t
  <2> PICK v \in Int : v = 5 * q * (u + 2) * d
    OBVIOUS
  <2> QED BY <1>1, TimesKeepsOrder
<1>5. (N * (n * t) + 5 * (d * t)) * q = (N * (q * n)) * t + 5 * (d * t * q)
  OBVIOUS
<1>6. (N * (m * q) + 5 * ((q * (1 + u)) * t)) * d = (N * (m * d)) * q + 5 * (q * (1 + u) * t * d)
  OBVIOUS
<1>7. (5 * q * (u + 2) * d) * t = 5 * (d * t * q) + 5 * (q * (1 + u) * t * d)
  OBVIOUS
<1>8. (N * (a * t)) * d = (N * (a * d)) * t
  OBVIOUS
<1>9. (N * (a * d)) * t < (N * (q * n)) * t + N * t
  <2> PICK v1, v2, v3, v4, v5 \in Int :
        /\ v1 = (N * (a * d)) * t /\ v2 = (N * (q * n)) * t /\ v3 = (N * (m * d)) * q
        /\ v4 = 5 * (d * t * q) /\ v5 = 5 * (q * (1 + u) * t * d)
    OBVIOUS
  <2>1. v3 < v2 + v4 /\ v1 < v3 + v5 /\ v4 + v5 <= N * t
    BY <1>2, <1>3, <1>4, <1>5, <1>6, <1>7, <1>8
  <2> QED BY <2>1
<1> PICK ad, qn \in Int : ad = a * d /\ qn = q * n
  OBVIOUS
<1>10. (N * qn) * t + N * t = (N * (qn + 1)) * t
  OBVIOUS
<1>11. N * ad < N * (qn + 1)
  <2> PICK v, w \in Int : v = N * ad /\ w = N * (qn + 1)
    OBVIOUS
  <2>1. v * t < w * t
    BY <1>9, <1>10
  <2> QED BY <2>1, CancelsLess
<1>12. ad < qn + 1
  <2>1. ad * N < (qn + 1) * N
    BY <1>11
  <2> QED BY <2>1, CancelsLess
<1> QED BY <1>12

NoUnitApart(q, u, p, v) == 5 * q * (u + v + 2) * p <= MaxCoefficient

LEMMA RatioKept ==
    ASSUME NEW m \in Nat, NEW t \in Nat \ {0},
           NEW q \in Nat \ {0}, NEW u \in Nat \ {0}, NEW j \in Nat, LotsBounded(j, m, t, q, u),
           NEW p \in Nat \ {0}, NEW v \in Nat \ {0}, NEW k \in Nat, LotsBounded(k, m, t, p, v),
           NoUnitApart(q, u, p, v)
    PROVE  (j * u) * p <= (k * v + v) * q
<1> PICK N \in Nat : N = MaxCoefficient
  BY RiskAssumption
<1>1. (k + 1) * v = k * v + v
  OBVIOUS
<1> PICK a, b \in Nat : a = j * u /\ b = k * v + v
  OBVIOUS
<1>2. /\ N * (a * t) < N * (m * q) + 5 * ((q * (1 + u)) * t)
      /\ N * (m * p) < N * (b * t) + 5 * ((p * (1 + v)) * t)
      /\ 5 * q * (u + v + 2) * p <= N
  BY <1>1 DEF LotsBounded, LessThanPlus, NoUnitApart
<1>3. (N * (a * t)) * p < (N * (m * q) + 5 * ((q * (1 + u)) * t)) * p
  <2> PICK x, y \in Int : x = N * (a * t) /\ y = N * (m * q) + 5 * ((q * (1 + u)) * t)
    OBVIOUS
  <2> QED BY <1>2
<1>4. (N * (m * p)) * q < (N * (b * t) + 5 * ((p * (1 + v)) * t)) * q
  <2> PICK x, y \in Int : x = N * (m * p) /\ y = N * (b * t) + 5 * ((p * (1 + v)) * t)
    OBVIOUS
  <2> QED BY <1>2
<1>5. (5 * q * (u + v + 2) * p) * t <= N * t
  <2> PICK x \in Int : x = 5 * q * (u + v + 2) * p
    OBVIOUS
  <2> QED BY <1>2, TimesKeepsOrder
<1>6. (N * (m * q) + 5 * ((q * (1 + u)) * t)) * p = (N * (m * p)) * q + 5 * (q * (1 + u) * t * p)
  OBVIOUS
<1>7. (N * (b * t) + 5 * ((p * (1 + v)) * t)) * q = (N * (b * q)) * t + 5 * (p * (1 + v) * t * q)
  OBVIOUS
<1>8. (5 * q * (u + v + 2) * p) * t = 5 * (q * (1 + u) * t * p) + 5 * (p * (1 + v) * t * q)
  OBVIOUS
<1>9. (N * (a * t)) * p = (N * (a * p)) * t
  OBVIOUS
<1>10. (N * (a * p)) * t < (N * (b * q)) * t + N * t
  <2> PICK x1, x2, x3, x4, x5 \in Int :
        /\ x1 = (N * (a * p)) * t /\ x2 = (N * (b * q)) * t /\ x3 = (N * (m * p)) * q
        /\ x4 = 5 * (q * (1 + u) * t * p) /\ x5 = 5 * (p * (1 + v) * t * q)
    OBVIOUS
  <2>1. x1 < x3 + x4 /\ x3 < x2 + x5 /\ x4 + x5 <= N * t
    BY <1>3, <1>4, <1>5, <1>6, <1>7, <1>8, <1>9
  <2> QED BY <2>1
<1> PICK ap, bq \in Int : ap = a * p /\ bq = b * q
  OBVIOUS
<1>11. (N * bq) * t + N * t = (N * (bq + 1)) * t
  OBVIOUS
<1>12. N * ap < N * (bq + 1)
  <2> PICK x, y \in Int : x = N * ap /\ y = N * (bq + 1)
    OBVIOUS
  <2>1. x * t < y * t
    BY <1>10, <1>11
  <2> QED BY <2>1, CancelsLess
<1>13. ap < bq + 1
  <2>1. ap * N < (bq + 1) * N
    BY <1>12
  <2> QED BY <2>1, CancelsLess
<1> QED BY <1>13

-----------------------------------------------------------------------------

LEMMA FiniteImage ==
    ASSUME NEW S, IsFiniteSet(S), NEW f, f = [x \in S |-> f[x]]
    PROVE  IsFiniteSet({f[x] : x \in S})
<1> DEFINE T == {f[x] : x \in S}
<1>1. f \in Surjection(S, T)
  BY DEF Surjection
<1> HIDE DEF T
<1>2. IsFiniteSet(T)
  BY <1>1, FS_Surjection
<1> QED BY <1>2 DEF T

Decimals == Nat \X (Nat \ {0})

LEMMA AtMostAgain ==
    ASSUME NEW a \in Decimals, NEW b \in Decimals, NEW c \in Decimals, ~Less(b, a), ~Less(c, b)
    PROVE  ~Less(c, a)
<1> PICK a1 \in Nat, a2 \in Nat \ {0} : a = <<a1, a2>>
  BY DEF Decimals
<1> PICK b1 \in Nat, b2 \in Nat \ {0} : b = <<b1, b2>>
  BY DEF Decimals
<1> PICK c1 \in Nat, c2 \in Nat \ {0} : c = <<c1, c2>>
  BY DEF Decimals
<1>1. a1 * b2 <= b1 * a2 /\ b1 * c2 <= c1 * b2
  BY DEF Less
<1>2. (a1 * b2) * c2 <= (b1 * a2) * c2
  <2> PICK x, y \in Int : x = a1 * b2 /\ y = b1 * a2
    OBVIOUS
  <2> QED BY <1>1, TimesKeepsOrder
<1>3. (b1 * c2) * a2 <= (c1 * b2) * a2
  <2> PICK x, y \in Int : x = b1 * c2 /\ y = c1 * b2
    OBVIOUS
  <2> QED BY <1>1, TimesKeepsOrder
<1>4. /\ (a1 * b2) * c2 = (a1 * c2) * b2 /\ (b1 * a2) * c2 = (b1 * c2) * a2
      /\ (c1 * b2) * a2 = (c1 * a2) * b2
  OBVIOUS
<1> PICK x, y \in Int : x = a1 * c2 /\ y = c1 * a2
  OBVIOUS
<1>5. x * b2 <= y * b2
  <2> PICK v1, v2, v3 \in Int : v1 = x * b2 /\ v2 = (b1 * c2) * a2 /\ v3 = y * b2
    OBVIOUS
  <2> QED BY <1>2, <1>3, <1>4
<1>6. x <= y
  BY <1>5, CancelsAtMost
<1> QED BY <1>6 DEF Less

LEMMA LeastIsThere ==
    ASSUME NEW S, IsFiniteSet(S), S \subseteq Decimals, S # {}
    PROVE  Least(S) \in S /\ \A b \in S : ~Less(b, Least(S))
<1> DEFINE Leads(T, a) == \A b \in T : ~Less(b, a)
           B == {T \in SUBSET S : T # {} /\ ~\E a \in T : Leads(T, a)}
<1>1. B = {}
  <2> SUFFICES ASSUME B # {} PROVE FALSE
    OBVIOUS
  <2>1. PICK T \in B : \A U \in SUBSET T : U # T => U \notin B
    <3>1. B \in SUBSET SUBSET S
      OBVIOUS
    <3> HIDE DEF B
    <3> QED BY <3>1, SmallestSubset
  <2>2. PICK x \in T : TRUE
    OBVIOUS
  <2>3. \A e \in T : e \in Decimals /\ ~Less(e, e)
    BY DEF Decimals, Less
  <2>4. T \ {x} # {}
    <3> SUFFICES ASSUME T = {x} PROVE FALSE
      BY <2>2
    <3> QED BY <2>2, <2>3
  <2>5. PICK a \in T \ {x} : Leads(T \ {x}, a)
    <3>1. T \ {x} \in SUBSET T /\ T \ {x} # T
      BY <2>2
    <3>2. T \ {x} \notin B
      BY <2>1, <3>1
    <3> QED BY <2>4, <3>2
  <2>6. CASE Less(x, a)
    <3>1. ~Less(a, x)
      <4> PICK a1 \in Nat, a2 \in Nat \ {0} : a = <<a1, a2>>
        BY <2>3, <2>5 DEF Decimals
      <4> PICK x1 \in Nat, x2 \in Nat \ {0} : x = <<x1, x2>>
        BY <2>2, <2>3 DEF Decimals
      <4> PICK v, w \in Int : v = a1 * x2 /\ w = x1 * a2
        OBVIOUS
      <4> QED BY <2>6 DEF Less
    <3>2. ASSUME NEW b \in T PROVE ~Less(b, x)
      <4>1. CASE b = x
        BY <2>3, <4>1
      <4>2. CASE b # x
        <5>1. ~Less(b, a) /\ b \in Decimals /\ a \in Decimals /\ x \in Decimals
          BY <2>2, <2>3, <2>5, <4>2
        <5> QED BY <3>1, <5>1, AtMostAgain
      <4> QED BY <4>1, <4>2
    <3> QED BY <2>2, <3>2
  <2>7. CASE ~Less(x, a)
    <3>1. Leads(T, a)
      BY <2>5, <2>7
    <3> QED BY <2>5, <3>1
  <2> QED BY <2>6, <2>7
<1>2. \E a \in S : Leads(S, a)
  BY <1>1
<1> QED BY <1>2 DEF Least

\* What an order that is not blocked has passed.
LEMMA OrderAccepted ==
    ASSUME NEW o \in Orders, NEW c \in RiskContexts, DecisionOf(o, c) \in {"REDUCE", "ALLOW"}
    PROVE  /\ IsFiniteSet(LegIds(o)) /\ o.budget \in Nat /\ c.equity \in Nat
           /\ SmallBeside(o, c)
           /\ \A id \in LegIds(o) :
                /\ Requested(o, id) \in Nat
                /\ c.legs[id].unit \in Nat \ {0}
                /\ c.legs[id].stop \in Nat \ {0} /\ c.legs[id].available \in Nat
<1>1. OrderTyped(o) /\ ContextTyped(c)
  BY RiskAssumption
<1>2. ~KillSwitch(o, c)
  BY DEF DecisionOf
<1>3. SmallBeside(o, c)
  BY <1>2, SizesAssumption
<1>4. IsFiniteSet(LegIds(o))
  <2> DEFINE f == [i \in 1..Len(o.legs) |-> o.legs[i].id]
  <2>1. LegIds(o) = {f[i] : i \in 1..Len(o.legs)}
    BY <1>1 DEF LegIds, OrderTyped
  <2>2. IsFiniteSet(1..Len(o.legs)) /\ f = [i \in 1..Len(o.legs) |-> f[i]]
    BY <1>1, FS_Interval DEF OrderTyped
  <2> HIDE DEF f
  <2> QED BY <2>1, <2>2, FiniteImage
<1>5. ASSUME NEW id \in LegIds(o) PROVE Requested(o, id) \in Nat
  <2>1. PICK i \in DOMAIN o.legs : o.legs[i].id = id
    BY DEF LegIds
  <2>2. \E l \in ToSet(o.legs) : l.id = id
    BY <2>1 DEF ToSet
  <2>3. \A l \in ToSet(o.legs) : l.quantity \in Nat
    BY <1>1 DEF OrderTyped, ToSet
  <2> QED BY <2>2, <2>3 DEF Requested
<1>6. ASSUME NEW id \in LegIds(o)
      PROVE  /\ c.legs[id].unit \in Nat \ {0}
             /\ c.legs[id].stop \in Nat \ {0} /\ c.legs[id].available \in Nat
  <2>1. id \in DOMAIN c.legs /\ ~LegStops(c.legs[id], c)
    BY <1>2 DEF KillSwitch
  <2>2. /\ c.legs[id].stop # Absent /\ ~(c.legs[id].stop <= 0) /\ c.legs[id].available # Absent
    BY <2>1 DEF LegStops
  <2> QED BY <1>1, <2>1, <2>2 DEF ContextTyped
<1> QED BY <1>1, <1>3, <1>4, <1>5, <1>6 DEF OrderTyped, ContextTyped

\* The limits that scale an order down.
SizeFactors(o, c) == RiskFactors(o, c) \cup LiquidityFactors(o, c, LegIds(o))

\* The sum over the legs of any amounts.
LegSum(o, F) == SumFunctionOnSet(F, LegIds(o))

LEMMA RequestedRiskIs ==
    ASSUME NEW o \in Orders, NEW c \in RiskContexts, DecisionOf(o, c) \in {"REDUCE", "ALLOW"}
    PROVE  /\ RequestedRisk(o, c) \in Nat
           /\ RequestedRisk(o, c)
                = LegSum(o, [id \in LegIds(o) |-> Requested(o, id) * c.legs[id].stop])
<1> DEFINE S == LegIds(o)
           F == [id \in S |-> Requested(o, id) * c.legs[id].stop]
           Z == [id \in S |-> 0]
<1>1. RequestedRisk(o, c) = SumFunctionOnSet(F, S)
  <2>1. [id \in S |-> RequestedByLeg(o)[id] * c.legs[id].stop] = F
    BY DEF RequestedByLeg
  <2> QED BY <2>1 DEF RequestedRisk, StopRisk, SumFunction
<1>2. IsFiniteSet(S)
  BY OrderAccepted
<1>3. ASSUME NEW id \in S PROVE F[id] \in Nat
  <2> PICK q, s \in Nat : q = Requested(o, id) /\ s = c.legs[id].stop
    BY OrderAccepted
  <2> QED OBVIOUS
<1>4. \A id \in S : F[id] \in Int /\ Z[id] \in Int /\ Z[id] <= F[id]
  BY <1>3
<1>5. \A id \in S : Z[id] = 0
  OBVIOUS
<1> HIDE DEF S, F, Z
<1>6. SumFunctionOnSet(F, S) \in Int /\ SumFunctionOnSet(Z, S) = 0
  BY <1>2, <1>4, <1>5, SumInt, SumZero
<1>7. SumFunctionOnSet(Z, S) <= SumFunctionOnSet(F, S)
  BY <1>2, <1>4, SumAtMost
<1> QED BY <1>1, <1>6, <1>7 DEF LegSum, S, F

LEMMA FactorIs ==
    ASSUME NEW o \in Orders, NEW c \in RiskContexts, DecisionOf(o, c) \in {"REDUCE", "ALLOW"}
    PROVE  /\ IsFiniteSet(SizeFactors(o, c))
           /\ \A f \in SizeFactors(o, c) : f \in Decimals /\ f[1] < f[2]
<1> DEFINE S == LegIds(o)
           short == {i \in S : c.legs[i].available < Requested(o, i)}
           g == [i \in short |-> <<c.legs[i].available, Requested(o, i)>>]
<1>1. IsFiniteSet(LiquidityFactors(o, c, S))
  <2>1. IsFiniteSet(S)
    BY OrderAccepted
  <2>2. IsFiniteSet(short)
    BY <2>1, FS_Subset
  <2>3. LiquidityFactors(o, c, S) = {g[i] : i \in short}
    BY DEF LiquidityFactors
  <2>4. g = [i \in short |-> g[i]]
    OBVIOUS
  <2> HIDE DEF g, short
  <2> QED BY <2>2, <2>3, <2>4, FiniteImage
<1> PICK R \in Nat : R = RequestedRisk(o, c)
  BY RequestedRiskIs
<1> PICK e \in Nat : e = c.equity
  BY OrderAccepted
<1> PICK b \in Nat : b = o.budget
  BY OrderAccepted
<1> PICK r1 \in Nat \ {0}, r2 \in Nat \ {0} : TradeRisk = <<r1, r2>>
  BY RiskAssumption
<1> DEFINE pair == {<<e * r1, R * r2>>, <<b, R>>}
<1>2. RiskFactors(o, c) \subseteq pair
  BY DEF RiskFactors
<1>3. IsFiniteSet(pair)
  <2>1. IsFiniteSet({<<e * r1, R * r2>>}) /\ IsFiniteSet({<<b, R>>})
    BY FS_Singleton
  <2>2. pair = {<<e * r1, R * r2>>} \cup {<<b, R>>}
    OBVIOUS
  <2> HIDE DEF pair
  <2> QED BY <2>1, <2>2, FS_Union
<1>4. IsFiniteSet(RiskFactors(o, c))
  BY <1>2, <1>3, FS_Subset
<1>5. ASSUME NEW f \in RiskFactors(o, c) PROVE f \in Decimals /\ f[1] < f[2]
  <2>1. f[1] < f[2] /\ f \in pair
    BY <1>2 DEF RiskFactors
  <2>2. e * r1 \in Nat /\ R * r2 \in Nat
    OBVIOUS
  <2> PICK x, y \in Nat : x = e * r1 /\ y = R * r2
    BY <2>2
  <2>3. f = <<x, y>> \/ f = <<b, R>>
    BY <2>1
  <2> QED BY <2>1, <2>3 DEF Decimals
<1>6. ASSUME NEW f \in LiquidityFactors(o, c, S) PROVE f \in Decimals /\ f[1] < f[2]
  <2>1. PICK i \in short : f = <<c.legs[i].available, Requested(o, i)>>
    BY DEF LiquidityFactors
  <2>2. c.legs[i].available \in Nat /\ Requested(o, i) \in Nat
    BY OrderAccepted
  <2> QED BY <2>1, <2>2 DEF Decimals
<1>7. SizeFactors(o, c) = RiskFactors(o, c) \cup LiquidityFactors(o, c, S)
  BY DEF SizeFactors
<1> HIDE DEF S
<1>8. IsFiniteSet(SizeFactors(o, c))
  BY <1>1, <1>4, <1>7, FS_Union
<1> QED BY <1>5, <1>6, <1>7, <1>8

\* One scale for all legs, no larger than any limit asks for.
LEMMA ScaleIs ==
    ASSUME NEW o \in Orders, NEW c \in RiskContexts, DecisionOf(o, c) \in {"REDUCE", "ALLOW"}
    PROVE  \E m \in Nat, t \in Nat \ {0} :
                /\ \A id : Scale(o, c, id) = <<m, t>>
                /\ m <= t
                /\ \A n \in Nat, d \in Nat \ {0} :
                    <<n, d>> \in SizeFactors(o, c) \cup {<<1, 1>>} => ScaleWithin(m, t, n, d)
<1> DEFINE F == SizeFactors(o, c)
           g == [f \in F |-> Rounded(f[1], f[2])]
           D == {g[f] : f \in F} \cup {<<1, 1>>}
           s == Least(D)
<1>1. IsFiniteSet(F) /\ \A f \in F : f \in Decimals /\ f[1] < f[2]
  BY FactorIs
<1>2. MaxCoefficient \in Nat \ {0}
  BY RiskAssumption
<1>3. ASSUME NEW f \in F PROVE g[f] \in Decimals
  <2> PICK n \in Nat, d \in Nat \ {0} : f = <<n, d>> /\ n < d
    BY <1>1 DEF Decimals
  <2>1. NearQuotient(Rounded(n, d), n, d, 1)
    BY <1>2, RoundedNear
  <2>2. Rounded(n, d) = <<Rounded(n, d)[1], Rounded(n, d)[2]>>
    BY DEF Rounded
  <2>3. Rounded(n, d) \in Decimals
    BY <2>1, <2>2 DEF NearQuotient, Decimals
  <2> QED BY <2>3
<1>4. IsFiniteSet(D) /\ D \subseteq Decimals /\ D # {}
  <2>1. g = [f \in F |-> g[f]] /\ <<1, 1>> \in Decimals
    BY DEF Decimals
  <2> HIDE DEF F, g
  <2>2. IsFiniteSet(F) /\ g = [f \in F |-> g[f]]
    BY <1>1, <2>1
  <2>3. IsFiniteSet({g[f] : f \in F})
    BY ONLY <2>2, FiniteImage
  <2>4. IsFiniteSet({<<1, 1>>})
    BY FS_Singleton
  <2>5. IsFiniteSet(D)
    BY <2>3, <2>4, FS_Union
  <2>6. D \subseteq Decimals
    <3> SUFFICES ASSUME NEW x \in D PROVE x \in Decimals
      OBVIOUS
    <3>1. (\E f \in F : x = g[f]) \/ x = <<1, 1>>
      OBVIOUS
    <3> HIDE DEF D
    <3> QED BY <1>3, <2>1, <3>1
  <2>7. <<1, 1>> \in D
    OBVIOUS
  <2> HIDE DEF D
  <2> QED BY <2>5, <2>6, <2>7
<1>5. \A id : Scale(o, c, id) = s
  <2>1. D = {Rounded(f[1], f[2]) : f \in F} \cup {<<1, 1>>}
    OBVIOUS
  <2> QED BY <2>1 DEF Scale, ScaleOf, SizeFactors
<1>6. \A f \in F : g[f] \in D /\ g[f] = Rounded(f[1], f[2])
  OBVIOUS
<1>7. <<1, 1>> \in D
  OBVIOUS
<1> HIDE DEF D, g
<1>8. s \in D /\ \A x \in D : ~Less(x, s)
  BY <1>4, LeastIsThere
<1> HIDE DEF s
<1> PICK m \in Nat, t \in Nat \ {0} : s = <<m, t>>
  BY <1>4, <1>8 DEF Decimals
<1>9. m <= t
  <2>1. ~Less(<<1, 1>>, <<m, t>>)
    BY <1>7, <1>8
  <2> QED BY <2>1 DEF Less
<1>10. ASSUME NEW n \in Nat, NEW d \in Nat \ {0}, <<n, d>> \in F \cup {<<1, 1>>}
       PROVE  ScaleWithin(m, t, n, d)
  <2>1. CASE <<n, d>> \in F
    <3>1. n < d
      BY <1>1, <2>1
    <3>2. ~Less(Rounded(n, d), <<m, t>>)
      BY <1>6, <1>8, <2>1
    <3> QED BY <1>2, <3>1, <3>2, ScaleNear
  <2>2. CASE <<n, d>> = <<1, 1>>
    <3>1. MaxCoefficient * (m * 1) <= MaxCoefficient * (1 * t) /\ 5 * (1 * t) > 0
      <4> PICK N \in Nat : N = MaxCoefficient
        BY <1>2
      <4>1. m * N <= t * N
        BY <1>9, TimesKeepsOrder
      <4> QED BY <4>1
    <3>2. MaxCoefficient * (m * 1) < MaxCoefficient * (1 * t) + 5 * (1 * t)
      <4> PICK v, w \in Int : v = MaxCoefficient * (m * 1) /\ w = MaxCoefficient * (1 * t)
        BY <1>2
      <4> QED BY <3>1
    <3> QED BY <2>2, <3>2 DEF ScaleWithin
  <2> QED BY <1>10, <2>1, <2>2
<1> QED BY <1>5, <1>9, <1>10 DEF F
\* What is small beside itself is small enough for every limit.
LEMMA SmallQuantity ==
    ASSUME NEW q \in Nat \ {0}, NEW u \in Nat \ {0}, NoUnitApart(q, u, q, u)
    PROVE  q <= MaxCoefficient /\ NoUnitReached(q, u, q) /\ NoUnitReached(q, u, 1)
<1> PICK N \in Nat : N = MaxCoefficient
  BY RiskAssumption
<1>1. 5 * q * (u + u + 2) * q <= N
  BY DEF NoUnitApart
<1> PICK p \in Nat \ {0} : p = q * q
  <2>1. q * q \in Nat /\ q * q > 0
    OBVIOUS
  <2> QED BY <2>1
<1>2. 5 * q * (u + u + 2) * q = 10 * (p * u) + 10 * p /\ p * u \in Nat
  OBVIOUS
<1>3. 5 * q * (u + 2) * q = 5 * (p * u) + 10 * p
  OBVIOUS
<1>4. 5 * q * (u + 2) * 1 = 5 * (q * u) + 10 * q /\ q * u \in Nat
  OBVIOUS
<1>5. q <= p
  <2>1. 1 * q <= q * q
    BY TimesKeepsOrder
  <2> QED BY <2>1
<1>6. q * u <= p * u
  BY <1>5, TimesKeepsOrder
<1> PICK v, w \in Nat : v = p * u /\ w = q * u
  BY <1>2, <1>4
<1> QED BY <1>1, <1>2, <1>3, <1>4, <1>5, <1>6 DEF NoUnitReached

LEMMA SmallerDivisor ==
    ASSUME NEW q \in Nat, NEW u \in Nat, NEW d \in Nat, NEW e \in Nat, d <= e,
           NoUnitReached(q, u, e)
    PROVE  NoUnitReached(q, u, d)
<1> PICK N \in Nat : N = MaxCoefficient
  BY RiskAssumption
<1> PICK p \in Nat : p = 5 * q * (u + 2)
  OBVIOUS
<1>1. d * p <= e * p
  BY TimesKeepsOrder
<1>2. d * p = 5 * q * (u + 2) * d /\ e * p = 5 * q * (u + 2) * e
  OBVIOUS
<1>3. 5 * q * (u + 2) * e <= N
  BY DEF NoUnitReached
<1> QED BY <1>1, <1>2, <1>3 DEF NoUnitReached

\* What _size_order leaves of a leg: j lots, at the scale m / t.
LegSized(o, c, m, t, id) ==
    \E j \in Nat :
        /\ Sized(o, c)[id] = j * c.legs[id].unit
        /\ Requested(o, id) = 0 => j = 0
        /\ Requested(o, id) > 0 =>
            LotsBounded(j, m, t, Requested(o, id), c.legs[id].unit)

LEMMA LegsAreSized ==
    ASSUME NEW o \in Orders, NEW c \in RiskContexts, DecisionOf(o, c) \in {"REDUCE", "ALLOW"}
    PROVE  \E m \in Nat, t \in Nat \ {0} :
                /\ \A id \in LegIds(o) : LegSized(o, c, m, t, id)
                /\ \A n \in Nat, d \in Nat \ {0} :
                    <<n, d>> \in SizeFactors(o, c) \cup {<<1, 1>>} => ScaleWithin(m, t, n, d)
<1>1. PICK m \in Nat, t \in Nat \ {0} :
            /\ \A id : Scale(o, c, id) = <<m, t>>
            /\ m <= t
            /\ \A n \in Nat, d \in Nat \ {0} :
                <<n, d>> \in SizeFactors(o, c) \cup {<<1, 1>>} => ScaleWithin(m, t, n, d)
  BY ScaleIs
<1>2. MaxCoefficient \in Nat /\ MaxCoefficient >= 1
  BY RiskAssumption
<1>3. ASSUME NEW id \in LegIds(o) PROVE LegSized(o, c, m, t, id)
  <2> PICK q \in Nat : q = Requested(o, id)
    BY OrderAccepted
  <2> PICK u \in Nat \ {0} : u = c.legs[id].unit
    BY OrderAccepted
  <2> DEFINE j == Lots(Times(<<m, t>>, q), u)
  <2>1. Sized(o, c)[id] = j * u
    BY <1>1 DEF Sized
  <2> HIDE DEF j
  <2>2. CASE q = 0
    <3>1. j = 0
      BY <1>2, <2>2, NoLotsOfNothing DEF j
    <3> QED BY <2>1, <2>2, <3>1 DEF LegSized
  <2>3. CASE q # 0
    <3>1. NoUnitApart(q, u, q, u)
      <4>1. SmallBeside(o, c)
        BY OrderAccepted
      <4> QED BY <4>1 DEF SmallBeside, NoUnitApart
    <3>2. q <= MaxCoefficient
      BY <2>3, <3>1, SmallQuantity
    <3>3. LotsBounded(j, m, t, q, u)
      BY <1>1, <2>3, <3>2, LotsNear DEF j
    <3>4. j \in Nat
      BY <3>3 DEF LotsBounded
    <3> QED BY <2>1, <2>3, <3>3, <3>4 DEF LegSized
  <2> QED BY <2>2, <2>3
<1> QED BY <1>1, <1>3

\* A limit of the order, or no limit at all, keeps every leg within its share.
LEMMA LegWithin ==
    ASSUME NEW o \in Orders, NEW c \in RiskContexts, DecisionOf(o, c) \in {"REDUCE", "ALLOW"},
           NEW id \in LegIds(o), NEW n \in Nat, NEW d \in Nat \ {0},
           <<n, d>> \in SizeFactors(o, c) \cup {<<1, 1>>},
           NoUnitReached(Requested(o, id), c.legs[id].unit, d)
    PROVE  /\ Sized(o, c)[id] \in Nat
           /\ Sized(o, c)[id] * d <= Requested(o, id) * n
<1>1. PICK m \in Nat, t \in Nat \ {0} :
            /\ LegSized(o, c, m, t, id)
            /\ ScaleWithin(m, t, n, d)
  BY LegsAreSized
<1> PICK q \in Nat : q = Requested(o, id)
  BY OrderAccepted
<1> PICK u \in Nat \ {0} : u = c.legs[id].unit
  BY OrderAccepted
<1>2. PICK j \in Nat : /\ Sized(o, c)[id] = j * u /\ (q = 0 => j = 0)
                       /\ (q > 0 => LotsBounded(j, m, t, q, u))
  BY <1>1 DEF LegSized
<1>3. j * u \in Nat
  OBVIOUS
<1>4. CASE q = 0
  <2>1. j * u = 0 /\ q * n = 0 /\ 0 * d = 0
    BY <1>2, <1>4
  <2> QED BY <1>2, <1>3, <2>1
<1>5. CASE q # 0
  <2>1. NoUnitReached(q, u, d) /\ q \in Nat \ {0}
    BY <1>5
  <2>2. ScaleWithin(m, t, n, d) /\ LotsBounded(j, m, t, q, u)
    BY <1>1, <1>2, <1>5
  <2>3. /\ m \in Nat /\ n \in Nat /\ j \in Nat
        /\ t \in Nat \ {0} /\ d \in Nat \ {0} /\ u \in Nat \ {0}
    OBVIOUS
  <2>4. (j * u) * d <= q * n
    BY ONLY <2>1, <2>2, <2>3, WithinFactor
  <2> QED BY <1>2, <1>3, <2>4
<1> QED BY <1>4, <1>5
\* Nothing is asked of a leg, or of the account, beyond what was requested.
LEMMA LegWithinRequest ==
    ASSUME NEW o \in Orders, NEW c \in RiskContexts, DecisionOf(o, c) \in {"REDUCE", "ALLOW"},
           NEW id \in LegIds(o)
    PROVE  /\ Sized(o, c)[id] \in Nat
           /\ Sized(o, c)[id] <= Requested(o, id)
           /\ Sized(o, c)[id] <= c.legs[id].available
<1> PICK q \in Nat : q = Requested(o, id)
  BY OrderAccepted
<1> PICK u \in Nat \ {0} : u = c.legs[id].unit
  BY OrderAccepted
<1> PICK v \in Nat : v = c.legs[id].available
  BY OrderAccepted
<1>1. NoUnitReached(q, u, 1) /\ (q > 0 => NoUnitReached(q, u, q))
  <2>1. CASE q = 0
    <3>1. 5 * 0 * (u + 2) * 1 <= MaxCoefficient
      BY RiskAssumption
    <3> QED BY <2>1, <3>1 DEF NoUnitReached
  <2>2. CASE q # 0
    <3>1. NoUnitApart(q, u, q, u)
      <4>1. SmallBeside(o, c)
        BY OrderAccepted
      <4> QED BY <4>1 DEF SmallBeside, NoUnitApart
    <3> QED BY <2>2, <3>1, SmallQuantity
  <2> QED BY <2>1, <2>2
<1>2. Sized(o, c)[id] \in Nat /\ Sized(o, c)[id] * 1 <= q * 1
  <2>1. NoUnitReached(Requested(o, id), c.legs[id].unit, 1)
    BY <1>1
  <2>2. 1 \in Nat /\ 1 \in Nat \ {0} /\ <<1, 1>> \in SizeFactors(o, c) \cup {<<1, 1>>}
    OBVIOUS
  <2>3. Sized(o, c)[id] \in Nat /\ Sized(o, c)[id] * 1 <= Requested(o, id) * 1
    BY <2>1, <2>2, LegWithin
  <2> QED BY <2>3
<1> PICK a \in Nat : a = Sized(o, c)[id]
  BY <1>2
<1>3. a <= q
  BY <1>2
<1>4. CASE v < q
  <2>1. <<v, q>> \in SizeFactors(o, c)
    BY <1>4 DEF SizeFactors, LiquidityFactors
  <2>2. a * q <= q * v
    BY <1>1, <1>4, <2>1, LegWithin
  <2>3. q * v = v * q
    OBVIOUS
  <2>4. a <= v
    BY <1>4, <2>2, <2>3, CancelsAtMost
  <2> QED BY <1>3, <2>4
<1> QED BY <1>3, <1>4

\* So a limit on what the order loses at its stops is kept by the whole order.
LEMMA StopRiskWithin ==
    ASSUME NEW o \in Orders, NEW c \in RiskContexts, DecisionOf(o, c) \in {"REDUCE", "ALLOW"},
           NEW n \in Nat, NEW d \in Nat \ {0},
           \A id \in LegIds(o) : Sized(o, c)[id] * d <= Requested(o, id) * n
    PROVE  /\ StopRisk(o, c, Sized(o, c)) \in Nat
           /\ StopRisk(o, c, Sized(o, c)) * d <= RequestedRisk(o, c) * n
<1> DEFINE S == LegIds(o)
           A == [id \in S |-> Sized(o, c)[id] * c.legs[id].stop]
           F == [id \in S |-> Requested(o, id) * c.legs[id].stop]
           Z == [id \in S |-> 0]
           Ad == [id \in S |-> A[id] * d]
           Fn == [id \in S |-> F[id] * n]
<1>1. IsFiniteSet(S)
  BY OrderAccepted
<1>2. StopRisk(o, c, Sized(o, c)) = SumFunctionOnSet(A, S)
  BY DEF StopRisk, SumFunction
<1>3. RequestedRisk(o, c) = SumFunctionOnSet(F, S)
  BY RequestedRiskIs DEF LegSum
<1>4. ASSUME NEW id \in S
      PROVE  A[id] \in Nat /\ F[id] \in Nat /\ A[id] * d <= F[id] * n
  <2> PICK q \in Nat, s \in Nat \ {0} : q = Requested(o, id) /\ s = c.legs[id].stop
    BY OrderAccepted
  <2> PICK a \in Nat : a = Sized(o, c)[id]
    BY LegWithinRequest
  <2>1. A[id] = a * s /\ F[id] = q * s
    OBVIOUS
  <2>2. a * d <= q * n
    OBVIOUS
  <2>3. (a * d) * s <= (q * n) * s
    <3> PICK v, w \in Int : v = a * d /\ w = q * n
      OBVIOUS
    <3> QED BY <2>2, TimesKeepsOrder
  <2>4. (a * d) * s = (a * s) * d /\ (q * n) * s = (q * s) * n /\ a * s \in Nat /\ q * s \in Nat
    OBVIOUS
  <2> HIDE DEF A, F
  <2> QED BY <2>1, <2>3, <2>4
<1>5. \A id \in S : /\ A[id] \in Int /\ F[id] \in Int /\ Z[id] = 0 /\ Z[id] \in Int
                    /\ Z[id] <= A[id]
                    /\ Ad[id] = A[id] * d /\ Fn[id] = F[id] * n
                    /\ Ad[id] \in Int /\ Fn[id] \in Int /\ Ad[id] <= Fn[id]
  <2> SUFFICES ASSUME NEW id \in S
               PROVE  /\ A[id] \in Int /\ F[id] \in Int /\ Z[id] = 0 /\ Z[id] \in Int
                      /\ Z[id] <= A[id]
                      /\ Ad[id] = A[id] * d /\ Fn[id] = F[id] * n
                      /\ Ad[id] \in Int /\ Fn[id] \in Int /\ Ad[id] <= Fn[id]
    OBVIOUS
  <2> PICK a, f \in Nat : a = A[id] /\ f = F[id] /\ a * d <= f * n
    BY <1>4
  <2>1. Ad[id] = a * d /\ Fn[id] = f * n /\ Z[id] = 0
    OBVIOUS
  <2>2. a * d \in Int /\ f * n \in Int
    OBVIOUS
  <2> HIDE DEF A, F, Z, Ad, Fn
  <2> QED BY <2>1, <2>2
<1> HIDE DEF S, A, F, Z, Ad, Fn
<1>6. SumFunctionOnSet(A, S) \in Int /\ SumFunctionOnSet(Z, S) = 0
  BY <1>1, <1>5, SumInt, SumZero
<1>7. SumFunctionOnSet(Z, S) <= SumFunctionOnSet(A, S)
  BY <1>1, <1>5, SumAtMost
<1>8. d \in Int /\ n \in Int
  OBVIOUS
<1>9. SumFunctionOnSet(Ad, S) = SumFunctionOnSet(A, S) * d
  BY <1>1, <1>5, <1>8, SumScaled
<1>10. SumFunctionOnSet(Fn, S) = SumFunctionOnSet(F, S) * n
  BY <1>1, <1>5, <1>8, SumScaled
<1>11. SumFunctionOnSet(Ad, S) <= SumFunctionOnSet(Fn, S)
  BY <1>1, <1>5, SumAtMost
<1> QED BY <1>2, <1>3, <1>6, <1>7, <1>9, <1>10, <1>11

\* The risk of what is approved, against the budget and against the account.
LEMMA RiskWithin ==
    ASSUME NEW o \in Orders, NEW c \in RiskContexts, DecisionOf(o, c) \in {"REDUCE", "ALLOW"}
    PROVE  /\ StopRisk(o, c, Sized(o, c)) <= o.budget
           /\ StopRisk(o, c, Sized(o, c)) * TradeRisk[2] <= c.equity * TradeRisk[1]
<1> PICK R \in Nat : R = RequestedRisk(o, c)
  BY RequestedRiskIs
<1> PICK e \in Nat : e = c.equity
  BY OrderAccepted
<1> PICK b \in Nat : b = o.budget
  BY OrderAccepted
<1> PICK r1 \in Nat \ {0}, r2 \in Nat \ {0} : TradeRisk = <<r1, r2>>
  BY RiskAssumption
<1>1. \A id \in LegIds(o) : Sized(o, c)[id] * 1 <= Requested(o, id) * 1
  <2> SUFFICES ASSUME NEW id \in LegIds(o)
               PROVE  Sized(o, c)[id] * 1 <= Requested(o, id) * 1
    OBVIOUS
  <2> PICK q \in Nat : q = Requested(o, id)
    BY OrderAccepted
  <2> QED BY LegWithinRequest
<1>2. PICK s \in Nat : s = StopRisk(o, c, Sized(o, c)) /\ s * 1 <= R * 1
  BY <1>1, StopRiskWithin
<1>3. s <= R
  BY <1>2
<1> PICK Rr, er \in Nat : Rr = R * r2 /\ er = e * r1
  <2>1. R * r2 \in Nat /\ e * r1 \in Nat
    OBVIOUS
  <2> QED BY <2>1
<1>4. R <= Rr
  <2>1. 1 * R <= r2 * R
    BY TimesKeepsOrder
  <2> QED BY <2>1
<1>5. ASSUME NEW id \in LegIds(o)
      PROVE  /\ NoUnitReached(Requested(o, id), c.legs[id].unit, Rr)
             /\ NoUnitReached(Requested(o, id), c.legs[id].unit, R)
  <2> PICK q \in Nat : q = Requested(o, id)
    BY OrderAccepted
  <2> PICK u \in Nat \ {0} : u = c.legs[id].unit
    BY OrderAccepted
  <2>1. SmallBeside(o, c) /\ TradeRisk[2] = r2
    BY OrderAccepted
  <2>2. 5 * q * (u + 2) * Rr <= MaxCoefficient
    BY <2>1 DEF SmallBeside
  <2>3. NoUnitReached(q, u, Rr)
    BY <2>2 DEF NoUnitReached
  <2> QED BY <1>4, <2>3, SmallerDivisor
<1>6. s <= b
  <2>1. CASE b < R
    <3>1. <<b, R>> \in SizeFactors(o, c)
      BY <2>1 DEF SizeFactors, RiskFactors
    <3>2. \A id \in LegIds(o) : Sized(o, c)[id] * R <= Requested(o, id) * b
      BY <1>5, <2>1, <3>1, LegWithin
    <3>3. s * R <= R * b
      BY <1>2, <2>1, <3>2, StopRiskWithin
    <3>4. R * b = b * R
      OBVIOUS
    <3> QED BY <2>1, <3>3, <3>4, CancelsAtMost
  <2> QED BY <1>3, <2>1
<1>7. s * r2 <= er
  <2>1. CASE er < Rr
    <3>1. <<er, Rr>> \in SizeFactors(o, c)
      BY <2>1 DEF SizeFactors, RiskFactors
    <3>2. \A id \in LegIds(o) : Sized(o, c)[id] * Rr <= Requested(o, id) * er
      BY <1>5, <2>1, <3>1, LegWithin
    <3>3. s * Rr <= R * er
      BY <1>2, <2>1, <3>2, StopRiskWithin
    <3>4. R > 0
      BY <2>1
    <3>5. s * Rr = (s * r2) * R /\ R * er = er * R /\ s * r2 \in Nat
      OBVIOUS
    <3> PICK x \in Nat : x = s * r2
      BY <3>5
    <3>6. x * R <= er * R
      BY <3>3, <3>5
    <3> QED BY <3>4, <3>6, CancelsAtMost
  <2>2. CASE er >= Rr
    <3>1. s * r2 <= R * r2
      BY <1>3, TimesKeepsOrder
    <3> QED BY <2>2, <3>1
  <2> QED BY <2>1, <2>2
<1>8. TradeRisk[2] = r2 /\ c.equity * TradeRisk[1] = er
  OBVIOUS
<1> QED BY <1>2, <1>6, <1>7, <1>8
-----------------------------------------------------------------------------

\* Whatever the order and the account, a reduced or allowed order stays within
\* its budget, the share of the equity one trade may risk, and each leg's
\* liquidity, if the amounts are small beside the digits of a decimal.
THEOREM ApprovedWithinEveryLimitTheorem == RiskSpec => []ApprovedWithinEveryLimit
<1>1. RiskInit => ApprovedWithinEveryLimit
  BY DEF RiskInit, ApprovedWithinEveryLimit
<1>2. ApprovedWithinEveryLimit /\ [EvaluateOrder]_riskVars => ApprovedWithinEveryLimit'
  <2> SUFFICES ASSUME ApprovedWithinEveryLimit, [EvaluateOrder]_riskVars
               PROVE  ApprovedWithinEveryLimit'
    OBVIOUS
  <2>1. CASE EvaluateOrder
    <3> SUFFICES ASSUME decision' \in {"REDUCE", "ALLOW"}
                 PROVE  /\ StopRisk(order', context', approved') <= order'.budget
                        /\ StopRisk(order', context', approved') * TradeRisk[2]
                             <= context'.equity * TradeRisk[1]
                        /\ \A id \in LegIds(order') :
                             approved'[id]
                               <= Min({Requested(order', id), context'.legs[id].available})
      BY DEF ApprovedWithinEveryLimit
    <3>1. PICK o \in Orders, c \in RiskContexts : o = order' /\ c = context'
      BY <2>1 DEF EvaluateOrder
    <3>2. DecisionOf(o, c) \in {"REDUCE", "ALLOW"} /\ approved' = Sized(o, c)
      BY <2>1, <3>1 DEF EvaluateOrder
    <3>3. /\ StopRisk(o, c, Sized(o, c)) <= o.budget
          /\ StopRisk(o, c, Sized(o, c)) * TradeRisk[2] <= c.equity * TradeRisk[1]
      BY <3>2, RiskWithin
    <3>4. ASSUME NEW id \in LegIds(o)
          PROVE  Sized(o, c)[id] <= Min({Requested(o, id), c.legs[id].available})
      <4> PICK q \in Nat : q = Requested(o, id)
        BY <3>2, OrderAccepted
      <4> PICK v \in Nat : v = c.legs[id].available
        BY <3>2, OrderAccepted
      <4>1. Sized(o, c)[id] <= q /\ Sized(o, c)[id] <= v
        BY <3>2, LegWithinRequest
      <4>2. Min({q, v}) \in {q, v}
        <5>1. \E x \in {q, v} : \A y \in {q, v} : x <= y
          <6>1. CASE q <= v
            BY <6>1
          <6>2. CASE v <= q
            BY <6>2
          <6> QED BY <6>1, <6>2
        <5> QED BY <5>1 DEF Min
      <4> QED BY <4>1, <4>2
    <3> QED BY <3>1, <3>2, <3>3, <3>4
  <2>2. CASE UNCHANGED riskVars
    <3>1. order' = order /\ context' = context /\ decision' = decision /\ approved' = approved
      BY <2>2 DEF riskVars
    <3>2. StopRisk(order', context', approved') = StopRisk(order, context, approved)
      BY <3>1
    <3> SUFFICES ASSUME decision' \in {"REDUCE", "ALLOW"}
                 PROVE  /\ StopRisk(order', context', approved') <= order'.budget
                        /\ StopRisk(order', context', approved') * TradeRisk[2]
                             <= context'.equity * TradeRisk[1]
                        /\ \A id \in LegIds(order') :
                             approved'[id]
                               <= Min({Requested(order', id), context'.legs[id].available})
      BY DEF ApprovedWithinEveryLimit
    <3>3. \A id \in LegIds(order') :
            approved'[id] <= Min({Requested(order', id), context'.legs[id].available})
      BY <3>1 DEF ApprovedWithinEveryLimit
    <3> QED BY <3>1, <3>2, <3>3 DEF ApprovedWithinEveryLimit
  <2> QED BY <2>1, <2>2
<1> QED BY <1>1, <1>2, PTL DEF RiskSpec

\* Both legs are sized at one scale, so neither is a lot ahead.
LEMMA RatioOfLegs ==
    ASSUME NEW o \in Orders, NEW c \in RiskContexts, DecisionOf(o, c) \in {"REDUCE", "ALLOW"},
           NEW a \in LegIds(o), NEW b \in LegIds(o)
    PROVE  Sized(o, c)[a] * Requested(o, b)
             <= (Sized(o, c)[b] + c.legs[b].unit) * Requested(o, a)
<1>1. PICK m \in Nat, t \in Nat \ {0} : LegSized(o, c, m, t, a) /\ LegSized(o, c, m, t, b)
  BY LegsAreSized
<1> PICK q \in Nat, p \in Nat : q = Requested(o, a) /\ p = Requested(o, b)
  BY OrderAccepted
<1> PICK u \in Nat \ {0}, v \in Nat \ {0} : u = c.legs[a].unit /\ v = c.legs[b].unit
  BY OrderAccepted
<1>2. PICK j \in Nat : /\ Sized(o, c)[a] = j * u /\ (q = 0 => j = 0)
                       /\ (q > 0 => LotsBounded(j, m, t, q, u))
  BY <1>1 DEF LegSized
<1>3. PICK k \in Nat : /\ Sized(o, c)[b] = k * v
                       /\ (p > 0 => LotsBounded(k, m, t, p, v))
  BY <1>1 DEF LegSized
<1>4. (j * u) * p <= (k * v + v) * q
  <2>1. CASE q = 0
    <3>1. (j * u) * p = 0 /\ (k * v + v) * q = 0
      BY <1>2, <2>1
    <3> QED BY <3>1
  <2>2. CASE p = 0
    <3>1. (j * u) * p = 0
      BY <2>2
    <3>2. 0 * q <= (k * v + v) * q
      <4>1. k * v + v \in Nat
        OBVIOUS
      <4> PICK w \in Nat : w = k * v + v
        BY <4>1
      <4> QED BY TimesKeepsOrder
    <3> QED BY <3>1, <3>2
  <2>3. CASE q # 0 /\ p # 0
    <3>1. NoUnitApart(q, u, p, v)
      <4>1. SmallBeside(o, c)
        BY OrderAccepted
      <4> QED BY <4>1 DEF SmallBeside, NoUnitApart
    <3>2. LotsBounded(j, m, t, q, u) /\ LotsBounded(k, m, t, p, v)
      BY <1>2, <1>3, <2>3
    <3>3. /\ q \in Nat \ {0} /\ p \in Nat \ {0} /\ m \in Nat /\ t \in Nat \ {0}
          /\ u \in Nat \ {0} /\ v \in Nat \ {0} /\ j \in Nat /\ k \in Nat
      BY <2>3
    <3> QED BY ONLY <3>1, <3>2, <3>3, RatioKept
  <2> QED BY <2>1, <2>2, <2>3
<1> QED BY <1>2, <1>3, <1>4

\* The legs of a reduced order keep the proportion they were asked in, to within
\* one lot of each other, whatever limit of whichever leg reduced it.
THEOREM LegsKeepTheirRatioTheorem == RiskSpec => []LegsKeepTheirRatio
<1>1. RiskInit => LegsKeepTheirRatio
  BY DEF RiskInit, LegsKeepTheirRatio
<1>2. LegsKeepTheirRatio /\ [EvaluateOrder]_riskVars => LegsKeepTheirRatio'
  <2> SUFFICES ASSUME LegsKeepTheirRatio, [EvaluateOrder]_riskVars
               PROVE  LegsKeepTheirRatio'
    OBVIOUS
  <2>1. CASE EvaluateOrder
    <3> SUFFICES ASSUME decision' \in {"REDUCE", "ALLOW"},
                        NEW a \in LegIds(order'), NEW b \in LegIds(order')
                 PROVE  approved'[a] * Requested(order', b)
                          <= (approved'[b] + context'.legs[b].unit) * Requested(order', a)
      BY DEF LegsKeepTheirRatio
    <3>1. PICK o \in Orders, c \in RiskContexts : o = order' /\ c = context'
      BY <2>1 DEF EvaluateOrder
    <3>2. DecisionOf(o, c) \in {"REDUCE", "ALLOW"} /\ approved' = Sized(o, c)
      BY <2>1, <3>1 DEF EvaluateOrder
    <3> QED BY <3>1, <3>2, RatioOfLegs
  <2>2. CASE UNCHANGED riskVars
    BY <2>2 DEF riskVars, LegsKeepTheirRatio, LegIds, Requested
  <2> QED BY <2>1, <2>2
<1> QED BY <1>1, <1>2, PTL DEF RiskSpec

=============================================================================
