----------------------------- MODULE OfiFeature ------------------------------
(***************************************************************************)
(* The ten minute feature of the continuous order flow model: the quotes   *)
(* and the program trading of a window, hard filters, and five numbers     *)
(* computed only when every filter is passed.                              *)
(*                                                                         *)
(* Times are ticks, the two second bounds a number of them.  A quote has   *)
(* its best prices and quantities and the sums of its ten levels; numbers  *)
(* are fractions <<n, d>>.  The flags of the day's quality evidence are a  *)
(* set.                                                                    *)
(***************************************************************************)
EXTENDS Integers, Sequences, FiniteSetsExt, SequencesExt, InOrder

CONSTANTS
    Windows,        \* bound: ContinuousOfiWindowInput
    WindowStart, WindowEnd,
    WindowTicks,    \* SEALED_WINDOW_SECONDS
    MaxEventAge,    \* two seconds before the end of the window
    Tick,           \* tick_size
    NoTime          \* an event the provider gave no time

EventsTyped(events) ==
    /\ Len(events) \in Nat /\ DOMAIN events = 1..Len(events)
    /\ \A i \in DOMAIN events : events[i].time \in Int \cup {NoTime}

ASSUME OfiFeatureAssumption ==
    /\ \A w \in Windows :
        /\ {"quotes", "programs"} \subseteq DOMAIN w
        /\ EventsTyped(w.quotes) /\ EventsTyped(w.programs)
        /\ \A i \in DOMAIN w.quotes : {w.quotes[i].bidDepth, w.quotes[i].askDepth} \subseteq Int
    /\ WindowStart \in Nat /\ WindowEnd \in Nat
    /\ WindowEnd = WindowStart + WindowTicks /\ WindowTicks \in Nat \ {0}
    /\ MaxEventAge \in Nat /\ Tick \in Nat \ {0}

VARIABLES window, ofiFeature   \* the input, and NotComputable or the vector

ofiFeatureVars == <<window, ofiFeature>>

NoWindow == [quotes |-> <<>>, programs |-> <<>>]
NotYet == [status |-> "NONE"]
NotComputable == [status |-> "NOT_COMPUTABLE"]

-----------------------------------------------------------------------------

EventsUpTo(events, t) == PartAt(events, {i \in DOMAIN events : events[i].time <= t})

Eligible(events) == EventsUpTo(events, WindowEnd)
AtStart(events) == EventsUpTo(events, WindowStart)

AllTimed(events) == \A i \in DOMAIN events : events[i].time # NoTime

StrictlyIncreasing(events) ==
    \A i \in 1..(Len(events) - 1) : events[i].time < events[i + 1].time

\* _has_complete_depth and the checks of an eligible book.
BookGood(q) == q.complete /\ q.bid < q.ask /\ q.bidDepth + q.askDepth > 0

FreshAtEnd(events) == WindowEnd - Last(events).time <= MaxEventAge

\* _hard_filter_reasons and _event_reasons: the filters of one window.  Times and
\* order are demanded of all events, also of those after the window.
FiltersPassed(w) ==
    /\ w.flags = {}
    /\ w.adv.value > 0 /\ w.adv.available <= WindowEnd
    /\ AllTimed(w.quotes) /\ AllTimed(w.programs)
    /\ StrictlyIncreasing(w.quotes) /\ StrictlyIncreasing(w.programs)
    /\ AtStart(w.quotes) # <<>>
    /\ FreshAtEnd(Eligible(w.quotes))
    /\ \A q \in ToSet(Eligible(w.quotes)) : BookGood(q)
    /\ Eligible(w.programs) # <<>> /\ FreshAtEnd(Eligible(w.programs))
    /\ \A p \in ToSet(Eligible(w.programs)) : p.krx /\ p.known
    /\ w.semantics = "CUMULATIVE" => AtStart(w.programs) # <<>>
    /\ w.semantics # "UNSEALED"

-----------------------------------------------------------------------------

\* calculate_best_quote_ofi_increment
OfiIncrement(p, c) ==
      (IF c.bid >= p.bid THEN c.bidQty ELSE 0) - (IF c.bid <= p.bid THEN p.bidQty ELSE 0)
    - (IF c.ask <= p.ask THEN c.askQty ELSE 0) + (IF c.ask >= p.ask THEN p.askQty ELSE 0)

\* Mutant: the quotes of the window and those that follow it.
ActiveAndLater(w) == SubSeq(w.quotes, Len(AtStart(w.quotes)), Len(w.quotes))

\* The quote valid at the start of the window, and those inside it.
Active(w) == SubSeq(Eligible(w.quotes), Len(AtStart(w.quotes)), Len(Eligible(w.quotes)))

WindowOfi(qs) ==
    FoldSeq(+, 0, [i \in 1..(Len(qs) - 1) |-> OfiIncrement(qs[i], qs[i + 1])])

\* Mutant: the first quote counts from its own time.
DurationFromQuote(qs, i) ==
    (IF i < Len(qs) THEN Min({qs[i + 1].time, WindowEnd}) ELSE WindowEnd) - qs[i].time

\* How long a quote was the last one within the window.
Duration(qs, i) ==
    (IF i < Len(qs) THEN Min({qs[i + 1].time, WindowEnd}) ELSE WindowEnd)
        - Max({qs[i].time, WindowStart})

AddFraction(f, s) == <<f[1] * s[2] + s[1] * f[2], f[2] * s[2]>>

SumFractions(fs) == FoldSeq(AddFraction, <<0, 1>>, fs)

\* Twice the time-weighted best depth, and the time-weighted imbalance.
BestDepth(qs) ==
    FoldSeq(+, 0, [i \in DOMAIN qs |-> (qs[i].bidQty + qs[i].askQty) * Max({Duration(qs, i), 0})])

DepthImbalance(qs) ==
    SumFractions([i \in DOMAIN qs |->
        <<(qs[i].bidDepth - qs[i].askDepth) * Max({Duration(qs, i), 0}),
          qs[i].bidDepth + qs[i].askDepth>>])

\* calculate_program_window_notional: a difference of running totals, or a sum
\* of increments, one at the very start of the window among them.
NotionalOf(within, before, semantics) ==
    IF semantics = "CUMULATIVE"
    THEN Last(within).net - Last(before).net
    ELSE FoldSeq(LAMBDA p, sum : p.net + sum, 0,
                 SelectSeq(within, LAMBDA p : p.time >= WindowStart))

ProgramNotional(programs, semantics) ==
    NotionalOf(Eligible(programs), AtStart(programs), semantics)

FeatureOf(w) ==
    LET qs == Active(w)
        last == Last(qs)
        ofi == WindowOfi(qs)
        bought == ProgramNotional(w.programs, w.semantics)
    IN  IF ~FiltersPassed(w) THEN NotComputable
        ELSE IF BestDepth(qs) <= 0 \/ last.bidQty + last.askQty <= 0 THEN NotComputable
        ELSE [status |-> "COMPUTABLE",
              x_ofi |-> <<2 * ofi * WindowTicks, BestDepth(qs)>>,
              x_depth |-> LET d == DepthImbalance(qs) IN <<d[1], d[2] * WindowTicks>>,
              x_micro |-> <<2 * (last.ask * last.bidQty + last.bid * last.askQty)
                              - (last.bid + last.ask) * (last.bidQty + last.askQty),
                            2 * (last.bidQty + last.askQty) * Tick>>,
              x_program |-> <<bought, w.adv.value>>,
              x_conflict |-> ofi # 0 /\ bought # 0 /\ (ofi > 0) # (bought > 0)]

OfiFeatureInit == window = NoWindow /\ ofiFeature = NotYet

\* compute_continuous_ofi_features
ComputeFeature ==
    /\ ofiFeature = NotYet
    /\ window' \in Windows
    /\ ofiFeature' = FeatureOf(window')

OfiFeatureSpec == OfiFeatureInit /\ [][ComputeFeature]_ofiFeatureVars

-----------------------------------------------------------------------------

\* No lookahead: what came after the window changes no number of the feature.
\* (Late events out of order make it not computable.)
FeatureIgnoresLaterEvents ==
    ofiFeature.status = "COMPUTABLE" =>
        ofiFeature = FeatureOf([window EXCEPT !.quotes = Eligible(@), !.programs = Eligible(@)])

\* The time weights of the quotes add up to the window, neither less, when the
\* first quote is older than the window, nor more: with a constant book the
\* weighted imbalance is the imbalance of the book.
WeightsCoverTheWindow ==
    ofiFeature.status = "COMPUTABLE" =>
        LET qs == Active(window)
        IN  (\A q \in ToSet(qs) : q.bidDepth = qs[1].bidDepth /\ q.askDepth = qs[1].askDepth) =>
                ofiFeature.x_depth[1] * (qs[1].bidDepth + qs[1].askDepth)
                    = ofiFeature.x_depth[2] * (qs[1].bidDepth - qs[1].askDepth)

=============================================================================
