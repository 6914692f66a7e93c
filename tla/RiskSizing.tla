----------------------------- MODULE RiskSizing ------------------------------
(***************************************************************************)
(* The risk engine: an order of one or more legs meets the kill switches,  *)
(* any of which blocks it, and then is scaled down, all legs by the same   *)
(* factor, to the risk it may take and to what the market offers, and each *)
(* leg rounded down to its lot.                                            *)
(*                                                                         *)
(* The factor is a quotient of decimals, rounded to the digits of the      *)
(* context, 28 in Python.  Amounts are counted in their smallest unit, and *)
(* are small beside 10^28.  Reason codes are left out.                     *)
(***************************************************************************)
EXTENDS Integers, Sequences, FiniteSetsExt, SequencesExt

CONSTANTS
    Orders,           \* bound: [legs : Seq([id, quantity]), budget, expires]
    RiskContexts,     \* bound: RiskEvaluationContext
    TradeRisk,        \* <<n, d>>: max_risk_per_trade_fraction
    DailyLoss,        \* <<n, d>>: max_daily_loss_fraction
    CumulativeMdd,    \* <<n, d>>: max_cumulative_mdd_fraction
    QuoteAge,         \* by strategy class: the greatest age of a quote
    LegTimeout,       \* leg_timeout_seconds
    Tens,             \* bound: 1, 10, 100, ...: what a decimal may be counted in
    MaxCoefficient,   \* 10^28
    Absent            \* None

OrderTyped(o) ==
    /\ Len(o.legs) \in Nat /\ DOMAIN o.legs = 1..Len(o.legs)
    /\ \A i \in DOMAIN o.legs : o.legs[i].quantity \in Nat
    /\ o.budget \in Nat

ContextTyped(c) ==
    /\ c.equity \in Nat
    /\ \A id \in DOMAIN c.legs :
        /\ c.legs[id].unit \in Nat \ {0}
        /\ {c.legs[id].stop, c.legs[id].available} \subseteq Nat \cup {Absent}

ASSUME RiskAssumption ==
    /\ \A o \in Orders : OrderTyped(o)
    /\ \A c \in RiskContexts : ContextTyped(c)
    /\ TradeRisk \in (Nat \ {0}) \X (Nat \ {0}) /\ TradeRisk[1] < TradeRisk[2]
    /\ LegTimeout \in Nat \ {0}
    /\ IsFiniteSet(Tens) /\ Tens \subseteq Nat \ {0} /\ 1 \in Tens
    /\ MaxCoefficient \in Nat \ {0}
    /\ \A t \in Tens : 10 * t \in Tens \/ t >= MaxCoefficient

VARIABLES order, context, decision, approved
    \* decision: "NONE", "BLOCK", "REDUCE", "ALLOW"; approved: by leg

riskVars == <<order, context, decision, approved>>

NoOrder == [legs |-> <<>>]
NoContext == [now |-> 0]

-----------------------------------------------------------------------------

\* A decimal is <<m, t>>, m / t where t is a power of ten.  Rounded(n, d) is
\* n / d with as many digits as there are, half to even.
HalfEven(n, d) ==
    LET q == n \div d
        r == 2 * (n - d * q)
    IN  IF r > d \/ (r = d /\ q % 2 = 1) THEN q + 1 ELSE q

Fits(n, d, t) == HalfEven(n * t, d) <= MaxCoefficient

Rounded(n, d) ==
    LET t == CHOOSE t \in Tens : Fits(n, d, t) /\ (10 * t \in Tens => ~Fits(n, d, 10 * t))
    IN  <<HalfEven(n * t, d), t>>

Less(a, b) == a[1] * b[2] < b[1] * a[2]
Least(decimals) == CHOOSE a \in decimals : \A b \in decimals : ~Less(b, a)
Times(a, n) == Rounded(a[1] * n, a[2])
Lots(a, unit) == LET q == Rounded(a[1], unit * a[2]) IN q[1] \div q[2]

-----------------------------------------------------------------------------

LegIds(o) == {o.legs[i].id : i \in DOMAIN o.legs}
Requested(o, id) == (CHOOSE l \in ToSet(o.legs) : l.id = id).quantity
DuplicateLegs(o) == \E i, k \in DOMAIN o.legs : i # k /\ o.legs[i].id = o.legs[k].id

\* The account's and the operation's switches; c.switches holds those that are
\* plain flags of the context, set the wrong way.
AccountStops(o, c) ==
    \/ c.now >= o.expires
    \/ c.equity <= 0 \/ c.peak <= 0
    \/ c.switches # {}
    \/ c.equity > 0 /\ Max({-c.pnl, 0}) * DailyLoss[2] >= DailyLoss[1] * c.equity
    \/ c.peak > 0 /\ Max({c.peak - c.current, 0}) * CumulativeMdd[2] >= CumulativeMdd[1] * c.peak
    \/ c.cost >= c.gross
    \/ c.class = "H2" /\ c.conversion # "OPERATIONAL"
    \/ c.unhedgedSince # Absent /\ c.now - c.unhedgedSince >= LegTimeout

\* The market's switches, for each leg.
LegStops(s, c) ==
    \/ s.market # "OPEN"
    \/ s.quoted = Absent \/ s.quoted > c.now \/ c.now - s.quoted > QuoteAge[c.class]
    \/ s.stop = Absent \/ s.stop <= 0
    \/ s.available = Absent
    \/ s.borrows /\ (~s.lendable \/ s.borrowUntil = Absent \/ s.borrowUntil <= c.now)

KillSwitch(o, c) ==
    \/ DuplicateLegs(o)
    \/ AccountStops(o, c)
    \/ \E id \in LegIds(o) : id \notin DOMAIN c.legs \/ LegStops(c.legs[id], c)

\* _size_order: every limit the order exceeds gives a factor, as <<n, d>>.
RequestedByLeg(o) == [id \in LegIds(o) |-> Requested(o, id)]

StopRisk(o, c, quantities) ==
    SumFunction([id \in LegIds(o) |-> quantities[id] * c.legs[id].stop])

RequestedRisk(o, c) == StopRisk(o, c, RequestedByLeg(o))

RiskFactors(o, c) ==
    {f \in {<<c.equity * TradeRisk[1], RequestedRisk(o, c) * TradeRisk[2]>>,
            <<o.budget, RequestedRisk(o, c)>>} : f[1] < f[2]}

LiquidityFactors(o, c, ids) ==
    {<<c.legs[id].available, Requested(o, id)>> :
        id \in {i \in ids : c.legs[i].available < Requested(o, i)}}

ScaleOf(factors) == Least({Rounded(f[1], f[2]) : f \in factors} \cup {<<1, 1>>})

\* Mutant: the risk limits alone scale the order.
ScaleByRisk(o, c, id) == ScaleOf(RiskFactors(o, c))

\* Mutant: each leg is scaled to its own liquidity.
ScaleByLeg(o, c, id) == ScaleOf(RiskFactors(o, c) \cup LiquidityFactors(o, c, {id}))

\* One factor for all legs.
Scale(o, c, id) == ScaleOf(RiskFactors(o, c) \cup LiquidityFactors(o, c, LegIds(o)))

Sized(o, c) ==
    [id \in LegIds(o) |->
        Lots(Times(Scale(o, c, id), Requested(o, id)), c.legs[id].unit) * c.legs[id].unit]

DecisionOf(o, c) ==
    IF KillSwitch(o, c) \/ o.budget <= 0 THEN "BLOCK"
    ELSE IF \/ \E id \in LegIds(o) : Requested(o, id) > 0 /\ Sized(o, c)[id] <= 0
            \/ SumFunction(Sized(o, c)) <= 0 THEN "BLOCK"
    ELSE IF SumFunction(Sized(o, c)) < SumFunction(RequestedByLeg(o)) THEN "REDUCE"
    ELSE "ALLOW"

\* The amounts of an order that passes the switches are small beside 10^28, so
\* that no rounding reaches the next whole unit.
SmallBeside(o, c) ==
    \A a \in LegIds(o) :
        LET unit == c.legs[a].unit
        IN  /\ 5 * Requested(o, a) * (unit + 2) * (RequestedRisk(o, c) * TradeRisk[2])
                   <= MaxCoefficient
            /\ \A b \in LegIds(o) :
                5 * Requested(o, a) * (unit + c.legs[b].unit + 2) * Requested(o, b)
                    <= MaxCoefficient

ASSUME SizesAssumption ==
    \A o \in Orders, c \in RiskContexts : ~KillSwitch(o, c) => SmallBeside(o, c)

RiskInit ==
    /\ order = NoOrder /\ context = NoContext
    /\ decision = "NONE" /\ approved = [id \in {} |-> 0]

\* evaluate_order_intent; a blocked order has nothing approved.
EvaluateOrder ==
    /\ decision = "NONE"
    /\ order' \in Orders /\ context' \in RiskContexts
    /\ decision' = DecisionOf(order', context')
    /\ approved' = IF decision' = "BLOCK" THEN [id \in LegIds(order') |-> 0]
                   ELSE Sized(order', context')

RiskSpec == RiskInit /\ [][EvaluateOrder]_riskVars

-----------------------------------------------------------------------------

\* What is approved stays within every limit, although the factor was rounded
\* and its least limit is that of another leg or of the account: the risk to
\* the stops, the budget of the order, and the liquidity of each leg.
ApprovedWithinEveryLimit ==
    decision \in {"REDUCE", "ALLOW"} =>
        /\ StopRisk(order, context, approved) <= order.budget
        /\ StopRisk(order, context, approved) * TradeRisk[2] <= context.equity * TradeRisk[1]
        /\ \A id \in LegIds(order) :
            approved[id] <= Min({Requested(order, id), context.legs[id].available})

\* The legs of a hedged order are cut in the proportion they were asked in: no
\* leg is more than one lot ahead of another.  (It may be one: a third of 6 and
\* 27 is 2 and 8, since 0.333... times 6 is rounded up to 2 and times 27 is not.)
LegsKeepTheirRatio ==
    decision \in {"REDUCE", "ALLOW"} =>
        \A a, b \in LegIds(order) :
            approved[a] * Requested(order, b)
                <= (approved[b] + context.legs[b].unit) * Requested(order, a)

=============================================================================
