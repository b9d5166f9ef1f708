------------------------------- MODULE Tariff -------------------------------
(***************************************************************************)
(* How central prices a charge (internal/central/pricing): which period    *)
(* and power tier a moment falls under, what a measured charge costs, when *)
(* a prepaid amount is used up, what is left of a meter at a cutoff and    *)
(* what a purchase settles at.  Pure operators; MeteredCharge runs them.   *)
(*                                                                         *)
(* Time is counted in ticks from a midnight in Beijing, Minute ticks to a  *)
(* minute.  The sizes of a day, an hour and a kWh are parameters, so that  *)
(* a model checker meets their boundaries within a few ticks; so is the    *)
(* number of parts of a cent or a minute that a quotient keeps.            *)
(***************************************************************************)
EXTENDS Integers, Sequences, FiniteSets, Functions, FiniteSetsExt, SequencesExt

CONSTANTS
  Minute,        \* ticks in a minute
  DayMinutes,    \* minutes in a day (1440)
  HourMinutes,   \* minutes in an hour (60)
  KWh,           \* watt-hours in a kilowatt-hour (1000)
  Precision,     \* parts of one that a decimal quotient keeps (10^16)
  Slack,         \* ticks the board's count of seconds may exceed the charge by
  MaxRate,       \* maxRateCents
  MaxMinutes,    \* the longest charge that can be sold (4320)
  MaxFree        \* the longest free time ValidateSpec accepts (1440)

ASSUME TariffConstants ==
  /\ {Minute, DayMinutes, HourMinutes, KWh, Precision} \subseteq Nat \ {0}
  /\ {Slack, MaxRate, MaxMinutes, MaxFree} \subseteq Nat

ServerModes == {"realtime", "peak", "energy"}
Unknown == -1                    \* a power nobody measured

Priced(electric, service) ==
  [verdict |-> "priced", electric |-> electric, service |-> service]
NeedsReview == [verdict |-> "review", electric |-> 0, service |-> 0]
BadRule == [verdict |-> "invalid", electric |-> 0, service |-> 0]

Total(fee) == fee.electric + fee.service

---------------------------------------------------------------------------
(* Rules                                                                   *)

InRange(cents) == cents \in 0..MaxRate

\* Periods chain up to midnight without gap or overlap.
ValidPeriods(periods) ==
  /\ periods # <<>>
  /\ \A i \in DOMAIN periods :
       (IF i = 1 THEN 0 ELSE periods[i - 1].end) < periods[i].end
  /\ Last(periods).end = DayMinutes

ValidTiers(mode, period) ==
  /\ InRange(period.electric) /\ InRange(period.service)
  /\ IF mode = "energy" THEN period.tiers = <<>>
     ELSE /\ period.electric = 0
          /\ period.tiers # <<>>
          /\ \A i \in DOMAIN period.tiers :
               /\ (IF i = 1 THEN -1 ELSE period.tiers[i - 1].max)
                    < period.tiers[i].max
               /\ InRange(period.tiers[i].electric)
               /\ InRange(period.tiers[i].service)

ValidSpec(spec) ==
  /\ spec.free <= MaxFree
  /\ InRange(spec.minElectric)
  /\ spec.limit <= MaxMinutes
  /\ spec.mode \in ServerModes =>
       /\ \A i \in DOMAIN spec.periods : ValidTiers(spec.mode, spec.periods[i])
       /\ ValidPeriods(spec.periods)

MinuteOfDay(t) == (t \div Minute) % DayMinutes
PeriodAt(spec, t) == SelectInSeq(spec.periods, LAMBDA p : MinuteOfDay(t) < p.end)
RateAt(spec, t) == spec.periods[PeriodAt(spec, t)]

\* The instant at which the period of t gives way to the next.
Boundary(spec, t) ==
  LET day == Minute * DayMinutes
  IN  (t \div day) * day + RateAt(spec, t).end * Minute

TierFor(period, watts) ==
  LET i == SelectInSeq(period.tiers, LAMBDA tier : watts <= tier.max)
  IN  IF i = 0 THEN Last(period.tiers) ELSE period.tiers[i]

SameRate(p, q) ==
  <<p.electric, p.service, p.tiers>> = <<q.electric, q.service, q.tiers>>

\* No rate changes between two instants; a peak tariff looks at no period.
Uniform(spec, from, to) ==
  spec.mode \in {"energy", "realtime"} =>
    \A t \in from..to : SameRate(RateAt(spec, from), RateAt(spec, t))

---------------------------------------------------------------------------
(* The cost of a measured charge                                           *)

SumOver(S, value(_)) == SumFunctionOnSet([x \in S |-> value(x)], S)

\* The whole number nearest to a quotient that is not negative, a half going up:
\* decimal's Round(0), and its Div of a number counted in parts of Precision.
Rounded(number, unit) == (2 * number + unit) \div (2 * unit)

WholeMinutes(m) == (m.to - m.from) \div Minute
EndOf(m) == m.from + WholeMinutes(m) * Minute

\* usageFromMeter: the samples, one after the other, cover the charge and add up
\* to its reading.
Segments(m) ==
  IF m.segments # {} THEN m.segments
  ELSE {[from |-> m.from, to |-> m.to, wh |-> m.wh, power |-> Unknown, peak |-> 0]}

Usage(m) == [m EXCEPT !.segments = Segments(m)]

Watts(spec, s) == IF spec.mode = "realtime" THEN s.power ELSE s.peak

At(s, t) == s.from <= t /\ t < s.to
Chained(m) ==
  /\ \A s \in m.segments : m.from <= s.from /\ s.to <= m.to
  /\ \A t \in m.from..(m.to - 1) : \E s \in m.segments : At(s, t)
  /\ \A r, s \in m.segments : r.from < s.to /\ s.from < r.to => r = s

WellMeasured(spec, m) ==
  /\ m.from <= m.to /\ m.used <= m.to - m.from + Slack
  /\ Chained(m)
  /\ \A s \in m.segments :
       /\ s.from <= s.to
       /\ s.from = s.to => s.wh = 0
       /\ spec.mode = "realtime" => s.power # Unknown
       /\ spec.mode = "peak" /\ m.wh > 0 => s.peak # 0 \/ s.power # Unknown
  /\ m.wh = SumOver(m.segments, LAMBDA s : s.wh)

SlicesUncut(spec, m) ==
  {[from |-> s.from, to |-> Min({s.to, EndOf(m)}),
    watts |-> Watts(spec, s), period |-> RateAt(spec, s.from)] :
     s \in {r \in m.segments : r.from < EndOf(m)}}

\* The whole minutes of the charge, each sample cut where the period changes.
Cuts(spec, s, end) ==
  {t \in s.from..(Min({s.to, end}) - 1) : t = s.from \/ Boundary(spec, t - 1) = t}

SlicesOf(spec, s, end) ==
  {[from |-> t, to |-> Min({s.to, end, Boundary(spec, t)}),
    watts |-> Watts(spec, s), period |-> RateAt(spec, t)] : t \in Cuts(spec, s, end)}

Slices(spec, m) == UNION {SlicesOf(spec, s, EndOf(m)) : s \in m.segments}

\* What either part of the price, electricity or service, comes to.
EnergyCost(m, spec, part) ==
  Rounded(SumOver(m.segments, LAMBDA s : s.wh * RateAt(spec, s.from)[part]), KWh)

\* What is priced in one piece: a slice by its own power or, under a peak tariff,
\* the slices of one period of one day by the highest power among them.
PieceOf(spec, s) == IF spec.mode = "peak" THEN Boundary(spec, s.from) ELSE s.from

\* The minutes of each slice and the price of each piece by the hour are quotients
\* of their own.
MinutesOf(s) == Rounded((s.to - s.from) * Precision, Minute)

PieceCost(piece, part) ==
  LET period == (CHOOSE s \in piece : TRUE).period
      tier   == TierFor(period, Max({s.watts : s \in piece}))
  IN  Rounded(tier[part] * SumOver(piece, MinutesOf), HourMinutes)

PowerCost(slices, spec, part) ==
  LET piece(k) == {s \in slices : PieceOf(spec, s) = k}
  IN  Rounded(SumOver({PieceOf(spec, s) : s \in slices},
                      LAMBDA k : PieceCost(piece(k), part)), Precision)

Cost(spec, m) ==
  LET cost(part) == IF spec.mode = "energy" THEN EnergyCost(m, spec, part)
                    ELSE PowerCost(Slices(spec, m), spec, part)
      electric == cost("electric")
      lowest   == IF WholeMinutes(m) > 0 THEN spec.minElectric ELSE 0
  IN  IF m.wh = 0 \/ (spec.free > 0 /\ WholeMinutes(m) <= spec.free)
        THEN Priced(0, 0)
      ELSE IF \E s \in m.segments :
                IF spec.mode = "energy" THEN ~Uniform(spec, s.from, s.to - 1)
                ELSE Watts(spec, s) = 0 /\ s.power = Unknown
        THEN NeedsReview
      ELSE Priced(Max({electric, lowest}), cost("service"))

PriceActual(spec, m) ==
  IF m.doubtful THEN NeedsReview
  ELSE IF ~ValidSpec(spec) THEN BadRule
  ELSE IF \/ m.segments = {} /\ ~Uniform(spec, m.from, m.to)
          \/ ~WellMeasured(spec, Usage(m))
    THEN NeedsReview
  ELSE Cost(spec, Usage(m))

---------------------------------------------------------------------------
(* What is known when the evidence has gaps                                *)

\* The least (or greatest) price among some entries of a tariff.
BoundOf(entry, others, upper) ==
  LET prices(f(_)) == {f(entry)} \cup {f(o) : o \in others}
      pick(S) == IF upper THEN Max(S) ELSE Min(S)
  IN  [entry EXCEPT !.electric = pick(prices(LAMBDA e : e.electric)),
                    !.service  = pick(prices(LAMBDA e : e.service))]

\* Energy that cannot be placed may have been drawn in any period; a power that
\* was not seen may be of any tier, a peak that was seen can only be higher.
BoundSpec(spec, upper) ==
  LET tiersFrom(i, j) ==
        IF upper \/ j = 1 THEN Range(spec.periods[i].tiers)
        ELSE IF spec.mode = "realtime" THEN {}
        ELSE {spec.periods[i].tiers[k] : k \in j..Len(spec.periods[i].tiers)}
      bound(i) ==
        IF spec.mode = "energy"
        THEN BoundOf(spec.periods[i], Range(spec.periods), upper)
        ELSE [spec.periods[i] EXCEPT !.tiers =
                [j \in DOMAIN spec.periods[i].tiers |->
                   BoundOf(spec.periods[i].tiers[j], tiersFrom(i, j), upper)]]
  IN  [spec EXCEPT !.periods = [i \in DOMAIN spec.periods |-> bound(i)]]

WithoutGaps(spec, m) ==
  LET fill(s) == IF s.power = Unknown /\ (spec.mode = "realtime" \/ s.peak = 0)
                 THEN [s EXCEPT !.power = 0] ELSE s
  IN  [m EXCEPT !.segments = {fill(s) : s \in m.segments}]

BudgetAsSeen(spec, m, upper) == PriceActual(spec, WithoutGaps(spec, m))

BudgetBound(spec, m, upper) ==
  PriceActual(BoundSpec(spec, upper), WithoutGaps(spec, m))

\* A total shared out as a fee was, with nothing lost to rounding.
SplitFee(fee, total) ==
  LET share == IF Total(fee) <= 0 THEN 0
               ELSE Min({total, (fee.electric * total) \div Total(fee)})
  IN  Priced(share, total - share)

\* BudgetStopAtMeter: stop when even the least possible fee uses up the amount,
\* and fix the fee only if it is the only possible one.
StopAt(price, fee, exact) ==
  [stop  |-> fee.verdict = "priced" /\ Total(fee) >= price,
   exact |-> exact,
   fee   |-> SplitFee(fee, price)]

BudgetStop(spec, price, m) ==
  LET stop(strict, low, high) ==
        IF strict.verdict = "review" /\ ~m.doubtful /\ m.segments # {}
        THEN StopAt(price, low, high = low)
        ELSE StopAt(price, strict, TRUE)
  IN  stop(PriceActual(spec, m),
           BudgetBound(spec, m, FALSE), BudgetBound(spec, m, TRUE))

\* CutoffMeter: the meter as it stood at an earlier instant, in doubt if no
\* reading was taken there.  Its callers turn the error into ReviewRequired.
CutoffMeter(spec, m, at) ==
  LET kept    == {s \in m.segments : s.from < at}
      clip(s) == [s EXCEPT !.to = Min({s.to, at})]
      clean(s) == s.to > at =>
        /\ spec.mode \notin {"energy", "device_energy"}
        /\ s.power # Unknown
        /\ spec.mode = "peak" => s.peak <= s.power
  IN  IF at >= m.to THEN m
      ELSE IF at < m.from THEN [m EXCEPT !.doubtful = TRUE]
      ELSE IF spec.mode = "device_duration"
        THEN [m EXCEPT !.used = Min({m.used, at - m.from}), !.to = at]
      ELSE IF (\E s \in kept : ~clean(s)) \/ (\A s \in kept : s.to < at)
        THEN [m EXCEPT !.doubtful = TRUE]
      ELSE [m EXCEPT !.segments = {clip(s) : s \in kept},
                     !.wh = SumOver(kept, LAMBDA s : s.wh),
                     !.to = at, !.used = at - m.from]
=============================================================================
