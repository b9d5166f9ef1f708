---------------------------- MODULE MeteredCharge ----------------------------
(***************************************************************************)
(* One charge from its first tick to its bill.  The board draws energy and *)
(* reports its meter in heartbeats, some of which are never recorded; the  *)
(* automatic stop judges the charge by what was recorded and freezes the   *)
(* instant up to which it is billed; the charge ends some time later; its  *)
(* meter is then priced, or sent to a reviewer who supplies what it lacks. *)
(***************************************************************************)
EXTENDS Scheme

CONSTANTS
  Schemes,       \* the schemes an operator has written
  Starts,        \* ticks at which a charge may begin
  Powers,        \* powers a heartbeat can read
  MaxTicks,      \* bound: the longest charge
  MaxBeats,      \* bound: heartbeats recorded
  Fresh,         \* ticks for which a heartbeat is news (30 seconds)
  LongGap        \* the longest gap a live fee bridges (180 seconds)

ASSUME MeteredConstants ==
  /\ Schemes \subseteq SchemeRecords
  /\ Starts \subseteq Nat /\ Powers \subseteq Nat
  /\ {MaxTicks, MaxBeats, Fresh, LongGap} \subseteq Nat

VARIABLES
  scheme, purchase,  \* the snapshot taken at purchase: charge_order_pricing
  start,             \* charge_order.started_at
  drawn,             \* watt-hours of each tick, as the board's meter counts
  beats,             \* heartbeats in device_event
  stage,             \* charging, ended, billed, review
  cutoff,            \* charge_billing_cutoff
  evidence,          \* segments of an approved charge_meter_review
  bill               \* the fee, once known

vars == <<scheme, purchase, start, drawn, beats, stage, cutoff, evidence, bill>>
contract == <<scheme, purchase, start>>

NoCutoff == [at |-> -1, reason |-> "none", exact |-> FALSE, fee |-> Priced(0, 0)]
NoBill == Priced(0, 0)

now == start + Len(drawn)
Rule == SpecFor(scheme, purchase.package)
Mode == purchase.package.mode

\* The reading of the board's meter at an instant.
WhAt(t) == SumOver(1..(t - start), LAMBDA i : drawn[i])
BeatAt(t) == CHOOSE b \in beats : b.at = t
Seen(t) == \E b \in beats : b.at = t

Init ==
  /\ scheme \in {s \in Schemes : ValidScheme(s)}
  /\ purchase \in Purchases(scheme)
  /\ start \in Starts
  /\ drawn = <<>>
  /\ beats = {}
  /\ stage = "charging"
  /\ cutoff = NoCutoff
  /\ evidence = {}
  /\ bill = NoBill

---------------------------------------------------------------------------
(* Measuring: heartbeats become segments                                   *)

\* MeasuredSegments: the power read at one heartbeat describes the time to the
\* next if that is at most a minute away; a longer gap has no power.
Segment(a, b) ==
  LET known == Seen(a) /\ b - a <= Minute
      read(t) == IF Seen(t) THEN BeatAt(t).power ELSE 0
  IN  [from |-> a, to |-> b, wh |-> WhAt(b) - WhAt(a),
       power |-> IF known THEN read(a) ELSE Unknown,
       peak  |-> IF known THEN Max({read(a), read(b)}) ELSE 0]

MeasuredSegments(end) ==
  LET read    == {b.at : b \in beats} \cap (start..end)
      points  == {start, end} \cup read
      next(t) == Min({u \in points : t < u})
  IN  IF read \subseteq {start} THEN {}
      ELSE {Segment(t, next(t)) : t \in points \ {end}}

MeterAt(end) ==
  [from |-> start, to |-> end, used |-> end - start, wh |-> WhAt(end),
   segments |-> MeasuredSegments(end), doubtful |-> FALSE]

Unread(s) == s.power = Unknown

\* liveMeterEvidence: what the customer is shown while charging.  A gap at the
\* start takes the first power read, a short one later the power before it.
LiveMeter(end) ==
  LET m     == MeterAt(end)
      first == CHOOSE b \in beats : \A c \in beats : b.at <= c.at
      opening(s) == s.from = start /\ Unread(s) /\ s.to - start <= Fresh
      short(s)   == s.to - s.from <= LongGap
      \* the power before the gap is known, if only by filling the gaps before
      known(s) == \E r \in m.segments :
                    /\ r.to <= s.from
                    /\ ~Unread(r) \/ opening(r)
                    /\ \A q \in m.segments : r.to <= q.from /\ q.to <= s.from => short(q)
      fill(s) ==
        IF opening(s) THEN [s EXCEPT !.power = first.power, !.peak = first.power]
        ELSE IF Unread(s) /\ short(s) /\ known(s)
          THEN LET w == BeatAt(s.from).power
               IN  [s EXCEPT !.power = w, !.peak = Max({w, BeatAt(s.to).power})]
        ELSE s
  IN  [m EXCEPT !.segments = {fill(s) : s \in m.segments}]

LiveFee(b) == SettleSession(scheme, purchase, LiveMeter(b.at))

---------------------------------------------------------------------------
(* The board                                                               *)

Draw ==
  /\ stage = "charging"
  /\ Len(drawn) < MaxTicks
  /\ \E wh \in {0, 1} : drawn' = Append(drawn, wh)
  /\ UNCHANGED <<contract, beats, stage, cutoff, evidence, bill>>

Heartbeat ==
  /\ stage = "charging"
  /\ Cardinality(beats) < MaxBeats
  /\ ~Seen(now)
  /\ \E w \in Powers : beats' = beats \cup {[at |-> now, power |-> w]}
  /\ UNCHANGED <<contract, drawn, stage, cutoff, evidence, bill>>

End ==
  /\ stage = "charging"
  /\ stage' = "ended"
  /\ UNCHANGED <<contract, drawn, beats, cutoff, evidence, bill>>

---------------------------------------------------------------------------
(* The automatic stop                                                      *)

Limit ==
  IF Mode = "amount" THEN Rule.limit * Minute
  ELSE purchase.package.minutes * purchase.count * Minute

Latest == CHOOSE b \in beats : \A c \in beats : c.at <= b.at
News == beats # {} /\ now - Latest.at <= Fresh

\* Since when every heartbeat has read no power.
NoPowerForMinute ==
  /\ News
  /\ \E b \in beats : /\ now - b.at >= Minute
                      /\ \A c \in beats : c.at >= b.at => c.power = 0

Freeze(at, reason, plan) ==
  cutoff' = [at |-> at, reason |-> reason, exact |-> plan.exact, fee |-> plan.fee]
NoPlan == [stop |-> TRUE, exact |-> FALSE, fee |-> Priced(0, 0)]

AutoStop ==
  /\ stage = "charging"
  /\ cutoff = NoCutoff
  /\ \/ /\ Mode \in {"amount", "duration"}
        /\ now >= start + Limit
        /\ Freeze(start + Limit, "limit", NoPlan)
     \/ /\ Mode \in {"amount", "duration"} => now < start + Limit
        /\ NoPowerForMinute
        /\ Freeze(now, "automatic_stop", NoPlan)
     \/ /\ Mode = "amount"
        /\ now < start + Limit
        /\ ~NoPowerForMinute
        /\ News
        /\ \E plan \in {BudgetStop(Rule, Price(purchase), MeterAt(Latest.at))} :
             plan.stop /\ Freeze(Latest.at, "budget_exhausted", plan)
  /\ UNCHANGED <<contract, drawn, beats, stage, evidence, bill>>

---------------------------------------------------------------------------
(* Billing and the review of a meter                                       *)

BilledToTheEnd == now

\* readOriginalBillingSource: up to which instant the charge is billed.
BilledUntil ==
  LET frozen == IF cutoff = NoCutoff THEN now ELSE cutoff.at
  IN  Min({now, frozen} \cup IF Mode = "amount" THEN {start + Limit} ELSE {})

BilledMeter ==
  LET m == CutoffMeter(Rule, MeterAt(now), BilledUntil)
  IN  IF evidence = {} THEN m ELSE [m EXCEPT !.segments = evidence]

FixedFee == cutoff.reason = "budget_exhausted" /\ cutoff.exact

Fee == IF FixedFee THEN cutoff.fee ELSE SettleSession(scheme, purchase, BilledMeter)

Bill ==
  /\ stage = "ended"
  /\ bill' = Fee
  /\ stage' = IF bill'.verdict = "priced" THEN "billed" ELSE "review"
  /\ UNCHANGED <<contract, drawn, beats, cutoff, evidence>>

\* Readings a reviewer may enter for a stretch: the true energy of each tick,
\* at some power.
Readings(m, w) ==
  {[from |-> t, to |-> t + 1, wh |-> drawn[t - start + 1], power |-> w, peak |-> w] :
     t \in m.from..(m.to - 1)}

\* ProposeMeter and ReviewMeter: two people supply the segments; the cutoff
\* stays, and a meter in doubt at its cutoff cannot be mended this way.
ReviewMeter ==
  /\ stage = "review"
  /\ evidence = {}
  /\ ~BilledMeter.doubtful
  /\ Rule.mode \in ServerModes
  /\ \E w \in Powers :
       LET segs == Readings(BilledMeter, w)
       IN  /\ PriceActual(Rule, [BilledMeter EXCEPT !.segments = segs]).verdict
                = "priced"
           /\ evidence' = segs
  /\ stage' = "ended"
  /\ bill' = NoBill
  /\ UNCHANGED <<contract, drawn, beats, cutoff>>

Next == Draw \/ Heartbeat \/ End \/ AutoStop \/ Bill \/ ReviewMeter

Spec == Init /\ [][Next]_vars

---------------------------------------------------------------------------
(* Properties                                                              *)

(* Shape of the state: fees are whole cents with no negative part, heartbeats *)
(* lie within the charge, and only a charge that has ended has a bill.        *)
MeteredTypeOK ==
  /\ stage \in {"charging", "ended", "billed", "review"}
  /\ scheme \in Schemes /\ purchase \in Purchases(scheme) /\ start \in Starts
  /\ drawn \in Seq({0, 1}) /\ Len(drawn) <= MaxTicks
  /\ \A b \in beats : b.at \in start..now /\ b.power \in Powers
  /\ cutoff.reason \in {"none", "limit", "automatic_stop", "budget_exhausted"}
  /\ {bill.electric, bill.service, cutoff.fee.electric, cutoff.fee.service}
       \subseteq Nat
  /\ stage \in {"charging", "ended"} => bill = NoBill

\* Everything that may in truth have happened where a meter has gaps: any power,
\* and energy at any rate it was drawn at.
Completions(m) ==
  LET fill(s, f) == IF Unread(s) THEN [s EXCEPT !.power = f[s], !.peak = f[s]] ELSE s
  IN  IF Rule.mode = "energy" THEN {[m EXCEPT !.segments = Readings(m, 0)]}
      ELSE {[m EXCEPT !.segments = {fill(s, f) : s \in m.segments}] :
              f \in [m.segments -> Powers]}

(* A charge is stopped for its budget only when the amount paid is used up    *)
(* whatever happened in the gaps of the evidence, and a fee fixed at the stop *)
(* is the split every filling of the gaps gives: a decision to stop never     *)
(* invents how much of the amount is electricity (budget_stop.go:5-6, 34-37). *)
BudgetStopCertain ==
  cutoff.reason = "budget_exhausted" =>
    \A m \in Completions(MeterAt(cutoff.at)) :
      LET fee == PriceActual(Rule, m)
      IN  fee.verdict = "priced" =>
            /\ Total(fee) >= Price(purchase)
            /\ cutoff.exact => SplitFee(fee, Price(purchase)) = cutoff.fee

(* A rule that was published is one a charge can be settled by: publishing    *)
(* and billing check the same conditions (spec.go:180).                       *)
ValidRulesSettle == bill.verdict # "invalid"

(* A purchase of a scheme whose free time both checks accept can always be    *)
(* settled: its bill is a fee within what was paid or a matter of review,     *)
(* never refused for its rule (spec.go:180, device.go:98-202).                *)
SettlesWithinPaid ==
  /\ bill.verdict # "invalid"
  /\ Total(bill) <= Price(purchase)

\* Under a peak tariff a higher reading changes what the minutes before it cost:
\* what follows is true only if it never makes them cheaper.
Rising ==
  Rule.mode = "peak" =>
    \A i \in DOMAIN Rule.periods :
      LET tiers == Rule.periods[i].tiers
      IN  \A j, k \in DOMAIN tiers :
            j <= k => /\ tiers[j].electric <= tiers[k].electric
                      /\ tiers[j].service <= tiers[k].service

(* The bill lies between what the customer was shown while charging and what  *)
(* the charge would have cost had it ended at its cutoff: the fee never falls *)
(* below one shown for an instant that is billed, and what happens between    *)
(* the cutoff and the end is not billed if something had been drawn by then   *)
(* (live_meter.go:36-37, scheme_cost.go:123-124).                             *)
BillIsBracketed ==
  stage = "billed" /\ evidence = {} /\ Rising =>
    /\ \A b \in beats : b.at <= BilledUntil => Total(LiveFee(b)) <= Total(bill)
    /\ cutoff # NoCutoff /\ ~FixedFee /\ cutoff.at < now /\ WhAt(cutoff.at) > 0
       => LET fee == SettleSession(scheme, purchase, MeterAt(cutoff.at))
          IN  fee.verdict = "priced" => Total(bill) <= Total(fee)

\* The fee of a meter as a clock that looks at every tick counts it, in exact
\* parts of a cent: HourMinutes * Minute of them to the cent.
ClockFee(m) ==
  LET ticks   == m.from..(EndOf(m) - 1)
      at(t)   == CHOOSE s \in Segments(m) : At(s, t)
      day(t)  == t \div (Minute * DayMinutes)
      \* the same stretch of the same period of one day
      same(t) == {u \in ticks : day(u) = day(t) /\ PeriodAt(Rule, u) = PeriodAt(Rule, t)}
      watts(t) == IF Rule.mode = "peak" THEN Max({at(u).peak : u \in same(t)})
                  ELSE at(t).power
      cost(part) == SumOver(ticks, LAMBDA t : TierFor(RateAt(Rule, t), watts(t))[part])
      lowest == IF ticks = {} THEN 0 ELSE Rule.minElectric * HourMinutes * Minute
  IN  [electric |-> Max({cost("electric"), lowest}), service |-> cost("service")]

\* The meter of the charge so far has minutes that are charged by their power.
ChargedByPower ==
  LET m == MeterAt(now)
  IN  /\ Rule.mode \in {"realtime", "peak"}
      /\ PriceActual(Rule, m).verdict = "priced" /\ m.wh > 0
      /\ ~(Rule.free > 0 /\ WholeMinutes(m) <= Rule.free)

\* Half a cent, and what the quotients of so many slices may lose besides, both in
\* parts of a cent doubled and counted to Precision.
RoundingError(slices) ==
  HourMinutes * Minute * Precision + Minute * slices * (HourMinutes + MaxRate)

(* Cutting samples where the period changes, taking the highest power of each *)
(* period and dividing slice by slice loses and doubles no minute: the fee is *)
(* that of a clock which looks at every tick, to the half cent of its own     *)
(* rounding and what the last digit of two quotients for each slice comes to  *)
(* (scheme_cost.go:65-119).                                                   *)
EveryMinuteCharged ==
  ChargedByPower =>
    LET m     == MeterAt(now)
        fee   == PriceActual(Rule, m)
        error == RoundingError(Cardinality(Slices(Rule, Usage(m))))
        near(cents, exact) ==
          2 * Precision * (HourMinutes * Minute * cents - exact) \in -error..error
    IN  /\ near(fee.electric, ClockFee(m).electric)
        /\ near(fee.service, ClockFee(m).service)

(* A charge is computed as a whole and no fragment of it is rounded           *)
(* (scheme_cost.go:9): its fee is that of the clock, rounded once.            *)
RoundedOnce ==
  ChargedByPower =>
    LET m   == MeterAt(now)
        fee == PriceActual(Rule, m)
        cents(exact) == Rounded(exact, HourMinutes * Minute)
    IN  <<fee.electric, fee.service>> =
          <<cents(ClockFee(m).electric), cents(ClockFee(m).service)>>

(* The preview an operator publishes a scheme by charges what the customer    *)
(* will be billed, if the charge is not cut short and needs no review         *)
(* (scheme.go:177).                                                           *)
PreviewAgrees ==
  stage = "billed" /\ cutoff = NoCutoff /\ evidence = {} /\ Rising =>
    LET fee == Preview(scheme, purchase, MeterAt(now))
    IN  fee.verdict = "priced" => Total(fee) = Total(bill)
=============================================================================
