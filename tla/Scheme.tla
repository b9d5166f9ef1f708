------------------------------- MODULE Scheme -------------------------------
(***************************************************************************)
(* A charging scheme (pricing/scheme.go, device.go, offer.go): what an     *)
(* operator may publish, the packages a customer buys from it, how a       *)
(* purchase is settled against the meter, and the preview the operator     *)
(* sees.                                                                   *)
(***************************************************************************)
EXTENDS Tariff

CONSTANTS
  MinLimit,      \* the least limit an operator may set, in minutes (60)
  MaxKWh         \* the largest energy package (65)

ASSUME SchemeConstants == {MinLimit, MaxKWh} \subseteq Nat \ {0}

NoMode == [mode |-> "none"]
NoPackage == 0

Tiers == Seq([max : Int, electric : Int, service : Int])
Periods == Seq([end : Int, electric : Int, service : Int, tiers : Tiers])
SchemeRecords ==
  [amount : {NoMode} \cup [mode : ServerModes, periods : Periods],
   energy : {NoMode} \cup [electric : Int, service : Int],
   packages : SUBSET [id : Int, mode : {"amount", "duration", "energy"},
                      price : Int, minutes : Int, kwh : Int],
   free : Int, minElectric : Int, limit : Int, card : Int, cardLimit : Int]

SpecFor(scheme, p) ==
  LET amount == p.mode = "amount"
  IN  [mode |-> CASE amount -> scheme.amount.mode
                  [] p.mode = "duration" -> "device_duration"
                  [] p.mode = "energy"   -> "device_energy",
       periods     |-> IF amount THEN scheme.amount.periods ELSE <<>>,
       free        |-> IF amount THEN scheme.free ELSE 0,
       minElectric |-> IF amount THEN scheme.minElectric ELSE 0,
       limit       |-> IF amount THEN scheme.limit ELSE 0]

ValidPackage(scheme, p) ==
  /\ p.price \in 1..MaxRate
  /\ \/ /\ p.mode = "amount"
        /\ scheme.amount # NoMode
        /\ p.minutes = 0 /\ p.kwh = 0 /\ p.price >= scheme.minElectric
     \/ /\ p.mode = "duration"
        /\ p.minutes \in 1..MaxMinutes /\ p.kwh = 0
        /\ p.id = scheme.card => p.minutes <= scheme.cardLimit
     \/ /\ p.mode = "energy"
        /\ scheme.energy # NoMode
        /\ p.kwh \in 1..MaxKWh /\ p.minutes = 0
        /\ p.price = p.kwh * (scheme.energy.electric + scheme.energy.service)

\* Scheme.Validate, which publishing a rule and applying a template call.
ValidScheme(scheme) ==
  LET sells(mode) == \E p \in scheme.packages : p.mode = mode
  IN  /\ scheme.packages # {}
      /\ scheme.limit \in MinLimit..MaxMinutes
      /\ scheme.cardLimit \in MinLimit..MaxMinutes
      /\ scheme.free \in 0..scheme.limit
      /\ InRange(scheme.minElectric)
      /\ scheme.amount # NoMode =>
           /\ scheme.amount.mode \in ServerModes
           /\ ValidSpec([mode |-> scheme.amount.mode,
                         periods |-> scheme.amount.periods,
                         free |-> 0, minElectric |-> 0, limit |-> 0])
           /\ sells("amount")
      /\ scheme.energy # NoMode =>
           /\ InRange(scheme.energy.electric) /\ InRange(scheme.energy.service)
           /\ scheme.energy.electric + scheme.energy.service > 0
           /\ sells("energy")
      /\ \A p, q \in scheme.packages : p.id = q.id => p = q
      /\ \A p \in scheme.packages : ValidPackage(scheme, p)
      /\ scheme.card # NoPackage =>
           \E p \in scheme.packages : p.id = scheme.card /\ p.mode = "duration"

---------------------------------------------------------------------------
(* Settling a purchase of so many copies of a package                      *)

Purchases(scheme) ==
  {q \in [package : scheme.packages, count : 1..scheme.cardLimit] :
     q.count > 1 => /\ q.package.id = scheme.card
                    /\ q.package.minutes * q.count <= scheme.cardLimit}

Price(purchase) == purchase.package.price * purchase.count

\* A package of time returns the part of the price that was not used.
SettleDuration(purchase, m) ==
  LET limit == purchase.package.minutes * purchase.count
      used  == m.used \div Minute
  IN  Priced(0, IF used < limit THEN (Price(purchase) * used) \div limit
                ELSE Price(purchase))

SettleEnergy(scheme, purchase, m) ==
  LET rate   == scheme.energy.electric + scheme.energy.service
      amount == Min({(m.wh * rate) \div KWh, Price(purchase)})
      electric == (amount * scheme.energy.electric) \div rate
  IN  Priced(electric, amount - electric)

SettleUncapped(scheme, purchase, m) ==
  PriceActual(SpecFor(scheme, purchase.package), m)

SettleAmount(scheme, purchase, m) ==
  LET capped(fee, price) ==
        IF fee.verdict = "priced" /\ Total(fee) > price
        THEN SplitFee(fee, price) ELSE fee
  IN  capped(PriceActual(SpecFor(scheme, purchase.package), m), Price(purchase))

SettleSession(scheme, purchase, m) ==
  LET mode == purchase.package.mode
  IN  IF m.doubtful THEN NeedsReview
      ELSE IF ~ValidSpec(SpecFor(scheme, purchase.package)) THEN BadRule
      ELSE IF mode = "duration" THEN SettleDuration(purchase, m)
      ELSE IF mode = "energy" THEN SettleEnergy(scheme, purchase, m)
      ELSE SettleAmount(scheme, purchase, m)

---------------------------------------------------------------------------
(* The preview of a scheme: the stops are simulated at the readings        *)

Prefix(m, t) ==
  LET kept == {s \in m.segments : s.to <= t}
  IN  [m EXCEPT !.segments = kept, !.to = t, !.used = t - m.from,
                !.wh = SumOver(kept, LAMBDA s : s.wh)]

\* The first reading that uses the amount up, if all before it could be priced.
PreviewStop(spec, price, m) ==
  LET fees   == [t \in {s.to : s \in m.segments} |-> PriceActual(spec, Prefix(m, t))]
      ending == {t \in DOMAIN fees :
                   fees[t].verdict # "priced" \/ Total(fees[t]) >= price}
      first  == Min(ending)
  IN  IF ending = {} \/ fees[first].verdict # "priced" THEN m ELSE Prefix(m, first)

PreviewUnlimited(scheme, purchase, m) ==
  SettleSession(scheme, purchase,
    IF purchase.package.mode = "amount"
    THEN PreviewStop(SpecFor(scheme, purchase.package), Price(purchase), m) ELSE m)

Preview(scheme, purchase, m) ==
  LET spec    == SpecFor(scheme, purchase.package)
      limited == IF m.to - m.from >= spec.limit * Minute
                 THEN CutoffMeter(spec, m, m.from + spec.limit * Minute) ELSE m
      stopped(l) == IF l.doubtful THEN l
                    ELSE PreviewStop(spec, Price(purchase), l)
  IN  SettleSession(scheme, purchase,
        IF purchase.package.mode = "amount" THEN stopped(limited) ELSE m)
=============================================================================
