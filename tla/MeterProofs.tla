----------------------------- MODULE MeterProofs -----------------------------
(***************************************************************************)
(* What a charge costs, for every tariff and every meter.                  *)
(***************************************************************************)
EXTENDS MeteredCharge, SumTheorems

(* A finite set of integers has a least and a greatest member.              *)
LEMMA MinOf ==
  ASSUME NEW S \in SUBSET Int, IsFiniteSet(S), S # {}
  PROVE  Min(S) \in S /\ \A y \in S : Min(S) <= y
<1> DEFINE G == {s \in SUBSET S : s # {} => \E x \in s : \A y \in s : x <= y}
<1>1. {} \in G
  OBVIOUS
<1>2. \A s \in SUBSET S : \A z \in S \ s : s \in G => s \cup {z} \in G
  <2> SUFFICES ASSUME NEW s \in SUBSET S, NEW z \in S \ s, s \in G
               PROVE  \E x \in s \cup {z} : \A y \in s \cup {z} : x <= y
    OBVIOUS
  <2>1. CASE s = {}
    BY <2>1
  <2>2. CASE s # {}
    <3>1. PICK x \in s : \A y \in s : x <= y
      BY <2>2
    <3>2. CASE x <= z
      BY <3>1, <3>2
    <3>3. CASE z <= x
      <4>1. \A y \in s \cup {z} : z <= y
        BY <3>1, <3>3
      <4> QED
        BY <4>1
    <3> QED
      BY <3>2, <3>3
  <2> QED
    BY <2>1, <2>2
<1>3. S \in G
  <2> HIDE DEF G
  <2> QED
    BY <1>1, <1>2, SubsetInduction
<1>4. \E x \in S : \A y \in S : x <= y
  BY <1>3
<1> QED
  BY <1>4 DEF Min

LEMMA MaxOf ==
  ASSUME NEW S \in SUBSET Int, IsFiniteSet(S), S # {}
  PROVE  Max(S) \in S /\ \A y \in S : y <= Max(S)
<1> DEFINE N == {0 - x : x \in S}
           f == [x \in S |-> 0 - x]
<1>1. N \in SUBSET Int /\ N # {}
  <2>1. \A x \in S : 0 - x \in Int
    OBVIOUS
  <2> QED
    BY <2>1
<1>2. f \in Surjection(S, N)
  BY DEF Surjection
<1>3. IsFiniteSet(N)
  BY <1>2, FS_Surjection
<1>4. Min(N) \in N /\ \A y \in N : Min(N) <= y
  BY <1>1, <1>3, MinOf
<1>5. PICK x \in S : Min(N) = 0 - x
  BY <1>4
<1>6. \A y \in S : x >= y
  <2> TAKE y \in S
  <2>1. 0 - y \in N
    OBVIOUS
  <2>2. Min(N) <= 0 - y
    BY <1>4, <2>1
  <2>3. 0 - x <= 0 - y /\ x \in Int /\ y \in Int
    BY <1>5, <2>2
  <2> HIDE DEF N
  <2> QED
    BY <2>3
<1>7. \E z \in S : \A y \in S : z >= y
  BY <1>6
<1> QED
  BY <1>7 DEF Max

\* Of two or three integers.
LEMMA MinOfTwo ==
  ASSUME NEW a \in Int, NEW b \in Int
  PROVE  /\ Min({a, b}) \in {a, b} /\ Min({a, b}) <= a /\ Min({a, b}) <= b
<1>1. IsFiniteSet({a} \cup {b})
  BY FS_Singleton, FS_Union
<1>2. {a} \cup {b} = {a, b}
  OBVIOUS
<1> QED
  BY <1>1, <1>2, MinOf

LEMMA MinOfThree ==
  ASSUME NEW a \in Int, NEW b \in Int, NEW c \in Int
  PROVE  /\ Min({a, b, c}) \in {a, b, c}
         /\ Min({a, b, c}) <= a /\ Min({a, b, c}) <= b /\ Min({a, b, c}) <= c
<1>1. IsFiniteSet({a} \cup {b}) /\ IsFiniteSet({c})
  BY FS_Singleton, FS_Union
<1>2. ({a} \cup {b}) \cup {c} = {a, b, c}
  OBVIOUS
<1> QED
  BY <1>1, <1>2, MinOf, FS_Union, ZenonT(60)

LEMMA MaxOfTwo ==
  ASSUME NEW a \in Int, NEW b \in Int
  PROVE  /\ Max({a, b}) \in {a, b} /\ a <= Max({a, b}) /\ b <= Max({a, b})
<1>1. IsFiniteSet({a} \cup {b})
  BY FS_Singleton, FS_Union
<1>2. {a} \cup {b} = {a, b}
  OBVIOUS
<1> QED
  BY <1>1, <1>2, MaxOf

\* Images of finite sets are finite.
LEMMA ImageFinite ==
  ASSUME NEW S, IsFiniteSet(S), NEW f
  PROVE  IsFiniteSet({f[x] : x \in S})
<1> DEFINE g == [x \in S |-> f[x]]
<1>1. g \in Surjection(S, {f[x] : x \in S})
  BY DEF Surjection
<1> QED
  BY <1>1, FS_Surjection

LEMMA SeqFacts ==
  ASSUME NEW X, NEW s \in Seq(X)
  PROVE  /\ Len(s) \in Nat /\ DOMAIN s = 1..Len(s)
         /\ \A i \in 1..Len(s) : s[i] \in X
         /\ s # <<>> => Len(s) # 0
OBVIOUS

---------------------------------------------------------------------------
(* Time.                                                                    *)

LEMMA Sizes ==
  /\ Minute \in Nat \ {0} /\ DayMinutes \in Nat \ {0}
  /\ HourMinutes \in Nat \ {0} /\ KWh \in Nat \ {0} /\ Precision \in Nat \ {0}
  /\ Slack \in Nat /\ MaxRate \in Nat /\ MaxMinutes \in Nat /\ MaxFree \in Nat
BY TariffConstants

Day == Minute * DayMinutes

LEMMA Divided ==
  ASSUME NEW a \in Int, NEW b \in Nat \ {0}
  PROVE  /\ a \div b \in Int /\ a % b \in 0..(b - 1)
         /\ a = b * (a \div b) + (a % b)
BY SMT

LEMMA Quotient ==
  ASSUME NEW a \in Int, NEW b \in Nat \ {0}, NEW q \in Int, b * q <= a, a < b * q + b
  PROVE  a \div b = q
<1>1. a \div b \in Int /\ a = b * (a \div b) + (a % b) /\ a % b \in 0..(b - 1)
  BY Divided
<1>2. ~ a \div b < q
  <2> SUFFICES ASSUME a \div b <= q - 1 PROVE FALSE
    BY <1>1
  <2>1. b * (a \div b) <= b * (q - 1)
    BY <1>1
  <2>2. b * (q - 1) = b * q - b
    OBVIOUS
  <2> QED
    BY <1>1, <2>1, <2>2
<1>3. ~ a \div b > q
  <2> SUFFICES ASSUME a \div b >= q + 1 PROVE FALSE
    BY <1>1
  <2>1. b * (a \div b) >= b * (q + 1)
    BY <1>1
  <2>2. b * (q + 1) = b * q + b
    OBVIOUS
  <2> QED
    BY <1>1, <2>1, <2>2
<1> QED
  BY <1>1, <1>2, <1>3

LEMMA DayIsPositive == Day \in Nat \ {0}
BY Sizes DEF Day

LEMMA MinuteFacts ==
  ASSUME NEW t \in Int
  PROVE  MinuteOfDay(t) = (t % Day) \div Minute /\ MinuteOfDay(t) \in 0..(DayMinutes - 1)
<1> DEFINE q == t \div Day
           r == t % Day
           k == r \div Minute
<1> USE Sizes
<1>1. q \in Int /\ r \in 0..(Day - 1) /\ t = Day * q + r
  BY Divided, DayIsPositive
<1>2. k \in Int /\ Minute * k <= r /\ r < Minute * k + Minute
  BY <1>1, Divided, DayIsPositive
<1> HIDE DEF q, r, k
<1>3. k \in 0..(DayMinutes - 1)
  <2>1. ~ k < 0
    <3> SUFFICES ASSUME k + 1 <= 0 PROVE FALSE
      BY <1>2
    <3>1. Minute * (k + 1) <= 0 /\ Minute * (k + 1) = Minute * k + Minute
      BY <1>2
    <3> QED
      BY <1>1, <1>2, <3>1
  <2>2. ~ k >= DayMinutes
    <3> SUFFICES ASSUME k >= DayMinutes PROVE FALSE
      OBVIOUS
    <3>1. Minute * k >= Day
      BY <1>2 DEF Day
    <3> QED
      BY <1>1, <1>2, <3>1, DayIsPositive
  <2> QED
    BY <1>2, <2>1, <2>2
<1>4. t \div Minute = DayMinutes * q + k
  <2>1. Minute * (DayMinutes * q + k) = Day * q + Minute * k
    BY <1>1, <1>2 DEF Day
  <2>2. DayMinutes * q + k \in Int /\ Day * q \in Int /\ Minute * k \in Int
    BY <1>1, <1>2, DayIsPositive
  <2>3. Minute * (DayMinutes * q + k) <= t /\ t < Minute * (DayMinutes * q + k) + Minute
    BY <1>1, <1>2, <2>1, <2>2, DayIsPositive
  <2> QED
    BY <2>2, <2>3, Quotient
<1>5. (DayMinutes * q + k) % DayMinutes = k
  <2> DEFINE a == DayMinutes * q + k
  <2>1. a \in Int /\ DayMinutes * q <= a /\ a < DayMinutes * q + DayMinutes
    BY <1>1, <1>3
  <2>2. a \div DayMinutes = q
    BY <1>1, <2>1, Quotient
  <2> HIDE DEF a
  <2>3. /\ a = DayMinutes * (a \div DayMinutes) + (a % DayMinutes)
        /\ a % DayMinutes \in 0..(DayMinutes - 1)
    BY <2>1, Divided
  <2> QED
    BY <1>1, <1>3, <2>2, <2>3 DEF a
<1> QED
  BY <1>3, <1>4, <1>5 DEF MinuteOfDay, k, r

\* An instant is before a minute of its day as the day has fewer ticks.
LEMMA MinuteBefore ==
  ASSUME NEW t \in Int, NEW e \in Int
  PROVE  MinuteOfDay(t) < e <=> t % Day < e * Minute
<1> DEFINE r == t % Day
           k == r \div Minute
<1> USE Sizes
<1>1. r \in Int
  BY Divided, DayIsPositive
<1>2. k \in Int /\ Minute * k <= r /\ r < Minute * k + Minute
  <2> HIDE DEF r
  <2>1. k \in Int /\ r % Minute \in 0..(Minute - 1) /\ r = Minute * k + (r % Minute)
    BY <1>1, Divided
  <2>2. Minute * k \in Int
    BY <2>1
  <2> HIDE DEF k
  <2> QED
    BY <1>1, <2>1, <2>2
<1>3. MinuteOfDay(t) = k
  BY MinuteFacts
<1> HIDE DEF r, k
<1>4. ASSUME k < e PROVE r < e * Minute
  <2>1. k + 1 <= e
    BY <1>2, <1>4
  <2>2. Minute * (k + 1) <= e * Minute /\ Minute * (k + 1) = Minute * k + Minute
    BY <1>2, <2>1
  <2> QED
    BY <1>1, <1>2, <2>2
<1>5. ASSUME e <= k PROVE e * Minute <= r
  <2>1. e * Minute <= Minute * k
    BY <1>2, <1>5
  <2> QED
    BY <1>1, <1>2, <2>1
<1> QED
  BY <1>1, <1>2, <1>3, <1>4, <1>5 DEF r

---------------------------------------------------------------------------
(* Tariffs that are priced by the server.                                   *)

\* A tariff that may fail its validation, and one that passes it.
Written(spec) ==
  /\ spec.periods \in Periods
  /\ {spec.free, spec.minElectric, spec.limit} \subseteq Int
  /\ spec.mode \in ServerModes

Priceable(spec) ==
  /\ spec.periods \in Periods
  /\ {spec.free, spec.minElectric, spec.limit} \subseteq Int
  /\ spec.mode \in ServerModes
  /\ ValidSpec(spec)

\* The last of a rising row is its greatest.
LEMMA LastIsGreatest ==
  ASSUME NEW n \in Nat \ {0}, NEW e \in [1..n -> Int],
         \A i \in 1..n : i # 1 => e[i - 1] < e[i]
  PROVE  \A i \in 1..n : e[i] <= e[n]
<1> DEFINE late == {i \in 1..n : e[i] > e[n]}
<1>1. late = {}
  <2> SUFFICES ASSUME late # {} PROVE FALSE
    OBVIOUS
  <2>1. IsFiniteSet(late) /\ late \in SUBSET Int
    BY FS_Interval, FS_Subset
  <2>2. PICK i \in late : \A j \in late : j <= i
    BY <2>1, MaxOf
  <2>3. i \in 1..n /\ e[i] > e[n]
    OBVIOUS
  <2>4. i # n
    BY <2>3
  <2>5. i + 1 \in 1..n /\ (i + 1) - 1 = i /\ i + 1 # 1
    BY <2>3, <2>4
  <2>6. e[i] < e[i + 1]
    BY <2>5
  <2>7. i + 1 \in late
    BY <2>3, <2>5, <2>6
  <2> QED
    BY <2>2, <2>3, <2>7
<1> SUFFICES ASSUME NEW i \in 1..n PROVE e[i] <= e[n]
  OBVIOUS
<1>2. e[i] \in Int /\ e[n] \in Int /\ i \notin late
  BY <1>1, SMTT(60)
<1> QED
  BY <1>2

\* Periods end within the day, and the last ends it.
LEMMA EndsWithinDay ==
  ASSUME NEW spec, Priceable(spec)
  PROVE  /\ Len(spec.periods) \in Nat \ {0} /\ DOMAIN spec.periods = 1..Len(spec.periods)
         /\ spec.periods[Len(spec.periods)].end = DayMinutes
         /\ \A i \in DOMAIN spec.periods :
              spec.periods[i].end \in Int /\ spec.periods[i].end <= DayMinutes
<1> DEFINE periods == spec.periods
           n == Len(periods)
           e == [i \in 1..n |-> periods[i].end]
<1>1. periods \in Periods /\ periods # <<>> /\ ValidPeriods(periods)
  BY DEF Priceable, ValidSpec, ValidPeriods
<1>2. /\ n \in Nat \ {0} /\ DOMAIN periods = 1..n
      /\ \A i \in 1..n : periods[i].end \in Int
  <2> DEFINE Period == [end : Int, electric : Int, service : Int, tiers : Tiers]
  <2>1. periods \in Seq(Period) /\ periods # <<>>
    BY <1>1 DEF Periods
  <2>2. \A p \in Period : p.end \in Int
    OBVIOUS
  <2> HIDE DEF Period, periods
  <2> QED
    BY <2>1, <2>2
<1>3. periods[n].end = DayMinutes
  BY <1>1 DEF ValidPeriods, Last
<1>4. \A i \in 1..n : i # 1 => periods[i - 1].end < periods[i].end
  BY <1>1, <1>2 DEF ValidPeriods
<1> HIDE DEF periods, n
<1>5. e \in [1..n -> Int]
  BY <1>2
<1>6. \A i \in 1..n : i # 1 => e[i - 1] < e[i]
  <2> TAKE i \in 1..n
  <2>1. i # 1 => i - 1 \in 1..n
    BY <1>2
  <2> QED
    BY <1>4, <2>1
<1>7. e[n] = DayMinutes /\ \A i \in 1..n : e[i] = periods[i].end
  BY <1>2, <1>3
<1> HIDE DEF e
<1>8. \A i \in 1..n : e[i] <= e[n]
  BY <1>2, <1>5, <1>6, LastIsGreatest
<1> QED
  BY <1>2, <1>3, <1>7, <1>8 DEF periods, n

\* The period of an instant is the first that ends after it.
LEMMA PeriodFacts ==
  ASSUME NEW spec, Priceable(spec), NEW t \in Int
  PROVE  /\ PeriodAt(spec, t) \in 1..Len(spec.periods)
         /\ RateAt(spec, t) = spec.periods[PeriodAt(spec, t)]
         /\ RateAt(spec, t).end \in Int /\ RateAt(spec, t).end <= DayMinutes
         /\ MinuteOfDay(t) < RateAt(spec, t).end
         /\ \A i \in 1..Len(spec.periods) :
              MinuteOfDay(t) < spec.periods[i].end => PeriodAt(spec, t) <= i
<1> DEFINE I == {i \in 1..Len(spec.periods) : MinuteOfDay(t) < spec.periods[i].end}
<1>1. Len(spec.periods) \in I
  <2>1. /\ Len(spec.periods) \in 1..Len(spec.periods)
        /\ spec.periods[Len(spec.periods)].end = DayMinutes
    BY EndsWithinDay
  <2>2. MinuteOfDay(t) < DayMinutes
    BY MinuteFacts, Sizes
  <2> QED
    BY <2>1, <2>2
<1>2. IsFiniteSet(I) /\ I \in SUBSET Int
  <2>1. IsFiniteSet(1..Len(spec.periods))
    BY EndsWithinDay, FS_Interval
  <2> QED
    BY <2>1, FS_Subset
<1>3. PeriodAt(spec, t) = Min(I)
  BY <1>1 DEF PeriodAt, SelectInSeq
<1>4. Min(I) \in I /\ \A i \in I : Min(I) <= i
  BY <1>1, <1>2, MinOf
<1> QED
  BY <1>3, <1>4, EndsWithinDay DEF RateAt

\* From an instant to the next change of the period the day and the period stay.
LEMMA BoundaryFacts ==
  ASSUME NEW spec, Priceable(spec), NEW t \in Int
  PROVE  /\ Boundary(spec, t) \in Int /\ t < Boundary(spec, t)
         /\ \A u \in t..(Boundary(spec, t) - 1) :
              /\ u \div Day = t \div Day
              /\ PeriodAt(spec, u) = PeriodAt(spec, t)
              /\ RateAt(spec, u) = RateAt(spec, t)
              /\ Boundary(spec, u) = Boundary(spec, t)
<1> DEFINE q == t \div Day
           r == t % Day
           e == RateAt(spec, t).end
<1> USE Sizes, DayIsPositive
<1>1. q \in Int /\ r \in 0..(Day - 1) /\ t = Day * q + r
  BY Divided
<1>2. e \in Int /\ e <= DayMinutes /\ MinuteOfDay(t) < e
  BY PeriodFacts
<1>3. r < e * Minute /\ e * Minute \in Int
  <2>1. e * Minute \in Int
    BY <1>2 DEF e
  <2>2. r < e * Minute
    BY <1>2, MinuteBefore
  <2> QED
    BY <2>1, <2>2
<1>4. e * Minute <= Day
  BY <1>2 DEF Day
<1>5. Boundary(spec, t) = q * Day + e * Minute
  BY DEF Boundary, Day
<1> HIDE DEF q, r, e
<1>6. Day * q = q * Day /\ q * Day \in Int
  BY <1>1
<1>7. Boundary(spec, t) \in Int /\ t < Boundary(spec, t)
  BY <1>1, <1>3, <1>5, <1>6
<1>8. ASSUME NEW u \in t..(Boundary(spec, t) - 1)
      PROVE  u \div Day = q /\ PeriodAt(spec, u) = PeriodAt(spec, t)
  <2>1. u \in Int /\ t <= u /\ u < Boundary(spec, t)
    BY <1>7
  <2>2. Day * q <= u /\ u < Day * q + Day
    BY <1>1, <1>3, <1>4, <1>5, <1>6, <2>1
  <2>3. u \div Day = q
    BY <1>1, <2>1, <2>2, Quotient
  <2> DEFINE v == u % Day
  <2>4. v \in 0..(Day - 1) /\ u = Day * q + v
    BY <2>1, <2>3, Divided
  <2>5. r <= v /\ v < e * Minute
    BY <1>1, <1>3, <1>5, <1>6, <2>1, <2>4
  <2>6. MinuteOfDay(u) < e
    BY <1>2, <2>1, <2>5, MinuteBefore
  <2>7. /\ PeriodAt(spec, t) \in 1..Len(spec.periods)
        /\ e = spec.periods[PeriodAt(spec, t)].end
    BY PeriodFacts DEF e
  <2>8. PeriodAt(spec, u) <= PeriodAt(spec, t)
    BY <2>1, <2>6, <2>7, PeriodFacts
  <2>9. /\ PeriodAt(spec, u) \in 1..Len(spec.periods)
        /\ RateAt(spec, u) = spec.periods[PeriodAt(spec, u)]
        /\ RateAt(spec, u).end \in Int /\ MinuteOfDay(u) < RateAt(spec, u).end
    BY <2>1, PeriodFacts
  <2> DEFINE f == RateAt(spec, u).end
  <2>10. v < f * Minute /\ f * Minute \in Int
    <3>1. f \in Int /\ MinuteOfDay(u) < f
      BY <2>9
    <3>2. v < f * Minute
      BY <2>1, <3>1, MinuteBefore
    <3> HIDE DEF f
    <3> QED
      BY <3>1, <3>2
  <2>11. r < f * Minute
    BY <1>1, <2>4, <2>5, <2>10
  <2>12. MinuteOfDay(t) < f
    BY <2>9, <2>11, MinuteBefore DEF r
  <2>13. PeriodAt(spec, t) <= PeriodAt(spec, u)
    BY <2>9, <2>12, PeriodFacts
  <2>14. PeriodAt(spec, t) \in Int /\ PeriodAt(spec, u) \in Int
    BY <2>7, <2>9, EndsWithinDay
  <2> QED
    BY <2>3, <2>8, <2>13, <2>14
<1>9. \A u \in t..(Boundary(spec, t) - 1) :
         RateAt(spec, u) = RateAt(spec, t) /\ Boundary(spec, u) = Boundary(spec, t)
  BY <1>8 DEF RateAt, Boundary, Day, q
<1> QED
  BY <1>7, <1>8, <1>9 DEF q

\* Two instants have the same next change just if they are in the same period
\* of the same day.
LEMMA SamePeriod ==
  ASSUME NEW spec, Priceable(spec), NEW t \in Int, NEW u \in Int
  PROVE  Boundary(spec, u) = Boundary(spec, t)
           <=> u \div Day = t \div Day /\ PeriodAt(spec, u) = PeriodAt(spec, t)
<1>1. ASSUME u \div Day = t \div Day, PeriodAt(spec, u) = PeriodAt(spec, t)
      PROVE  Boundary(spec, u) = Boundary(spec, t)
  BY <1>1 DEF Boundary, RateAt, Day
<1>2. ASSUME NEW x \in Int, NEW y \in Int, x <= y, Boundary(spec, x) = Boundary(spec, y)
      PROVE  y \div Day = x \div Day /\ PeriodAt(spec, y) = PeriodAt(spec, x)
  <2>1. Boundary(spec, x) \in Int /\ y < Boundary(spec, x)
    BY <1>2, BoundaryFacts
  <2>2. y \in x..(Boundary(spec, x) - 1)
    BY <1>2, <2>1
  <2> QED
    BY <2>2, BoundaryFacts
<1>3. t <= u \/ u <= t
  OBVIOUS
<1> QED
  BY <1>1, <1>2, <1>3

---------------------------------------------------------------------------
(* Meters and what they cost.                                               *)

Samples == [from : Int, to : Int, wh : Nat, power : Int, peak : Int]
Meters ==
  {m \in [from : Int, to : Int, used : Nat, wh : Nat, segments : SUBSET Samples,
          doubtful : BOOLEAN] : IsFiniteSet(m.segments)}

Parts == {"electric", "service"}
ByPower == {"realtime", "peak"}

\* A tier of a valid tariff, by whatever power it is chosen.
LEMMA TierFacts ==
  ASSUME NEW spec, Priceable(spec), spec.mode \in ByPower,
         NEW i \in 1..Len(spec.periods), NEW w
  PROVE  LET tiers == spec.periods[i].tiers
         IN  /\ Len(tiers) \in Nat \ {0} /\ DOMAIN tiers = 1..Len(tiers)
             /\ \A j \in 1..Len(tiers) :
                  /\ tiers[j].electric \in 0..MaxRate /\ tiers[j].service \in 0..MaxRate
                  /\ tiers[j].max \in Int
             /\ \E j \in 1..Len(tiers) : TierFor(spec.periods[i], w) = tiers[j]
<1> DEFINE tiers == spec.periods[i].tiers
           n == Len(tiers)
<1>1. /\ tiers \in Tiers /\ tiers # <<>>
      /\ \A j \in DOMAIN tiers : InRange(tiers[j].electric) /\ InRange(tiers[j].service)
  <2>1. i \in DOMAIN spec.periods
    BY EndsWithinDay
  <2>2. ValidTiers(spec.mode, spec.periods[i]) /\ spec.mode # "energy"
    BY <2>1 DEF Priceable, ValidSpec, ByPower, ServerModes
  <2>3. tiers \in Tiers
    <3> DEFINE Period == [end : Int, electric : Int, service : Int, tiers : Tiers]
    <3>1. spec.periods \in Seq(Period)
      BY DEF Priceable, Periods
    <3>2. \A p \in Period : p.tiers \in Tiers
      OBVIOUS
    <3> HIDE DEF Period
    <3>3. spec.periods[i] \in Period
      BY <2>1, <3>1
    <3> QED
      BY <3>2, <3>3
  <2> QED
    BY <2>2, <2>3 DEF ValidTiers
<1> DEFINE Tier == [max : Int, electric : Int, service : Int]
<1>2. \A x \in Tier : x.max \in Int
  OBVIOUS
<1> HIDE DEF tiers
<1>3. /\ n \in Nat \ {0} /\ DOMAIN tiers = 1..n
      /\ \A j \in 1..n : tiers[j] \in Tier
  <2> HIDE DEF Tier
  <2>1. tiers \in Seq(Tier)
    BY <1>1 DEF Tiers, Tier
  <2> QED
    BY <1>1, <2>1, SeqFacts
<1>4. \A j \in 1..n : tiers[j].max \in Int
  BY <1>2, <1>3
<1>5. \A j \in 1..n : tiers[j].electric \in 0..MaxRate /\ tiers[j].service \in 0..MaxRate
  BY <1>1, <1>3 DEF InRange
<1>6. \E j \in 1..n : TierFor(spec.periods[i], w) = tiers[j]
  <2> DEFINE I == {j \in 1..n : w <= tiers[j].max}
             k == SelectInSeq(tiers, LAMBDA tier : w <= tier.max)
  <2>1. k = IF I # {} THEN Min(I) ELSE 0
    BY DEF SelectInSeq
  <2>2. TierFor(spec.periods[i], w) = IF k = 0 THEN tiers[n] ELSE tiers[k]
    BY DEF TierFor, Last, tiers
  <2>3. CASE I = {}
    <3>1. k = 0 /\ n \in 1..n
      BY <1>3, <2>1, <2>3
    <3> QED
      BY <2>2, <3>1
  <2>4. CASE I # {}
    <3>1. IsFiniteSet(I) /\ I \in SUBSET Int
      <4>1. IsFiniteSet(1..n)
        BY <1>3, FS_Interval
      <4> QED
        BY <1>3, <4>1, FS_Subset
    <3>2. Min(I) \in I
      BY <2>4, <3>1, MinOf
    <3>3. k \in 1..n /\ k # 0
      BY <1>3, <2>1, <2>4, <3>2
    <3> QED
      BY <2>2, <3>3
  <2> QED
    BY <2>3, <2>4
<1> QED
  BY <1>3, <1>4, <1>5, <1>6 DEF tiers

LEMMA TierPrice ==
  ASSUME NEW spec, Priceable(spec), spec.mode \in ByPower,
         NEW t \in Int, NEW w, NEW part \in Parts
  PROVE  TierFor(RateAt(spec, t), w)[part] \in Nat
         /\ TierFor(RateAt(spec, t), w)[part] <= MaxRate
<1> DEFINE i == PeriodAt(spec, t)
           tiers == spec.periods[i].tiers
<1>1. i \in 1..Len(spec.periods) /\ RateAt(spec, t) = spec.periods[i]
  BY PeriodFacts
<1> HIDE DEF i
<1>2. PICK j \in 1..Len(tiers) : TierFor(spec.periods[i], w) = tiers[j]
  BY <1>1, TierFacts, ZenonT(60)
<1>3. tiers[j].electric \in 0..MaxRate /\ tiers[j].service \in 0..MaxRate
  BY <1>1, TierFacts
<1>4. /\ tiers[j].electric \in Nat /\ tiers[j].electric <= MaxRate
      /\ tiers[j].service \in Nat /\ tiers[j].service <= MaxRate
  <2>1. \A x \in 0..MaxRate : x \in Nat /\ x <= MaxRate
    BY Sizes
  <2> HIDE DEF tiers
  <2> QED
    BY <1>3, <2>1
<1> QED
  BY <1>1, <1>2, <1>4 DEF Parts

\* A tariff by energy has one price a period.
LEMMA EnergyPrice ==
  ASSUME NEW spec, Priceable(spec), spec.mode = "energy",
         NEW i \in 1..Len(spec.periods), NEW part \in Parts
  PROVE  spec.periods[i][part] \in Nat
<1>1. i \in DOMAIN spec.periods
  BY EndsWithinDay
<1>2. ValidTiers(spec.mode, spec.periods[i])
  BY <1>1 DEF Priceable, ValidSpec, ServerModes
<1>3. spec.periods[i].electric \in Nat /\ spec.periods[i].service \in Nat
  BY <1>2, Sizes DEF ValidTiers, InRange
<1> QED
  BY <1>3 DEF Parts

LEMMA MeterFacts ==
  ASSUME NEW m \in Meters
  PROVE  /\ m.from \in Int /\ m.to \in Int /\ m.used \in Nat /\ m.wh \in Nat
         /\ IsFiniteSet(m.segments)
         /\ \A s \in m.segments : /\ s \in Samples
                                  /\ s.from \in Int /\ s.to \in Int /\ s.wh \in Nat
                                  /\ s.power \in Int /\ s.peak \in Int
         /\ WholeMinutes(m) \in Int /\ EndOf(m) \in Int
<1>1. /\ m.from \in Int /\ m.to \in Int /\ m.used \in Nat /\ m.wh \in Nat
      /\ m.segments \in SUBSET Samples /\ IsFiniteSet(m.segments)
  BY DEF Meters
<1>2. \A s \in Samples : /\ s.from \in Int /\ s.to \in Int /\ s.wh \in Nat
                         /\ s.power \in Int /\ s.peak \in Int
  BY DEF Samples
<1>3. WholeMinutes(m) \in Int
  <2> DEFINE d == m.to - m.from
  <2>1. d \in Int /\ WholeMinutes(m) = d \div Minute
    BY <1>1 DEF WholeMinutes
  <2> HIDE DEF d
  <2>2. d \div Minute \in Int
    BY <2>1, Divided, Sizes
  <2> QED
    BY <2>1, <2>2
<1>4. EndOf(m) \in Int
  BY <1>1, <1>3, Sizes DEF EndOf
<1> QED
  BY <1>1, <1>2, <1>3, <1>4

\* A slice lies within its sample and the period of its first instant.
LEMMA SliceOfFacts ==
  ASSUME NEW spec, Priceable(spec), NEW s \in Samples, NEW end \in Int
  PROVE  /\ IsFiniteSet(SlicesOf(spec, s, end))
         /\ \A x \in SlicesOf(spec, s, end) :
              /\ x.from \in Cuts(spec, s, end)
              /\ x.from \in Int /\ x.to \in Int /\ x.from < x.to
              /\ x.to <= s.to /\ x.to <= end /\ x.to <= Boundary(spec, x.from)
              /\ x.to = Min({s.to, end, Boundary(spec, x.from)})
              /\ x.watts = Watts(spec, s)
              /\ x.period = RateAt(spec, x.from)
<1> DEFINE f == [t \in Cuts(spec, s, end) |->
                   [from |-> t, to |-> Min({s.to, end, Boundary(spec, t)}),
                    watts |-> Watts(spec, s), period |-> RateAt(spec, t)]]
<1>1. s.from \in Int /\ s.to \in Int
  BY DEF Samples
<1>2. Min({s.to, end}) \in Int
  BY <1>1, MinOfTwo
<1>3. Cuts(spec, s, end) \subseteq Int /\ IsFiniteSet(Cuts(spec, s, end))
  <2>1. IsFiniteSet(s.from..(Min({s.to, end}) - 1))
    BY <1>1, <1>2, FS_Interval
  <2>2. Cuts(spec, s, end) \in SUBSET (s.from..(Min({s.to, end}) - 1))
    BY DEF Cuts
  <2>3. \A t \in s.from..(Min({s.to, end}) - 1) : t \in Int
    BY <1>1, <1>2
  <2> QED
    BY <2>1, <2>2, <2>3, FS_Subset
<1>4. SlicesOf(spec, s, end) = {f[t] : t \in Cuts(spec, s, end)}
  BY DEF SlicesOf
<1>5. IsFiniteSet(SlicesOf(spec, s, end))
  <2> HIDE DEF f
  <2> QED
    BY <1>3, <1>4, ImageFinite
<1>6. \A t \in Cuts(spec, s, end) :
        LET to == Min({s.to, end, Boundary(spec, t)})
        IN  to \in Int /\ t < to /\ to <= s.to /\ to <= end /\ to <= Boundary(spec, t)
  <2> TAKE t \in Cuts(spec, s, end)
  <2>1. Boundary(spec, t) \in Int /\ t \in Int /\ t < Boundary(spec, t)
    BY <1>3, BoundaryFacts
  <2>3. t < s.to /\ t < end
    <3>1. t \in s.from..(Min({s.to, end}) - 1)
      BY DEF Cuts
    <3>2. Min({s.to, end}) <= s.to /\ Min({s.to, end}) <= end
      BY <1>1, MinOfTwo
    <3>3. t < Min({s.to, end})
      BY <1>1, <1>2, <2>1, <3>1
    <3> QED
      BY <1>1, <1>2, <2>1, <3>2, <3>3
  <2> DEFINE b == Boundary(spec, t)
             to == Min({s.to, end, b})
  <2> HIDE DEF b
  <2>2. to \in {s.to, end, b} /\ to <= s.to /\ to <= end /\ to <= b
    BY <1>1, <2>1, MinOfThree DEF b
  <2> QED
    BY <1>1, <2>1, <2>2, <2>3 DEF b
<1>7. ASSUME NEW x \in SlicesOf(spec, s, end)
      PROVE  /\ x.from \in Cuts(spec, s, end)
             /\ x.from \in Int /\ x.to \in Int /\ x.from < x.to
             /\ x.to <= s.to /\ x.to <= end /\ x.to <= Boundary(spec, x.from)
             /\ x.to = Min({s.to, end, Boundary(spec, x.from)})
             /\ x.watts = Watts(spec, s)
             /\ x.period = RateAt(spec, x.from)
  <2>1. PICK t \in Cuts(spec, s, end) :
          x = [from |-> t, to |-> Min({s.to, end, Boundary(spec, t)}),
               watts |-> Watts(spec, s), period |-> RateAt(spec, t)]
    BY DEF SlicesOf
  <2>2. /\ x.from = t /\ x.to = Min({s.to, end, Boundary(spec, t)})
        /\ x.watts = Watts(spec, s) /\ x.period = RateAt(spec, t)
    BY <2>1
  <2> QED
    BY <1>3, <1>6, <2>2
<1> QED
  BY <1>5, <1>7

LEMMA SliceFacts ==
  ASSUME NEW spec, Priceable(spec), NEW m \in Meters
  PROVE  /\ IsFiniteSet(Slices(spec, m))
         /\ \A x \in Slices(spec, m) :
              /\ x.from \in Int /\ x.to \in Int /\ x.from < x.to
              /\ x.watts \in Int /\ x.period = RateAt(spec, x.from)
<1> DEFINE of == [s \in m.segments |-> SlicesOf(spec, s, EndOf(m))]
<1>1. EndOf(m) \in Int /\ IsFiniteSet(m.segments) /\ m.segments \subseteq Samples
  BY MeterFacts
<1>2. IsFiniteSet({of[s] : s \in m.segments})
  <2> HIDE DEF of
  <2> QED
    BY <1>1, ImageFinite
<1>3. \A T \in {of[s] : s \in m.segments} : IsFiniteSet(T)
  BY <1>1, SliceOfFacts, ZenonT(60)
<1>4. Slices(spec, m) = UNION {of[s] : s \in m.segments}
  BY DEF Slices
<1>5. IsFiniteSet(Slices(spec, m))
  <2> HIDE DEF of
  <2> QED
    BY <1>2, <1>3, <1>4, FS_UNION
<1>6. \A x \in Slices(spec, m) :
        /\ x.from \in Int /\ x.to \in Int /\ x.from < x.to
        /\ x.watts \in Int /\ x.period = RateAt(spec, x.from)
  <2> TAKE x \in Slices(spec, m)
  <2>1. PICK s \in m.segments : x \in SlicesOf(spec, s, EndOf(m))
    BY DEF Slices
  <2>2. Watts(spec, s) \in Int
    BY MeterFacts DEF Watts
  <2> QED
    BY <1>1, <2>1, <2>2, SliceOfFacts, ZenonT(60)
<1> QED
  BY <1>5, <1>6

\* The quotient of numbers that are not negative is not negative.
LEMMA QuotientNat ==
  ASSUME NEW a \in Nat, NEW b \in Nat \ {0}
  PROVE  a \div b \in Nat
<1> DEFINE x == a \div b
<1>1. x \in Int /\ a = b * x + (a % b) /\ a % b \in 0..(b - 1)
  BY Divided
<1> HIDE DEF x
<1>2. ~ x < 0
  <2> SUFFICES ASSUME x + 1 <= 0 PROVE FALSE
    BY <1>1
  <2>1. b * (x + 1) <= 0 /\ b * (x + 1) = b * x + b
    BY <1>1
  <2>2. b * x \in Int
    BY <1>1
  <2> QED
    BY <1>1, <2>1, <2>2
<1> QED
  BY <1>1, <1>2 DEF x

\* A nearest whole number is half a unit away at most.
LEMMA RoundedNear ==
  ASSUME NEW a \in Nat, NEW b \in Nat \ {0}
  PROVE  /\ Rounded(a, b) \in Nat
         /\ (2 * b) * Rounded(a, b) - 2 * a \in (-b)..b
<1> DEFINE c == 2 * a + b
           d == 2 * b
           q == c \div d
<1>1. c \in Nat /\ d \in Nat \ {0}
  OBVIOUS
<1>2. q \in Nat
  <2> HIDE DEF c, d
  <2> QED
    BY <1>1, QuotientNat
<1>3. c = d * q + (c % d) /\ c % d \in 0..(d - 1)
  <2> HIDE DEF c, d
  <2> QED
    BY <1>1, Divided
<1>4. Rounded(a, b) = q
  BY DEF Rounded
<1> DEFINE e == d * q
           r == c % d
<1>5. e \in Int /\ c = e + r /\ r \in 0..(d - 1)
  <2> HIDE DEF c, d, q
  <2> QED
    BY <1>1, <1>2, <1>3
<1> HIDE DEF e, r, q
<1>6. e - 2 * a \in (-b)..b
  BY <1>5
<1> QED
  BY <1>2, <1>4, <1>6 DEF e

LEMMA RoundedNat ==
  ASSUME NEW a \in Nat, NEW b \in Nat \ {0}
  PROVE  Rounded(a, b) \in Nat
BY RoundedNear

---------------------------------------------------------------------------
(* The pieces a charge is priced in.                                        *)

Piece(spec, S, k) == {s \in S : PieceOf(spec, s) = k}
Keys(spec, S) == {PieceOf(spec, s) : s \in S}
Top(piece) == Max({s.watts : s \in piece})
PriceOf(piece, part) == TierFor((CHOOSE s \in piece : TRUE).period, Top(piece))[part]
MinutesIn(piece) == SumOver(piece, MinutesOf)

\* The greatest power of some slices is that of one of them.
LEMMA TopFacts ==
  ASSUME NEW spec, Priceable(spec), NEW m \in Meters,
         NEW piece \in SUBSET Slices(spec, m), piece # {}
  PROVE  /\ IsFiniteSet(piece)
         /\ \E x \in piece : x.watts = Top(piece)
         /\ \A x \in piece : x.watts \in Int /\ x.watts <= Top(piece)
         /\ Top(piece) \in Int
<1>1. IsFiniteSet(piece)
  BY SliceFacts, FS_Subset
<1>2. \A x \in piece : x.watts \in Int
  BY SliceFacts
<1> DEFINE f == [x \in piece |-> x.watts]
           W == {f[x] : x \in piece}
<1>3. Top(piece) = Max(W)
  BY DEF Top
<1>4. \A x \in piece : f[x] = x.watts
  OBVIOUS
<1> HIDE DEF f
<1>5. IsFiniteSet(W) /\ W \in SUBSET Int /\ W # {}
  BY <1>1, <1>2, <1>4, ImageFinite
<1>6. Max(W) \in W /\ \A w \in W : w <= Max(W)
  BY <1>5, MaxOf
<1>7. Max(W) \in Int
  BY <1>5, <1>6
<1> QED
  BY <1>1, <1>2, <1>3, <1>4, <1>6, <1>7

\* What a piece is and costs.
LEMMA PieceFacts ==
  ASSUME NEW spec, Priceable(spec), spec.mode \in ByPower, NEW m \in Meters,
         NEW k \in Keys(spec, Slices(spec, m)), NEW part \in Parts
  PROVE  LET piece == Piece(spec, Slices(spec, m), k)
         IN  /\ piece # {} /\ IsFiniteSet(piece) /\ piece \in SUBSET Slices(spec, m)
             /\ \A x \in piece : MinutesOf(x) \in Nat
             /\ MinutesIn(piece) \in Nat
             /\ PriceOf(piece, part) \in Nat /\ PriceOf(piece, part) <= MaxRate
             /\ PieceCost(piece, part)
                  = Rounded(PriceOf(piece, part) * MinutesIn(piece), HourMinutes)
             /\ PieceCost(piece, part) \in Nat
<1> DEFINE S == Slices(spec, m)
           piece == Piece(spec, S, k)
           c == CHOOSE s \in piece : TRUE
           f == [x \in piece |-> MinutesOf(x)]
<1>1. piece # {} /\ piece \in SUBSET S
  BY DEF Keys, Piece
<1>2. IsFiniteSet(piece)
  BY <1>1, TopFacts
<1>3. ASSUME NEW x \in S PROVE MinutesOf(x) \in Nat
  <2>1. x.from \in Int /\ x.to \in Int /\ x.from < x.to
    BY SliceFacts
  <2> DEFINE n == (x.to - x.from) * Precision
  <2>2. n \in Nat
    <3>1. x.to - x.from \in Nat
      BY <2>1
    <3> QED
      BY <3>1, Sizes
  <2>3. MinutesOf(x) = Rounded(n, Minute)
    BY DEF MinutesOf
  <2> HIDE DEF n
  <2> QED
    BY <2>2, <2>3, RoundedNat, Sizes
<1>4. MinutesIn(piece) = SumFunctionOnSet(f, piece)
  BY DEF MinutesIn, SumOver
<1>5. \A x \in piece : f[x] \in Nat
  BY <1>1, <1>3
<1>6. c \in S
  BY <1>1
<1>7. PriceOf(piece, part) \in Nat /\ PriceOf(piece, part) <= MaxRate
  <2>1. c.from \in Int /\ c.period = RateAt(spec, c.from)
    BY <1>6, SliceFacts
  <2> HIDE DEF piece
  <2>2. PriceOf(piece, part) = TierFor(RateAt(spec, c.from), Top(piece))[part]
    BY <2>1 DEF PriceOf
  <2> HIDE DEF c
  <2> QED
    BY <2>1, <2>2, TierPrice
<1>8. PieceCost(piece, part)
        = Rounded(PriceOf(piece, part) * MinutesIn(piece), HourMinutes)
  BY DEF PieceCost, PriceOf, Top, MinutesIn
<1> HIDE DEF f, piece, c, S
<1>9. MinutesIn(piece) \in Nat
  BY <1>2, <1>4, <1>5, SumNat
<1>10. PieceCost(piece, part) \in Nat
  <2>1. PriceOf(piece, part) * MinutesIn(piece) \in Nat
    BY <1>7, <1>9
  <2> QED
    BY <1>8, <2>1, RoundedNat, Sizes
<1> QED
  BY <1>1, <1>2, <1>3, <1>7, <1>8, <1>9, <1>10 DEF piece, S

LEMMA PowerCostIs ==
  ASSUME NEW spec, Priceable(spec), spec.mode \in ByPower, NEW m \in Meters,
         NEW part \in Parts
  PROVE  LET S == Slices(spec, m)
             cost == [k \in Keys(spec, S) |-> PieceCost(Piece(spec, S, k), part)]
         IN  /\ IsFiniteSet(Keys(spec, S))
             /\ \A k \in Keys(spec, S) : cost[k] \in Nat
             /\ PowerCost(S, spec, part)
                  = Rounded(SumFunctionOnSet(cost, Keys(spec, S)), Precision)
<1> DEFINE S == Slices(spec, m)
           K == Keys(spec, S)
           cost == [k \in K |-> PieceCost(Piece(spec, S, k), part)]
           of == [s \in S |-> PieceOf(spec, s)]
<1>1. IsFiniteSet(S)
  BY SliceFacts
<1>2. K = {of[s] : s \in S}
  BY DEF Keys
<1>3. PowerCost(S, spec, part) = Rounded(SumFunctionOnSet(cost, K), Precision)
  BY DEF PowerCost, SumOver, Keys, Piece
<1>4. \A k \in K : cost[k] \in Nat
  BY PieceFacts
<1> HIDE DEF of, S
<1>5. IsFiniteSet(K)
  <2> HIDE DEF K
  <2> QED
    BY <1>1, <1>2, ImageFinite
<1> QED
  BY <1>3, <1>4, <1>5 DEF S

\* What a part of the price comes to is a whole number of cents.
LEMMA PowerCostNat ==
  ASSUME NEW spec, Priceable(spec), spec.mode \in ByPower, NEW m \in Meters,
         NEW part \in Parts
  PROVE  PowerCost(Slices(spec, m), spec, part) \in Nat
<1> DEFINE S == Slices(spec, m)
           K == Keys(spec, S)
           cost == [k \in K |-> PieceCost(Piece(spec, S, k), part)]
<1>1. /\ IsFiniteSet(K) /\ \A k \in K : cost[k] \in Nat
      /\ PowerCost(S, spec, part) = Rounded(SumFunctionOnSet(cost, K), Precision)
  BY PowerCostIs
<1> HIDE DEF S, K, cost
<1>2. SumFunctionOnSet(cost, K) \in Nat
  BY <1>1, SumNat
<1> QED
  BY <1>1, <1>2, RoundedNat, Sizes DEF S

LEMMA EnergyCostNat ==
  ASSUME NEW spec, Priceable(spec), spec.mode = "energy", NEW m \in Meters,
         NEW part \in Parts
  PROVE  EnergyCost(m, spec, part) \in Nat
<1> DEFINE S == m.segments
           f == [s \in S |-> s.wh * RateAt(spec, s.from)[part]]
<1>1. \A s \in S : f[s] \in Nat
  <2> TAKE s \in S
  <2>1. s.from \in Int /\ s.wh \in Nat
    BY MeterFacts
  <2>2. /\ PeriodAt(spec, s.from) \in 1..Len(spec.periods)
        /\ RateAt(spec, s.from) = spec.periods[PeriodAt(spec, s.from)]
    BY <2>1, PeriodFacts
  <2>3. RateAt(spec, s.from)[part] \in Nat
    BY <2>2, EnergyPrice
  <2>4. s.wh * RateAt(spec, s.from)[part] \in Nat
    BY <2>1, <2>3
  <2> QED
    BY <2>4
<1>2. EnergyCost(m, spec, part) = Rounded(SumFunctionOnSet(f, S), KWh)
  BY DEF EnergyCost, SumOver
<1>3. IsFiniteSet(S)
  BY MeterFacts
<1> HIDE DEF f, S
<1>4. SumFunctionOnSet(f, S) \in Nat
  BY <1>1, <1>3, SumNat
<1> QED
  BY <1>2, <1>4, Sizes, RoundedNat

Fees == [verdict : {"priced", "review", "invalid"}, electric : Nat, service : Nat]

LEMMA UsageIsMeter ==
  ASSUME NEW m \in Meters
  PROVE  /\ Usage(m) \in Meters
         /\ Usage(m).from = m.from /\ Usage(m).to = m.to /\ Usage(m).wh = m.wh
         /\ Usage(m).used = m.used /\ Usage(m).segments = Segments(m)
         /\ EndOf(Usage(m)) = EndOf(m) /\ WholeMinutes(Usage(m)) = WholeMinutes(m)
<1> DEFINE one == [from |-> m.from, to |-> m.to, wh |-> m.wh, power |-> Unknown, peak |-> 0]
<1>1. m.segments \in SUBSET Samples /\ IsFiniteSet(m.segments)
  BY MeterFacts
<1>2. one \in Samples
  BY MeterFacts DEF Samples, Unknown
<1>3. Segments(m) \in SUBSET Samples /\ IsFiniteSet(Segments(m))
  <2>1. IsFiniteSet({one})
    BY FS_Singleton
  <2> QED
    BY <1>1, <1>2, <2>1 DEF Segments
<1>4. m \in [from : Int, to : Int, used : Nat, wh : Nat, segments : SUBSET Samples,
             doubtful : BOOLEAN]
  BY DEF Meters
<1>5. /\ Usage(m) \in Meters
      /\ Usage(m).from = m.from /\ Usage(m).to = m.to /\ Usage(m).wh = m.wh
      /\ Usage(m).used = m.used /\ Usage(m).segments = Segments(m)
  BY <1>3, <1>4 DEF Usage, Meters
<1> QED
  BY <1>5 DEF EndOf, WholeMinutes

\* The price of a meter is a fee, or there is a reason why it has none; only a
\* rule that does not hold is refused.
LEMMA PriceIsFee ==
  ASSUME NEW spec, Priceable(spec), NEW m \in Meters
  PROVE  PriceActual(spec, m) \in Fees /\ PriceActual(spec, m).verdict # "invalid"
<1> DEFINE u == Usage(m)
           cost(part) == IF spec.mode = "energy" THEN EnergyCost(u, spec, part)
                         ELSE PowerCost(Slices(spec, u), spec, part)
           lowest == IF WholeMinutes(u) > 0 THEN spec.minElectric ELSE 0
<1>1. u \in Meters
  BY UsageIsMeter
<1>2. \A part \in Parts : cost(part) \in Nat
  <2> TAKE part \in Parts
  <2> HIDE DEF u
  <2>1. CASE spec.mode = "energy"
    BY <1>1, <2>1, EnergyCostNat
  <2>2. CASE spec.mode # "energy"
    <3>1. spec.mode \in ByPower
      BY <2>2 DEF Priceable, ServerModes, ByPower
    <3> QED
      BY <1>1, <2>2, <3>1, PowerCostNat
  <2> QED
    BY <2>1, <2>2
<1>3. cost("electric") \in Nat /\ cost("service") \in Nat /\ lowest \in Nat
  BY <1>2, Sizes DEF Parts, Priceable, ValidSpec, InRange
<1>4. Cost(spec, u) \in {Priced(0, 0), NeedsReview,
                         Priced(Max({cost("electric"), lowest}), cost("service"))}
  BY DEF Cost
<1> HIDE DEF u, cost, lowest
<1>5. Max({cost("electric"), lowest}) \in Nat
  <2>1. Max({cost("electric"), lowest}) \in {cost("electric"), lowest}
    BY <1>3, MaxOfTwo
  <2> QED
    BY <1>3, <2>1
<1>6. Cost(spec, u) \in Fees /\ Cost(spec, u).verdict # "invalid"
  BY <1>3, <1>4, <1>5 DEF Priced, NeedsReview, Fees
<1>7. ValidSpec(spec)
  BY DEF Priceable
<1>8. PriceActual(spec, m) \in {NeedsReview, Cost(spec, u)}
  BY <1>7 DEF PriceActual, u
<1> QED
  BY <1>6, <1>8 DEF NeedsReview, Fees

LEMMA WrittenIsFee ==
  ASSUME NEW spec, Written(spec), NEW m \in Meters
  PROVE  PriceActual(spec, m) \in Fees
<1>1. CASE ValidSpec(spec)
  BY <1>1, PriceIsFee DEF Written, Priceable
<1>2. CASE ~ValidSpec(spec)
  <2>1. PriceActual(spec, m) \in {NeedsReview, BadRule}
    BY <1>2 DEF PriceActual
  <2> QED
    BY <2>1 DEF NeedsReview, BadRule, Fees
<1> QED
  BY <1>1, <1>2

---------------------------------------------------------------------------
(* What a purchase settles at.                                              *)

Published == {s \in SchemeRecords : ValidScheme(s)}

LEMMA PackageFacts ==
  ASSUME NEW plan \in Published, NEW q \in Purchases(plan)
  PROVE  /\ q.package \in plan.packages /\ ValidPackage(plan, q.package)
         /\ q.package.mode \in {"amount", "duration", "energy"}
         /\ q.package.price \in Nat \ {0} /\ q.package.minutes \in Int
         /\ q.count \in Nat \ {0} /\ Price(q) \in Nat \ {0}
<1>1. /\ plan \in SchemeRecords /\ ValidScheme(plan)
  BY DEF Published
<1>2. q.package \in plan.packages /\ q.count \in 1..plan.cardLimit
  BY DEF Purchases
<1>3. /\ q.package.mode \in {"amount", "duration", "energy"}
      /\ q.package.price \in Int /\ q.package.minutes \in Int
      /\ plan.cardLimit \in Int
  BY <1>1, <1>2 DEF SchemeRecords
<1>4. ValidPackage(plan, q.package)
  BY <1>1, <1>2 DEF ValidScheme
<1>5. q.package.price \in 1..MaxRate
  BY <1>4 DEF ValidPackage
<1>6. q.package.price \in Nat \ {0} /\ q.count \in Nat \ {0}
  BY <1>2, <1>3, <1>5
<1> QED
  BY <1>2, <1>3, <1>4, <1>6 DEF Price

\* A purchase by amount is settled by a tariff that was written as one; it is valid
\* as a whole if it has no more free time than ValidateSpec accepts, which
\* publishing does not check.
LEMMA AmountIsWritten ==
  ASSUME NEW plan \in Published, NEW p \in plan.packages, p.mode = "amount"
  PROVE  /\ Written(SpecFor(plan, p))
         /\ plan.free <= MaxFree => ValidSpec(SpecFor(plan, p))
<1> DEFINE spec == SpecFor(plan, p)
<1>1. plan \in SchemeRecords /\ ValidScheme(plan)
  BY DEF Published
<1>2. ValidPackage(plan, p)
  BY <1>1 DEF ValidScheme
<1>3. plan.amount # NoMode
  BY <1>2 DEF ValidPackage
<1>4. /\ plan.amount \in [mode : ServerModes, periods : Periods]
      /\ plan.free \in Int /\ plan.minElectric \in Int /\ plan.limit \in Int
  BY <1>1, <1>3 DEF SchemeRecords
<1>5. /\ plan.amount.mode \in ServerModes
      /\ ValidSpec([mode |-> plan.amount.mode, periods |-> plan.amount.periods,
                    free |-> 0, minElectric |-> 0, limit |-> 0])
      /\ InRange(plan.minElectric) /\ plan.limit \in MinLimit..MaxMinutes
  BY <1>1, <1>3 DEF ValidScheme
<1>6. spec = [mode |-> plan.amount.mode, periods |-> plan.amount.periods,
              free |-> plan.free, minElectric |-> plan.minElectric, limit |-> plan.limit]
  BY DEF SpecFor
<1>7. /\ spec.mode = plan.amount.mode /\ spec.periods = plan.amount.periods
      /\ spec.free = plan.free /\ spec.minElectric = plan.minElectric
      /\ spec.limit = plan.limit
  BY <1>6
<1> HIDE DEF spec
<1>8. plan.free <= MaxFree => ValidSpec(spec)
  BY <1>4, <1>5, <1>7, Sizes DEF ValidSpec
<1>9. spec.periods \in Periods
  BY <1>4, <1>7
<1>10. Written(spec)
  BY <1>4, <1>5, <1>7, <1>9 DEF Written
<1> QED
  BY <1>8, <1>10 DEF spec

\* The other packages have no tariff that could fail.
LEMMA FreeIsValid ==
  ASSUME NEW plan \in Published, NEW p \in plan.packages, plan.free <= MaxFree
  PROVE  ValidSpec(SpecFor(plan, p))
<1>1. CASE p.mode = "amount"
  BY <1>1, AmountIsWritten
<1>2. CASE p.mode # "amount"
  <2>1. p.mode \in {"duration", "energy"}
    BY <1>2 DEF Published, SchemeRecords
  <2>2. /\ SpecFor(plan, p).mode \notin ServerModes
        /\ SpecFor(plan, p).free = 0 /\ SpecFor(plan, p).minElectric = 0
        /\ SpecFor(plan, p).limit = 0
    BY <2>1 DEF SpecFor, ServerModes
  <2> QED
    BY <2>2, Sizes DEF ValidSpec, InRange
<1> QED
  BY <1>1, <1>2

\* A share of a price in proportion to part of a whole is no more than the price.
LEMMA ShareWithin ==
  ASSUME NEW price \in Nat, NEW part \in Nat, NEW whole \in Nat \ {0}, part <= whole
  PROVE  (price * part) \div whole \in Nat /\ (price * part) \div whole <= price
<1> DEFINE a == price * part
           x == a \div whole
<1>1. a \in Nat /\ a <= price * whole /\ price * whole \in Int
  OBVIOUS
<1> HIDE DEF a
<1>2. x \in Nat /\ a = whole * x + (a % whole) /\ a % whole \in 0..(whole - 1)
  BY <1>1, Divided, QuotientNat
<1> HIDE DEF x
<1>3. ~ x > price
  <2> SUFFICES ASSUME x >= price + 1 PROVE FALSE
    BY <1>2
  <2>1. whole * x >= whole * (price + 1) /\ whole * (price + 1) = price * whole + whole
    BY <1>2
  <2>2. whole * x \in Int /\ whole * x <= a
    BY <1>2
  <2> QED
    BY <1>1, <2>1, <2>2
<1> QED
  BY <1>2, <1>3 DEF a, x

\* A price shared out as a fee was is the price, whatever the fee.
LEMMA SplitIsTotal ==
  ASSUME NEW fee \in Fees, NEW price \in Nat
  PROVE  SplitFee(fee, price) \in Fees /\ Total(SplitFee(fee, price)) = price
         /\ SplitFee(fee, price).verdict = "priced"
<1> DEFINE part == (fee.electric * price) \div Total(fee)
           share == IF Total(fee) <= 0 THEN 0 ELSE Min({price, part})
<1>1. fee.electric \in Nat /\ fee.service \in Nat
  BY DEF Fees
<1>2. Total(fee) \in Nat
  BY <1>1 DEF Total
<1>3. share \in Nat /\ share <= price
  <2>1. CASE Total(fee) = 0
    BY <2>1
  <2>2. CASE Total(fee) # 0
    <3>1. fee.electric * price \in Nat
      BY <1>1
    <3>2. part \in Nat
      BY <1>2, <2>2, <3>1, QuotientNat
    <3> HIDE DEF part
    <3>3. Min({price, part}) \in {price, part} /\ Min({price, part}) <= price
      BY <3>2, MinOfTwo
    <3> QED
      BY <3>2, <3>3
  <2> QED
    BY <2>1, <2>2
<1>4. SplitFee(fee, price) = Priced(share, price - share)
  BY DEF SplitFee
<1> HIDE DEF share
<1>5. price - share \in Nat
  BY <1>3
<1> QED
  BY <1>3, <1>4, <1>5 DEF Priced, Fees, Total

LEMMA SettledWithinPrice ==
  ASSUME NEW plan \in Published, NEW q \in Purchases(plan), NEW m \in Meters
  PROVE  LET fee == SettleSession(plan, q, m)
         IN  /\ fee \in Fees /\ Total(fee) <= Price(q)
             /\ plan.free <= MaxFree => fee.verdict # "invalid"
<1> DEFINE fee == SettleSession(plan, q, m)
           spec == SpecFor(plan, q.package)
           mode == q.package.mode
<1>1. /\ q.package \in plan.packages /\ ValidPackage(plan, q.package)
      /\ mode \in {"amount", "duration", "energy"}
      /\ q.package.minutes \in Int /\ q.count \in Nat \ {0} /\ Price(q) \in Nat \ {0}
  BY PackageFacts
<1>2. CASE m.doubtful
  <2>1. fee = NeedsReview
    BY <1>2 DEF SettleSession
  <2> QED
    BY <1>1, <2>1 DEF NeedsReview, Fees, Total
<1>3. CASE ~m.doubtful /\ ~ValidSpec(spec)
  <2>1. fee = BadRule
    BY <1>3 DEF SettleSession
  <2>2. ~ plan.free <= MaxFree
    BY <1>1, <1>3, FreeIsValid
  <2> QED
    BY <1>1, <2>1, <2>2 DEF BadRule, Fees, Total
<1>4. CASE ~m.doubtful /\ ValidSpec(spec) /\ mode = "amount"
  <2>1. Priceable(spec)
    <3>1. Written(spec)
      BY <1>1, <1>4, AmountIsWritten
    <3> QED
      BY <1>4, <3>1 DEF Priceable, Written
  <2> DEFINE raw == PriceActual(spec, m)
  <2>2. raw \in Fees /\ raw.verdict # "invalid"
    BY <2>1, PriceIsFee
  <2>3. fee = IF raw.verdict = "priced" /\ Total(raw) > Price(q)
              THEN SplitFee(raw, Price(q)) ELSE raw
    BY <1>4, <2>1 DEF SettleSession, SettleAmount, Priceable
  <2>4. CASE raw.verdict = "priced" /\ Total(raw) > Price(q)
    <3> HIDE DEF raw, fee
    <3>1. SplitFee(raw, Price(q)) \in Fees /\ Total(SplitFee(raw, Price(q))) = Price(q)
          /\ SplitFee(raw, Price(q)).verdict = "priced"
      BY <1>1, <2>2, <2>4, SplitIsTotal
    <3> QED
      BY <1>1, <2>3, <2>4, <3>1 DEF fee
  <2>5. CASE raw.verdict = "priced" /\ ~ Total(raw) > Price(q)
    <3> HIDE DEF raw, fee
    <3>1. Total(raw) \in Int
      BY <2>2 DEF Fees, Total
    <3>2. fee = raw
      BY <2>3, <2>5
    <3> QED
      BY <1>1, <2>2, <2>5, <3>1, <3>2 DEF fee
  <2>6. CASE raw.verdict # "priced"
    <3>1. raw = NeedsReview
      BY <2>1, <2>6 DEF PriceActual, Cost, Priced, Priceable
    <3>2. fee = NeedsReview
      BY <2>3, <2>6, <3>1
    <3> HIDE DEF fee
    <3> QED
      BY <1>1, <3>2 DEF NeedsReview, Fees, Total, fee
  <2> QED
    BY <2>4, <2>5, <2>6
<1>5. CASE ~m.doubtful /\ ValidSpec(spec) /\ mode = "duration"
  <2> DEFINE limit == q.package.minutes * q.count
             used == m.used \div Minute
             part == (Price(q) * used) \div limit
  <2>1. fee = Priced(0, IF used < limit THEN part ELSE Price(q))
    BY <1>5 DEF SettleSession, SettleDuration
  <2>2. q.package.minutes \in 1..MaxMinutes
    BY <1>1, <1>5 DEF ValidPackage
  <2>3. limit \in Nat \ {0}
    BY <1>1, <2>2
  <2>4. used \in Nat
    BY MeterFacts, QuotientNat, Sizes
  <2> HIDE DEF limit, used, fee
  <2>5. used < limit => part \in Nat /\ part <= Price(q)
    BY <1>1, <2>3, <2>4, ShareWithin
  <2> HIDE DEF part
  <2>6. (IF used < limit THEN part ELSE Price(q)) \in Nat
        /\ (IF used < limit THEN part ELSE Price(q)) <= Price(q)
    BY <1>1, <2>3, <2>4, <2>5
  <2> QED
    BY <1>1, <2>1, <2>6 DEF Priced, Fees, Total, fee
<1>6. CASE ~m.doubtful /\ ValidSpec(spec) /\ mode = "energy"
  <2> DEFINE rate == plan.energy.electric + plan.energy.service
             worth == (m.wh * rate) \div KWh
             amount == Min({worth, Price(q)})
             electric == (amount * plan.energy.electric) \div rate
  <2>1. fee = Priced(electric, amount - electric)
    BY <1>6 DEF SettleSession, SettleEnergy
  <2>2. plan.energy # NoMode /\ plan \in SchemeRecords /\ ValidScheme(plan)
    BY <1>1, <1>6 DEF ValidPackage, Published
  <2>3. plan.energy.electric \in Nat /\ plan.energy.service \in Nat /\ rate > 0
    BY <2>2, Sizes DEF ValidScheme, InRange
  <2>4. rate \in Nat \ {0}
    BY <2>3
  <2>5. m.wh * rate \in Nat
    BY <2>4, MeterFacts
  <2> HIDE DEF rate
  <2>6. worth \in Nat
    BY <2>5, QuotientNat, Sizes
  <2> HIDE DEF worth
  <2>7. amount \in {worth, Price(q)} /\ amount <= Price(q)
    <3> DEFINE price == Price(q)
    <3>1. worth \in Int /\ price \in Int
      BY <1>1, <2>6
    <3> HIDE DEF price
    <3>2. Min({worth, price}) \in {worth, price} /\ Min({worth, price}) <= price
      BY <3>1, MinOfTwo
    <3> QED
      BY <3>2 DEF price
  <2>8. amount \in Nat
    BY <1>1, <2>6, <2>7
  <2> HIDE DEF amount
  <2>9. electric \in Nat /\ electric <= amount
    <3>1. plan.energy.electric <= rate
      BY <2>3 DEF rate
    <3> QED
      BY <2>3, <2>4, <2>8, <3>1, ShareWithin
  <2> HIDE DEF electric, fee
  <2>10. amount - electric \in Nat /\ electric + (amount - electric) = amount
    BY <2>8, <2>9
  <2> QED
    BY <1>1, <2>1, <2>7, <2>8, <2>9, <2>10 DEF Priced, Fees, Total, fee
<1> QED
  BY <1>1, <1>2, <1>3, <1>4, <1>5, <1>6

---------------------------------------------------------------------------
(* What is known of a fee when the evidence has gaps.                       *)

\* An entry of a tariff with other prices keeps whatever else it says.
Repriced(entry, e, v) == [entry EXCEPT !.electric = e, !.service = v]

LEMMA BoundOfFacts ==
  ASSUME NEW entry, NEW others, IsFiniteSet(others), NEW upper,
         entry.electric \in Int /\ entry.service \in Int,
         \A o \in others : o.electric \in Int /\ o.service \in Int
  PROVE  \E e, v \in Int :
           BoundOf(entry, others, upper) = Repriced(entry, e, v)
<1> DEFINE pick(S) == IF upper THEN Max(S) ELSE Min(S)
           E == {entry.electric} \cup {o.electric : o \in others}
           V == {entry.service} \cup {o.service : o \in others}
<1>1. IsFiniteSet(E) /\ IsFiniteSet(V)
  <2> DEFINE e == [o \in others |-> o.electric]
             v == [o \in others |-> o.service]
  <2>1. IsFiniteSet({e[o] : o \in others}) /\ IsFiniteSet({v[o] : o \in others})
    <3> HIDE DEF e, v
    <3> QED
      BY ImageFinite
  <2>2. /\ {e[o] : o \in others} = {o.electric : o \in others}
        /\ {v[o] : o \in others} = {o.service : o \in others}
    OBVIOUS
  <2> QED
    BY <2>1, <2>2, FS_Singleton, FS_Union
<1>2. E \in SUBSET Int /\ E # {} /\ V \in SUBSET Int /\ V # {}
  OBVIOUS
<1>3. BoundOf(entry, others, upper)
        = Repriced(entry, pick(E), pick(V))
  BY DEF BoundOf, Repriced
<1> HIDE DEF E, V
<1>4. pick(E) \in Int /\ pick(V) \in Int
  BY <1>1, <1>2, MinOf, MaxOf
<1> QED
  BY <1>3, <1>4

LEMMA WithoutGapsIsMeter ==
  ASSUME NEW spec, NEW m \in Meters
  PROVE  WithoutGaps(spec, m) \in Meters
<1> DEFINE fill == [s \in m.segments |->
                      IF s.power = Unknown /\ (spec.mode = "realtime" \/ s.peak = 0)
                      THEN [s EXCEPT !.power = 0] ELSE s]
           S == {fill[s] : s \in m.segments}
<1>1. IsFiniteSet(S)
  <2> HIDE DEF fill
  <2> QED
    BY MeterFacts, ImageFinite
<1>2. S \subseteq Samples
  <2> SUFFICES ASSUME NEW s \in m.segments PROVE fill[s] \in Samples
    OBVIOUS
  <2>1. s \in Samples
    BY MeterFacts
  <2> QED
    BY <2>1 DEF Samples
<1>3. WithoutGaps(spec, m) = [m EXCEPT !.segments = S]
  BY DEF WithoutGaps
<1> HIDE DEF S
<1> QED
  BY <1>1, <1>2, <1>3 DEF Meters

\* Any function on 1..n is a sequence.
LEMMA MadeSeq ==
  ASSUME NEW X, NEW n \in Nat, NEW f, \A i \in 1..n : f[i] \in X
  PROVE  [i \in 1..n |-> f[i]] \in Seq(X)
OBVIOUS

LEMMA RangeFacts ==
  ASSUME NEW X, NEW s \in Seq(X)
  PROVE  IsFiniteSet(Range(s)) /\ Range(s) \subseteq X
<1>1. Len(s) \in Nat /\ DOMAIN s = 1..Len(s) /\ \A i \in 1..Len(s) : s[i] \in X
  BY SeqFacts
<1>2. Range(s) = {s[i] : i \in 1..Len(s)}
  BY <1>1 DEF Range
<1>3. IsFiniteSet(1..Len(s))
  BY <1>1, FS_Interval
<1>4. IsFiniteSet({s[i] : i \in 1..Len(s)})
  BY <1>3, ImageFinite
<1> QED
  BY <1>1, <1>2, <1>4

LEMMA BoundIsWritten ==
  ASSUME NEW spec, Written(spec), NEW upper \in BOOLEAN
  PROVE  Written(BoundSpec(spec, upper))
<1> DEFINE Tier == [max : Int, electric : Int, service : Int]
           Period == [end : Int, electric : Int, service : Int, tiers : Tiers]
           n == Len(spec.periods)
           from(i, j) ==
             IF upper \/ j = 1 THEN Range(spec.periods[i].tiers)
             ELSE IF spec.mode = "realtime" THEN {}
             ELSE {spec.periods[i].tiers[k] : k \in j..Len(spec.periods[i].tiers)}
           tiersOf(i) == [j \in DOMAIN spec.periods[i].tiers |->
                            BoundOf(spec.periods[i].tiers[j], from(i, j), upper)]
           bound(i) ==
             IF spec.mode = "energy"
             THEN BoundOf(spec.periods[i], Range(spec.periods), upper)
             ELSE [spec.periods[i] EXCEPT !.tiers = tiersOf(i)]
<1>1. /\ \A x \in Tier : x.electric \in Int /\ x.service \in Int
      /\ \A p \in Period : /\ p.electric \in Int /\ p.service \in Int /\ p.tiers \in Tiers
      /\ \A x \in Tier : \A e, v \in Int : Repriced(x, e, v) \in Tier
      /\ \A p \in Period : \A e, v \in Int :
           Repriced(p, e, v) \in Period
      /\ \A p \in Period : \A r \in Tiers : [p EXCEPT !.tiers = r] \in Period
  BY ZenonT(60) DEF Repriced
<1>2. spec.periods \in Seq(Period) /\ Tiers = Seq(Tier)
  BY DEF Written, Periods, Tiers
<1> HIDE DEF Tier, Period
<1>3. n \in Nat /\ DOMAIN spec.periods = 1..n /\ \A i \in 1..n : spec.periods[i] \in Period
  BY <1>2, SeqFacts
<1>4. \A i \in 1..n : tiersOf(i) \in Tiers
  <2> TAKE i \in 1..n
  <2> DEFINE r == spec.periods[i].tiers
             f == [j \in 1..Len(r) |-> BoundOf(r[j], from(i, j), upper)]
  <2>1. r \in Seq(Tier)
    BY <1>1, <1>2, <1>3
  <2> HIDE DEF r
  <2>2. Len(r) \in Nat /\ DOMAIN r = 1..Len(r) /\ \A j \in 1..Len(r) : r[j] \in Tier
    BY <2>1, SeqFacts
  <2>3. ASSUME NEW j \in 1..Len(r) PROVE BoundOf(r[j], from(i, j), upper) \in Tier
    <3> DEFINE rest == [k \in j..Len(r) |-> r[k]]
    <3>1. IsFiniteSet({rest[k] : k \in j..Len(r)})
      <4>1. IsFiniteSet(j..Len(r))
        BY <2>2, FS_Interval
      <4> HIDE DEF rest
      <4> QED
        BY <4>1, ImageFinite
    <3>2. {rest[k] : k \in j..Len(r)} = {r[k] : k \in j..Len(r)}
      OBVIOUS
    <3>3. {r[k] : k \in j..Len(r)} \subseteq Tier
      BY <2>2
    <3>4. IsFiniteSet(from(i, j)) /\ from(i, j) \subseteq Tier
      <4> DEFINE T == {r[k] : k \in j..Len(r)}
      <4>1. from(i, j) \in {Range(r), {}, T}
        BY DEF r
      <4>2. IsFiniteSet(T) /\ T \subseteq Tier
        BY <3>1, <3>2, <3>3
      <4>3. IsFiniteSet(Range(r)) /\ Range(r) \subseteq Tier
        BY <2>1, RangeFacts
      <4> HIDE DEF from, T
      <4> QED
        BY <4>1, <4>2, <4>3, FS_EmptySet
    <3>5. r[j] \in Tier
      BY <2>2
    <3> DEFINE S == from(i, j)
    <3> HIDE DEF S, from
    <3>6. PICK e \in Int, v \in Int :
            BoundOf(r[j], S, upper) = Repriced(r[j], e, v)
      <4>1. r[j].electric \in Int /\ r[j].service \in Int
        BY <1>1, <3>5
      <4>2. \A o \in S : o.electric \in Int /\ o.service \in Int
        BY <1>1, <3>4 DEF S
      <4>3. IsFiniteSet(S)
        BY <3>4 DEF S
      <4> QED
        BY <4>1, <4>2, <4>3, BoundOfFacts
    <3> QED
      BY <1>1, <3>5, <3>6 DEF S
  <2> HIDE DEF from
  <2>4. \A j \in 1..Len(r) : f[j] \in Tier
    BY <2>3
  <2>5. tiersOf(i) = [j \in 1..Len(r) |-> f[j]]
    BY <2>2 DEF r
  <2> HIDE DEF f
  <2>6. [j \in 1..Len(r) |-> f[j]] \in Seq(Tier)
    BY <2>2, <2>4, MadeSeq
  <2> QED
    BY <1>2, <2>5, <2>6
<1> HIDE DEF tiersOf
<1>5. ASSUME NEW i \in 1..n PROVE bound(i) \in Period
  <2>1. CASE spec.mode = "energy"
    <3> DEFINE S == Range(spec.periods)
               p == spec.periods[i]
    <3>1. IsFiniteSet(S) /\ S \subseteq Period /\ p \in Period
      BY <1>2, <1>3, RangeFacts
    <3>2. bound(i) = BoundOf(p, S, upper)
      BY <2>1
    <3> HIDE DEF S, p, bound
    <3>3. /\ p.electric \in Int /\ p.service \in Int
          /\ \A o \in S : o.electric \in Int /\ o.service \in Int
      BY <1>1, <3>1
    <3>4. \E e, v \in Int : BoundOf(p, S, upper) = Repriced(p, e, v)
      BY <3>1, <3>3, BoundOfFacts
    <3> QED
      BY <1>1, <3>1, <3>2, <3>4
  <2>2. CASE spec.mode # "energy"
    BY <1>1, <1>3, <1>4, <2>2
  <2> QED
    BY <2>1, <2>2
<1>6. BoundSpec(spec, upper) = [spec EXCEPT !.periods = [i \in 1..n |-> bound(i)]]
  BY <1>3 DEF BoundSpec, tiersOf
<1> DEFINE g == [i \in 1..n |-> bound(i)]
<1> HIDE DEF bound
<1>7. g \in Seq(Period)
  <2>1. \A i \in 1..n : g[i] \in Period
    BY <1>5
  <2>2. g = [i \in 1..n |-> g[i]]
    OBVIOUS
  <2> HIDE DEF g
  <2>3. [i \in 1..n |-> g[i]] \in Seq(Period)
    BY <1>3, <2>1, MadeSeq
  <2> QED
    BY <2>2, <2>3
<1> HIDE DEF g
<1>8. g \in Periods
  BY <1>7 DEF Periods, Period
<1> QED
  BY <1>6, <1>8 DEF Written, g

\* The fee fixed at a stop is the whole price.
LEMMA StopFeeIsPrice ==
  ASSUME NEW spec, Written(spec), NEW price \in Nat, NEW m \in Meters
  PROVE  LET fee == BudgetStop(spec, price, m).fee
         IN  fee \in Fees /\ Total(fee) = price /\ fee.verdict = "priced"
<1> DEFINE strict == PriceActual(spec, m)
           low == BudgetBound(spec, m, FALSE)
           fee == BudgetStop(spec, price, m).fee
<1>1. strict \in Fees
  BY WrittenIsFee
<1>2. low \in Fees
  <2>2. Written(BoundSpec(spec, FALSE))
    BY BoundIsWritten
  <2>3. WithoutGaps(spec, m) \in Meters
    BY WithoutGapsIsMeter
  <2> QED
    BY <2>2, <2>3, WrittenIsFee DEF BudgetBound
<1>3. fee \in {SplitFee(low, price), SplitFee(strict, price)}
  BY DEF BudgetStop, StopAt
<1> HIDE DEF strict, low, fee
<1> QED
  BY <1>1, <1>2, <1>3, SplitIsTotal DEF fee

LEMMA CutoffIsMeter ==
  ASSUME NEW spec, NEW m \in Meters, NEW at \in Int
  PROVE  /\ CutoffMeter(spec, m, at) \in Meters
         /\ CutoffMeter(spec, m, at).from = m.from /\ CutoffMeter(spec, m, at).to <= m.to
<1> DEFINE kept == {s \in m.segments : s.from < at}
           clip == [s \in kept |-> [s EXCEPT !.to = Min({s.to, at})]]
           wh == [s \in kept |-> s.wh]
           cut == CutoffMeter(spec, m, at)
           sum == SumFunctionOnSet(wh, kept)
           image == {clip[s] : s \in kept}
<1>1. /\ m \in [from : Int, to : Int, used : Nat, wh : Nat, segments : SUBSET Samples,
                doubtful : BOOLEAN]
      /\ IsFiniteSet(m.segments)
  BY DEF Meters
<1>2. m.from \in Int /\ m.to \in Int /\ m.used \in Nat /\ \A s \in m.segments : s \in Samples
  BY MeterFacts
<1>3. IsFiniteSet(kept)
  BY <1>1, FS_Subset
<1>4. sum \in Nat
  <2>1. \A s \in kept : wh[s] \in Nat
    BY MeterFacts
  <2> HIDE DEF kept, wh
  <2> QED
    BY <1>3, <2>1, SumNat
<1>5. IsFiniteSet(image) /\ image \subseteq Samples
  <2>1. ASSUME NEW s \in kept PROVE clip[s] \in Samples
    <3>1. s \in Samples /\ s.to \in Int
      BY <1>2 DEF Samples
    <3>2. Min({s.to, at}) \in Int
      BY <3>1, MinOfTwo
    <3> QED
      BY <3>1, <3>2 DEF Samples
  <2>2. image \subseteq Samples
    BY <2>1
  <2> HIDE DEF clip, kept
  <2>3. IsFiniteSet(image)
    BY <1>3, ImageFinite
  <2> QED
    BY <2>2, <2>3
<1>6. image = {[s EXCEPT !.to = Min({s.to, at})] : s \in kept}
  OBVIOUS
<1>7. \/ cut = m
      \/ cut = [m EXCEPT !.doubtful = TRUE]
      \/ /\ at >= m.from /\ at < m.to
         /\ cut = [m EXCEPT !.used = Min({m.used, at - m.from}), !.to = at]
      \/ /\ at >= m.from /\ at < m.to
         /\ cut = [m EXCEPT !.segments = image, !.wh = sum, !.to = at, !.used = at - m.from]
  <2>1. CASE at >= m.to
    <3>1. cut = m
      BY <2>1 DEF CutoffMeter
    <3> QED
      BY <3>1
  <2>2. CASE ~ at >= m.to /\ at < m.from
    <3>1. cut = [m EXCEPT !.doubtful = TRUE]
      BY <2>2 DEF CutoffMeter
    <3> QED
      BY <3>1
  <2>3. CASE ~ at >= m.to /\ ~ at < m.from
    <3>1. at >= m.from /\ at < m.to
      BY <1>2, <2>3
    <3>2. sum = SumOver(kept, LAMBDA s : s.wh)
      BY DEF SumOver
    <3> DEFINE clean(s) == s.to > at =>
                 /\ spec.mode \notin {"energy", "device_energy"}
                 /\ s.power # Unknown
                 /\ spec.mode = "peak" => s.peak <= s.power
               doubt == (\E s \in kept : ~clean(s)) \/ (\A s \in kept : s.to < at)
    <3>3. cut = IF spec.mode = "device_duration"
                THEN [m EXCEPT !.used = Min({m.used, at - m.from}), !.to = at]
                ELSE IF doubt THEN [m EXCEPT !.doubtful = TRUE]
                ELSE [m EXCEPT !.segments = image, !.wh = SumOver(kept, LAMBDA s : s.wh),
                               !.to = at, !.used = at - m.from]
      BY <1>6, <2>3 DEF CutoffMeter
    <3> HIDE DEF cut, image, doubt, sum
    <3> QED
      BY <3>1, <3>2, <3>3
  <2> QED
    BY <2>1, <2>2, <2>3
<1> HIDE DEF cut, sum, image
<1>8. at >= m.from => at - m.from \in Nat /\ Min({m.used, at - m.from}) \in Nat
  <2> SUFFICES ASSUME at >= m.from PROVE at - m.from \in Nat /\ Min({m.used, at - m.from}) \in Nat
    OBVIOUS
  <2> DEFINE x == at - m.from
  <2>1. x \in Nat
    BY <1>2
  <2> HIDE DEF x
  <2>2. Min({m.used, x}) \in {m.used, x}
    <3>1. m.used \in Int /\ x \in Int
      BY <1>2, <2>1
    <3> QED
      BY <3>1, MinOfTwo
  <2> QED
    BY <1>2, <2>1, <2>2 DEF x
<1>9. cut \in [from : Int, to : Int, used : Nat, wh : Nat, segments : SUBSET Samples,
               doubtful : BOOLEAN]
      /\ IsFiniteSet(cut.segments) /\ cut.from = m.from
  BY <1>1, <1>4, <1>5, <1>7, <1>8
<1>10. cut.to <= m.to
  <2>1. cut.to = m.to \/ (cut.to = at /\ at < m.to)
    BY <1>1, <1>7
  <2> QED
    BY <1>2, <2>1
<1> QED
  BY <1>9, <1>10 DEF Meters, cut

---------------------------------------------------------------------------
(* The state of a charge.                                                   *)

Within(fee) ==
  /\ fee \in Fees /\ Total(fee) <= Price(purchase)
  /\ scheme.free <= MaxFree => fee.verdict # "invalid"

\* Everything a fee is computed from has its type, a fee fixed at the stop is one
\* the customer has paid for, and so is whatever was billed.
Sound ==
  /\ stage \in {"charging", "ended", "billed", "review"}
  /\ scheme \in Schemes /\ scheme \in Published
  /\ purchase \in Purchases(scheme) /\ start \in Starts
  /\ drawn \in Seq({0, 1}) /\ Len(drawn) <= MaxTicks
  /\ IsFiniteSet(beats)
  /\ \A b \in beats : b.at \in start..now /\ b.power \in Powers
  /\ cutoff.at \in Int /\ cutoff.fee \in Fees
  /\ cutoff.reason \in {"none", "limit", "automatic_stop", "budget_exhausted"}
  /\ FixedFee => Within(cutoff.fee)
  /\ evidence \in SUBSET Samples /\ IsFiniteSet(evidence)
  /\ Within(bill)
  /\ stage \in {"charging", "ended"} => bill = NoBill

\* The meter of the board never runs backwards.
LEMMA WhFacts ==
  ASSUME Sound, NEW a \in start..now, NEW b \in start..now, a <= b
  PROVE  /\ start \in Nat /\ now \in Nat /\ Len(drawn) \in Nat
         /\ WhAt(a) \in Nat /\ WhAt(b) \in Nat /\ WhAt(a) <= WhAt(b)
<1>1. /\ Len(drawn) \in Nat /\ \A i \in 1..Len(drawn) : drawn[i] \in {0, 1}
  BY DEF Sound
<1>2. start \in Nat /\ now \in Nat /\ now = start + Len(drawn)
  BY <1>1, MeteredConstants DEF Sound, now
<1> DEFINE S == 1..(a - start)
           T == 1..(b - start)
           f == [i \in S |-> drawn[i]]
           g == [i \in T |-> drawn[i]]
<1>3. IsFiniteSet(T) /\ S \in SUBSET T
  <2>1. a - start \in Int /\ b - start \in Int /\ a - start <= b - start
    BY <1>2
  <2>2. IsFiniteSet(T)
    BY <2>1, FS_Interval
  <2> QED
    BY <2>1, <2>2
<1>4. \A i \in T : g[i] \in Nat
  <2>1. T \subseteq 1..Len(drawn)
    BY <1>1, <1>2
  <2> QED
    BY <1>1, <2>1
<1>5. \A i \in S : f[i] = g[i]
  BY <1>3
<1>6. WhAt(a) = SumFunctionOnSet(f, S) /\ WhAt(b) = SumFunctionOnSet(g, T)
  BY DEF WhAt, SumOver
<1> HIDE DEF S, T, f, g
<1>7. IsFiniteSet(S)
  BY <1>3, FS_Subset
<1>8. SumFunctionOnSet(f, S) = SumFunctionOnSet(g, S)
  BY <1>5, <1>7, SumSame
<1>9. /\ SumFunctionOnSet(g, S) \in Nat /\ SumFunctionOnSet(g, T) \in Nat
      /\ SumFunctionOnSet(g, S) <= SumFunctionOnSet(g, T)
  BY <1>3, <1>4, SumSubset
<1> QED
  BY <1>1, <1>2, <1>6, <1>8, <1>9

LEMMA BeatFacts ==
  ASSUME Sound, NEW t, Seen(t)
  PROVE  BeatAt(t) \in beats /\ BeatAt(t).power \in Nat
BY MeteredConstants DEF Sound, Seen, BeatAt

\* The meter of the charge up to any of its instants.
LEMMA MeterAtIsMeter ==
  ASSUME Sound, NEW end \in start..now
  PROVE  MeterAt(end) \in Meters
<1> DEFINE times == [b \in beats |-> b.at]
           read == {b.at : b \in beats} \cap (start..end)
           points == {start, end} \cup read
           next(t) == Min({u \in points : t < u})
           seg == [t \in points \ {end} |-> Segment(t, next(t))]
<1>1. start \in Nat /\ now \in Nat /\ end \in Nat /\ start <= end /\ end <= now
  <2>1. start \in Nat /\ now \in Nat
    BY WhFacts
  <2> QED
    BY <2>1
<1>2. points \subseteq start..end /\ start \in points /\ end \in points
  BY <1>1
<1>3. IsFiniteSet(points)
  <2>1. IsFiniteSet(start..end)
    BY <1>1, FS_Interval
  <2> QED
    BY <1>2, <2>1, FS_Subset
<1>4. \A t \in points \ {end} : next(t) \in start..end /\ t < next(t)
  <2> TAKE t \in points \ {end}
  <2> DEFINE U == {u \in points : t < u}
  <2>1. end \in U
    BY <1>1, <1>2
  <2>2. IsFiniteSet(U) /\ U \in SUBSET Int
    BY <1>1, <1>2, <1>3, FS_Subset
  <2>3. Min(U) \in U
    BY <2>1, <2>2, MinOf
  <2> QED
    BY <1>2, <2>3
<1>5. ASSUME NEW t \in points \ {end} PROVE seg[t] \in Samples
  <2> DEFINE u == next(t)
             reading(x) == IF Seen(x) THEN BeatAt(x).power ELSE 0
             known == Seen(t) /\ u - t <= Minute
  <2>1. t \in start..now /\ u \in start..now /\ t < u
    BY <1>1, <1>2, <1>4
  <2>2. t \in Int /\ u \in Int /\ t <= u
    BY <1>1, <2>1
  <2> HIDE DEF u
  <2>3. WhAt(t) \in Nat /\ WhAt(u) \in Nat /\ WhAt(t) <= WhAt(u)
    BY <2>1, <2>2, WhFacts
  <2>4. reading(t) \in Nat /\ reading(u) \in Nat
    BY BeatFacts
  <2> HIDE DEF reading
  <2> DEFINE x == reading(t)
             y == reading(u)
  <2> HIDE DEF x, y
  <2>5. Max({reading(t), reading(u)}) \in Int
    <3>1. x \in Int /\ y \in Int
      BY <2>4 DEF x, y
    <3>2. Max({x, y}) \in {x, y}
      BY <3>1, MaxOfTwo
    <3> QED
      BY <3>1, <3>2 DEF x, y
  <2>6. Segment(t, u) = [from |-> t, to |-> u, wh |-> WhAt(u) - WhAt(t),
                         power |-> IF known THEN reading(t) ELSE Unknown,
                         peak |-> IF known THEN Max({reading(t), reading(u)}) ELSE 0]
    BY DEF Segment, reading
  <2> HIDE DEF known
  <2>7. Segment(t, u) \in Samples
    BY <2>2, <2>3, <2>4, <2>5, <2>6 DEF Samples, Unknown
  <2> QED
    BY <2>7 DEF u
<1> DEFINE all == {seg[t] : t \in points \ {end}}
<1>6. IsFiniteSet(all) /\ all \subseteq Samples
  <2>1. all \subseteq Samples
    BY <1>5
  <2>2. IsFiniteSet(points \ {end})
    BY <1>3, FS_Subset
  <2> HIDE DEF seg, points
  <2> QED
    BY <2>1, <2>2, ImageFinite
<1>7. MeasuredSegments(end) \in {{}, all}
  BY DEF MeasuredSegments
<1>8. MeasuredSegments(end) \subseteq Samples /\ IsFiniteSet(MeasuredSegments(end))
  BY <1>6, <1>7, FS_EmptySet
<1>9. WhAt(end) \in Nat /\ end - start \in Nat
  <2>1. WhAt(end) \in Nat
    BY <1>1, WhFacts
  <2> QED
    BY <1>1, <2>1
<1> QED
  BY <1>1, <1>8, <1>9 DEF MeterAt, Meters

LEMMA PurchaseFacts ==
  ASSUME Sound
  PROVE  /\ purchase.package \in scheme.packages /\ Price(purchase) \in Nat
         /\ Rule.limit \in Int /\ Limit \in Int
         /\ Mode = "amount" => Written(Rule)
<1>1. /\ scheme \in Published /\ purchase \in Purchases(scheme)
  BY DEF Sound
<1>2. /\ purchase.package \in scheme.packages /\ Price(purchase) \in Nat \ {0}
      /\ purchase.package.minutes \in Int /\ purchase.count \in Nat \ {0}
  BY <1>1, PackageFacts
<1>3. Mode = "amount" => Written(Rule)
  BY <1>1, <1>2, AmountIsWritten DEF Mode, Rule
<1>4. scheme.limit \in Int
  BY <1>1 DEF Published, SchemeRecords
<1>5. Rule.limit \in Int
  BY <1>4 DEF Rule, SpecFor
<1> HIDE DEF Rule
<1>6. Rule.limit * Minute \in Int
  BY <1>5, Sizes
<1>7. purchase.package.minutes * purchase.count * Minute \in Int
  <2> DEFINE c == purchase.package.minutes * purchase.count
  <2>1. c \in Int
    BY <1>2
  <2> HIDE DEF c
  <2>2. c * Minute \in Int
    BY <2>1, Sizes
  <2> QED
    BY <2>2 DEF c
<1>8. Limit \in Int
  BY <1>6, <1>7 DEF Limit
<1> QED
  BY <1>2, <1>3, <1>5, <1>8

LEMMA BilledMeterIsMeter ==
  ASSUME Sound
  PROVE  /\ BilledMeter \in Meters
         /\ BilledMeter.from = start /\ BilledMeter.to <= now
<1> DEFINE frozen == IF cutoff = NoCutoff THEN now ELSE cutoff.at
           A == {now, frozen}
           B == IF Mode = "amount" THEN {start + Limit} ELSE {}
<1>1. start \in Nat /\ now \in Nat /\ now \in start..now
  <2>1. start \in Nat /\ Len(drawn) \in Nat
    BY MeteredConstants DEF Sound
  <2> QED
    BY <2>1 DEF now
<1>2. frozen \in Int /\ start + Limit \in Int
  BY <1>1, PurchaseFacts DEF Sound
<1>3. BilledUntil = Min(A \cup B)
  BY DEF BilledUntil
<1> HIDE DEF frozen
<1>4. IsFiniteSet(A \cup B)
  <2>1. IsFiniteSet({now} \cup {frozen}) /\ IsFiniteSet(B)
    BY FS_Singleton, FS_EmptySet, FS_Union
  <2>2. {now} \cup {frozen} = A
    OBVIOUS
  <2> QED
    BY <2>1, <2>2, FS_Union
<1>5. A \cup B \in SUBSET Int /\ A \cup B # {}
  BY <1>1, <1>2
<1>6. BilledUntil \in Int
  BY <1>3, <1>4, <1>5, MinOf
<1> DEFINE m == CutoffMeter(Rule, MeterAt(now), BilledUntil)
<1>7. m \in Meters /\ m.from = start /\ m.to <= now
  <2>1. MeterAt(now) \in Meters
    BY <1>1, MeterAtIsMeter
  <2>2. MeterAt(now).from = start /\ MeterAt(now).to = now
    BY DEF MeterAt
  <2> QED
    BY <1>6, <2>1, <2>2, CutoffIsMeter
<1>8. BilledMeter \in {m, [m EXCEPT !.segments = evidence]}
  BY DEF BilledMeter
<1> HIDE DEF m
<1>9. /\ [m EXCEPT !.segments = evidence] \in Meters
      /\ [m EXCEPT !.segments = evidence].from = m.from
      /\ [m EXCEPT !.segments = evidence].to = m.to
  BY <1>7 DEF Sound, Meters
<1> QED
  BY <1>7, <1>8, <1>9

\* What is billed is paid for.
LEMMA FeeIsWithin ==
  ASSUME Sound
  PROVE  Within(Fee)
<1>1. CASE FixedFee
  BY <1>1 DEF Sound, Fee
<1>2. CASE ~FixedFee
  <2>1. Fee = SettleSession(scheme, purchase, BilledMeter)
    BY <1>2 DEF Fee
  <2>2. scheme \in Published /\ purchase \in Purchases(scheme)
    BY DEF Sound
  <2> QED
    BY <2>1, <2>2, BilledMeterIsMeter, SettledWithinPrice DEF Within
<1> QED
  BY <1>1, <1>2

LEMMA SoundInit == Init => Sound
<1> SUFFICES ASSUME Init PROVE Sound
  OBVIOUS
<1>1. /\ scheme \in Schemes /\ scheme \in Published /\ purchase \in Purchases(scheme)
  BY MeteredConstants DEF Init, Published
<1>2. Price(purchase) \in Nat
  BY <1>1, PackageFacts
<1>3. Priced(0, 0) \in Fees /\ Priced(0, 0).verdict = "priced" /\ Total(Priced(0, 0)) = 0
  BY DEF Priced, Fees, Total
<1>4. Within(NoBill)
  BY <1>2, <1>3 DEF Within, NoBill
<1>5. /\ NoCutoff.at \in Int /\ NoCutoff.fee \in Fees /\ NoCutoff.reason = "none"
  BY <1>3 DEF NoCutoff
<1>6. drawn \in Seq({0, 1}) /\ Len(drawn) = 0 /\ IsFiniteSet({})
  BY FS_EmptySet DEF Init
<1>7. 0 <= MaxTicks
  BY MeteredConstants
<1> QED
  BY <1>1, <1>4, <1>5, <1>6, <1>7 DEF Init, Sound, FixedFee

\* A charge grows, and nothing recorded of it falls outside.
LEMMA SoundDraw == Sound /\ Draw => Sound'
<1> SUFFICES ASSUME Sound, Draw PROVE Sound'
  OBVIOUS
<1>1. PICK wh \in {0, 1} : drawn' = Append(drawn, wh)
  BY DEF Draw
<1>2. /\ drawn' \in Seq({0, 1}) /\ Len(drawn') = Len(drawn) + 1 /\ Len(drawn) \in Nat
  BY <1>1 DEF Sound
<1>3. Len(drawn') <= MaxTicks
  BY <1>2, MeteredConstants DEF Draw
<1>4. /\ stage' = stage /\ scheme' = scheme /\ purchase' = purchase /\ start' = start
      /\ beats' = beats /\ cutoff' = cutoff /\ evidence' = evidence /\ bill' = bill
  BY DEF Draw, contract
<1>5. start \in Nat
  BY MeteredConstants DEF Sound
<1>6. now' = now + 1 /\ now \in Nat
  BY <1>2, <1>4, <1>5 DEF now
<1>7. \A b \in beats : b.at \in start..now' /\ b.power \in Powers
  BY <1>5, <1>6 DEF Sound
<1> QED
  BY <1>2, <1>3, <1>4, <1>7 DEF Sound, Within, FixedFee

LEMMA SoundHeartbeat == Sound /\ Heartbeat => Sound'
<1> SUFFICES ASSUME Sound, Heartbeat PROVE Sound'
  OBVIOUS
<1>1. PICK w \in Powers : beats' = beats \cup {[at |-> now, power |-> w]}
  BY DEF Heartbeat
<1>2. /\ stage' = stage /\ scheme' = scheme /\ purchase' = purchase /\ start' = start
      /\ drawn' = drawn /\ cutoff' = cutoff /\ evidence' = evidence /\ bill' = bill
      /\ now' = now
  BY DEF Heartbeat, contract, now
<1>3. now \in start..now
  <2>1. start \in Nat /\ Len(drawn) \in Nat
    BY MeteredConstants DEF Sound
  <2> QED
    BY <2>1 DEF now
<1>4. IsFiniteSet(beats')
  BY <1>1, FS_AddElement DEF Sound
<1>5. \A b \in beats' : b.at \in start..now /\ b.power \in Powers
  BY <1>1, <1>3 DEF Sound
<1> QED
  BY <1>2, <1>4, <1>5 DEF Sound, Within, FixedFee

LEMMA SoundEnd == Sound /\ End => Sound'
BY DEF Sound, End, contract, Within, FixedFee, now

\* The last heartbeat.
LEMMA LatestFacts ==
  ASSUME Sound, News
  PROVE  Latest \in beats /\ Latest.at \in start..now
<1> DEFINE at == [b \in beats |-> b.at]
           T == {at[b] : b \in beats}
<1>1. IsFiniteSet(T)
  <2> HIDE DEF at
  <2> QED
    BY ImageFinite DEF Sound
<1>2. start \in Nat /\ now \in Nat
  <2>1. start \in Nat /\ Len(drawn) \in Nat
    BY MeteredConstants DEF Sound
  <2> QED
    BY <2>1 DEF now
<1>3. T \in SUBSET Int /\ T # {}
  BY <1>2 DEF Sound, News
<1>4. PICK b \in beats : b.at = Max(T) /\ \A y \in T : y <= Max(T)
  BY <1>1, <1>3, MaxOf
<1>5. \A c \in beats : c.at <= b.at
  BY <1>4
<1>6. Latest \in beats
  BY <1>5 DEF Latest
<1> QED
  BY <1>6 DEF Sound

\* The fee a stop fixes is what was paid, and the instant it freezes is a time.
LEMMA SoundAutoStop == Sound /\ AutoStop => Sound'
<1> SUFFICES ASSUME Sound, AutoStop PROVE Sound'
  OBVIOUS
<1>1. /\ stage' = stage /\ scheme' = scheme /\ purchase' = purchase /\ start' = start
      /\ drawn' = drawn /\ beats' = beats /\ evidence' = evidence /\ bill' = bill
      /\ now' = now
  BY DEF AutoStop, contract, now
<1>2. start \in Nat /\ now \in Nat
  <2>1. start \in Nat /\ Len(drawn) \in Nat
    BY MeteredConstants DEF Sound
  <2> QED
    BY <2>1 DEF now
<1>3. Limit \in Int /\ Price(purchase) \in Nat
  BY PurchaseFacts
<1> DEFINE Good(c) == /\ c.at \in Int /\ c.fee \in Fees
                      /\ c.reason \in {"limit", "automatic_stop", "budget_exhausted"}
                      /\ c.reason = "budget_exhausted" => Within(c.fee)
<1>4. Good(cutoff')
  <2>1. ASSUME NEW at \in Int, NEW reason \in {"limit", "automatic_stop"},
               Freeze(at, reason, NoPlan)
        PROVE  Good(cutoff')
    BY <2>1 DEF Freeze, NoPlan, Priced, Fees
  <2>2. ASSUME NEW at \in Int, Freeze(at, "limit", NoPlan)
               \/ Freeze(at, "automatic_stop", NoPlan)
        PROVE  Good(cutoff')
    BY <2>1, <2>2
  <2>3. ASSUME Mode = "amount", News,
               NEW plan, plan = BudgetStop(Rule, Price(purchase), MeterAt(Latest.at)),
               Freeze(Latest.at, "budget_exhausted", plan)
        PROVE  Good(cutoff')
    <3>1. Latest.at \in start..now
      BY <2>3, LatestFacts
    <3>2. MeterAt(Latest.at) \in Meters
      BY <3>1, MeterAtIsMeter
    <3>3. Written(Rule)
      BY <2>3, PurchaseFacts
    <3>4. plan.fee \in Fees /\ Total(plan.fee) = Price(purchase) /\ plan.fee.verdict = "priced"
      BY <1>3, <2>3, <3>2, <3>3, StopFeeIsPrice
    <3>5. cutoff' = [at |-> Latest.at, reason |-> "budget_exhausted",
                     exact |-> plan.exact, fee |-> plan.fee]
      BY <2>3 DEF Freeze
    <3> QED
      BY <1>2, <1>3, <3>1, <3>4, <3>5 DEF Within
  <2>4. start + Limit \in Int /\ now \in Int
    BY <1>2, <1>3
  <2> QED
    <3> HIDE DEF Good
    <3> QED
      BY <2>2, <2>3, <2>4 DEF AutoStop
<1>5. FixedFee' => Within(cutoff.fee)'
  BY <1>1, <1>4 DEF FixedFee, Within
<1> QED
  BY <1>1, <1>4, <1>5 DEF Sound, Within

LEMMA SoundBill == Sound /\ Bill => Sound'
<1> SUFFICES ASSUME Sound, Bill PROVE Sound'
  OBVIOUS
<1>1. /\ bill' = Fee /\ stage' \in {"billed", "review"}
      /\ scheme' = scheme /\ purchase' = purchase /\ start' = start
      /\ drawn' = drawn /\ beats' = beats /\ cutoff' = cutoff /\ evidence' = evidence
      /\ now' = now
  BY DEF Bill, contract, now
<1>2. Within(Fee)
  BY FeeIsWithin
<1>3. Within(bill)' /\ (FixedFee' => Within(cutoff.fee)')
  BY <1>1, <1>2 DEF Within, Sound, FixedFee
<1> QED
  BY <1>1, <1>3 DEF Sound

\* What a reviewer supplies are samples of the meter as it was drawn.
LEMMA SoundReview == Sound /\ ReviewMeter => Sound'
<1> SUFFICES ASSUME Sound, ReviewMeter PROVE Sound'
  OBVIOUS
<1>1. /\ stage' = "ended" /\ bill' = NoBill
      /\ scheme' = scheme /\ purchase' = purchase /\ start' = start
      /\ drawn' = drawn /\ beats' = beats /\ cutoff' = cutoff /\ now' = now
  BY DEF ReviewMeter, contract, now
<1>2. PICK w \in Powers : evidence' = Readings(BilledMeter, w)
  BY DEF ReviewMeter
<1> DEFINE ticks == BilledMeter.from..(BilledMeter.to - 1)
           reading == [t \in ticks |-> [from |-> t, to |-> t + 1,
                         wh |-> drawn[t - start + 1], power |-> w, peak |-> w]]
<1>3. /\ start \in Int /\ now = start + Len(drawn) /\ Len(drawn) \in Nat
      /\ \A i \in 1..Len(drawn) : drawn[i] \in {0, 1}
  BY MeteredConstants DEF Sound, now
<1>4. BilledMeter.from = start /\ BilledMeter.to \in Int /\ BilledMeter.to <= now
  BY BilledMeterIsMeter, MeterFacts
<1>5. evidence' = {reading[t] : t \in ticks}
  BY <1>2 DEF Readings
<1>6. \A t \in ticks : reading[t] \in Samples
  <2> TAKE t \in ticks
  <2>1. t \in Int /\ t - start + 1 \in 1..Len(drawn)
    BY <1>3, <1>4
  <2>2. drawn[t - start + 1] \in Nat /\ w \in Nat
    BY <1>3, <2>1, MeteredConstants
  <2> QED
    BY <2>1, <2>2 DEF Samples
<1>7. IsFiniteSet(ticks)
  <2> DEFINE a == BilledMeter.from
             b == BilledMeter.to - 1
  <2>1. a \in Int /\ b \in Int
    BY <1>3, <1>4
  <2> HIDE DEF a, b
  <2>2. IsFiniteSet(a..b)
    BY <2>1, FS_Interval
  <2> QED
    BY <2>2 DEF a, b
<1>8. evidence' \subseteq Samples /\ IsFiniteSet(evidence')
  <2>1. evidence' \subseteq Samples
    BY <1>5, <1>6
  <2> HIDE DEF reading, ticks
  <2> QED
    BY <1>5, <1>7, <2>1, ImageFinite
<1>9. Within(NoBill)
  <2>1. Price(purchase) \in Nat
    BY PurchaseFacts
  <2> QED
    BY <2>1 DEF Within, NoBill, Priced, Fees, Total
<1>10. Within(bill)' /\ (FixedFee' => Within(cutoff.fee)')
  BY <1>1, <1>9 DEF Within, Sound, FixedFee, NoBill
<1>11. NoBill' = NoBill
  BY DEF NoBill
<1> QED
  BY <1>1, <1>8, <1>10, <1>11 DEF Sound

(* Every state of a charge is sound, whatever was drawn, seen and missed, for *)
(* every scheme that could be published.                                      *)
THEOREM SoundInvariance == Spec => []Sound
<1>1. Sound /\ [Next]_vars => Sound'
  <2> SUFFICES ASSUME Sound, [Next]_vars PROVE Sound'
    OBVIOUS
  <2>1. CASE Draw
    BY <2>1, SoundDraw
  <2>2. CASE Heartbeat
    BY <2>2, SoundHeartbeat
  <2>3. CASE End
    BY <2>3, SoundEnd
  <2>4. CASE AutoStop
    BY <2>4, SoundAutoStop
  <2>5. CASE Bill
    BY <2>5, SoundBill
  <2>6. CASE ReviewMeter
    BY <2>6, SoundReview
  <2>7. CASE UNCHANGED vars
    BY <2>7 DEF vars, Sound, Within, FixedFee, now
  <2> QED
    BY <2>1, <2>2, <2>3, <2>4, <2>5, <2>6, <2>7 DEF Next
<1> QED
  BY <1>1, SoundInit, PTL DEF Spec

(* Fees are whole cents with no negative part, and only a charge that has     *)
(* ended has a bill.                                                          *)
THEOREM MeteredTypesHold == Spec => []MeteredTypeOK
<1>1. Sound => MeteredTypeOK
  BY DEF Sound, Within, MeteredTypeOK, Fees
<1> QED
  BY <1>1, SoundInvariance, PTL

(* A purchase is always settled at a fee within what was paid, or reviewed,   *)
(* if no scheme was published with more free time than ValidateSpec accepts:  *)
(* Scheme.Validate does not check that (spec.go:180).                         *)
THEOREM BilledWithinPaid ==
  ASSUME \A s \in Schemes : s.free <= MaxFree
  PROVE  Spec => []SettlesWithinPaid
<1>1. Sound => SettlesWithinPaid
  BY DEF Sound, Within, SettlesWithinPaid
<1> QED
  BY <1>1, SoundInvariance, PTL

---------------------------------------------------------------------------
(* Slices and ticks.  The slices of a charge are its ticks, put together   *)
(* where nothing changes: every tick of the billed minutes is in exactly   *)
(* one, and has its sample, its period and its price.                      *)

Followed(m) == m \in Meters /\ Chained(m) /\ m.from <= m.to
Ticks(m) == m.from..(EndOf(m) - 1)
In(x) == x.from..(x.to - 1)

LEMMA EndFacts ==
  ASSUME NEW m, Followed(m)
  PROVE  /\ m.from \in Int /\ m.to \in Int /\ EndOf(m) \in Int
         /\ m.from <= EndOf(m) /\ EndOf(m) <= m.to
         /\ WholeMinutes(m) \in Nat
         /\ WholeMinutes(m) > 0 <=> Ticks(m) # {}
<1> DEFINE w == WholeMinutes(m)
           d == m.to - m.from
<1>1. m.from \in Int /\ m.to \in Int /\ d \in Nat
  BY MeterFacts DEF Followed
<1>2. w \in Nat /\ d = Minute * w + (d % Minute) /\ d % Minute \in 0..(Minute - 1)
  <2>1. w = d \div Minute
    BY DEF WholeMinutes
  <2>2. d \in Nat /\ d \in Int
    BY <1>1
  <2> HIDE DEF d, w
  <2>3. d \div Minute \in Nat
    BY <2>2, Sizes, QuotientNat
  <2>4. d = Minute * (d \div Minute) + (d % Minute) /\ d % Minute \in 0..(Minute - 1)
    BY <2>2, Sizes, Divided
  <2> QED
    BY <2>1, <2>3, <2>4
<1>3. EndOf(m) = m.from + w * Minute
  BY DEF EndOf
<1> HIDE DEF w
<1>4. w * Minute = Minute * w /\ Minute * w \in Nat
  BY <1>2, Sizes
<1>5. w > 0 <=> Minute * w > 0
  BY <1>2, Sizes
<1>6. /\ EndOf(m) \in Int /\ m.from <= EndOf(m)
      /\ w > 0 <=> m.from < EndOf(m)
  BY <1>1, <1>3, <1>4, <1>5
<1>7. EndOf(m) <= m.to
  BY <1>1, <1>2, <1>3, <1>4, Sizes
<1> QED
  BY <1>1, <1>2, <1>6, <1>7 DEF w, Ticks

\* What each slice is.
LEMMA SliceIsPart ==
  ASSUME NEW spec, Priceable(spec), NEW m, Followed(m), NEW x \in Slices(spec, m)
  PROVE  /\ x.from \in Int /\ x.to \in Int /\ x.from < x.to
         /\ In(x) \subseteq Ticks(m) /\ x.from \in In(x)
         /\ \A t \in In(x) : /\ RateAt(spec, t) = x.period
                             /\ Boundary(spec, t) = Boundary(spec, x.from)
         /\ \E s \in m.segments :
              /\ x \in SlicesOf(spec, s, EndOf(m)) /\ x.watts = Watts(spec, s)
              /\ \A t \in In(x) : At(s, t)
<1>1. PICK s \in m.segments : x \in SlicesOf(spec, s, EndOf(m))
  BY DEF Slices
<1>2. /\ s \in Samples /\ s.from \in Int /\ s.to \in Int /\ m.from <= s.from
  BY MeterFacts DEF Followed, Chained
<1>3. m.from \in Int /\ EndOf(m) \in Int
  BY EndFacts
<1>4. /\ x.from \in Cuts(spec, s, EndOf(m)) /\ x.from \in Int /\ x.to \in Int
      /\ x.from < x.to
      /\ x.to <= s.to /\ x.to <= EndOf(m) /\ x.to <= Boundary(spec, x.from)
      /\ x.watts = Watts(spec, s) /\ x.period = RateAt(spec, x.from)
  BY <1>1, <1>2, <1>3, SliceOfFacts, ZenonT(60)
<1>5. /\ Boundary(spec, x.from) \in Int
      /\ \A u \in x.from..(Boundary(spec, x.from) - 1) :
           RateAt(spec, u) = RateAt(spec, x.from) /\ Boundary(spec, u) = Boundary(spec, x.from)
  BY <1>4, BoundaryFacts
<1>7. s.from <= x.from
  <2>1. Min({s.to, EndOf(m)}) \in Int
    BY <1>2, <1>3, MinOfTwo
  <2>2. x.from \in s.from..(Min({s.to, EndOf(m)}) - 1)
    BY <1>4 DEF Cuts
  <2> QED
    BY <1>2, <2>1, <2>2
<1>8. In(x) \subseteq Ticks(m) /\ x.from \in In(x)
  BY <1>2, <1>3, <1>4, <1>7 DEF In, Ticks
<1>9. \A t \in In(x) : At(s, t)
  BY <1>2, <1>4, <1>7 DEF In, At
<1>10. \A t \in In(x) : RateAt(spec, t) = x.period /\ Boundary(spec, t) = Boundary(spec, x.from)
  BY <1>4, <1>5 DEF In
<1> QED
  BY <1>1, <1>4, <1>8, <1>9, <1>10

\* No tick is in two slices.
LEMMA SlicesAreApart ==
  ASSUME NEW spec, Priceable(spec), NEW m, Followed(m),
         NEW x \in Slices(spec, m), NEW y \in Slices(spec, m), In(x) \cap In(y) # {}
  PROVE  x = y
<1>1. PICK t : t \in In(x) /\ t \in In(y)
  OBVIOUS
<1>2. PICK s \in m.segments : x \in SlicesOf(spec, s, EndOf(m)) /\ At(s, t)
  BY <1>1, SliceIsPart
<1>3. PICK r \in m.segments : y \in SlicesOf(spec, r, EndOf(m)) /\ At(r, t)
  BY <1>1, SliceIsPart
<1>4. /\ s \in Samples /\ s.from \in Int /\ s.to \in Int
      /\ r \in Samples /\ r.from \in Int /\ r.to \in Int
  BY MeterFacts DEF Followed
<1>5. t \in Int /\ m.from \in Int /\ EndOf(m) \in Int
  <2>1. x.from \in Int /\ x.to \in Int
    BY SliceIsPart
  <2> QED
    BY <1>1, <2>1, EndFacts DEF In
<1>6. r = s
  <2>1. r.from < s.to /\ s.from < r.to
    BY <1>2, <1>3, <1>4, <1>5 DEF At
  <2> QED
    BY <2>1 DEF Followed, Chained
<1>7. ASSUME NEW a \in SlicesOf(spec, s, EndOf(m)), NEW b \in SlicesOf(spec, s, EndOf(m)),
             t \in In(a), t \in In(b)
      PROVE  ~ a.from < b.from
  <2> SUFFICES ASSUME a.from < b.from PROVE FALSE
    OBVIOUS
  <2>1. /\ a.from \in Int /\ a.to \in Int /\ a.from \in Cuts(spec, s, EndOf(m))
        /\ a.to <= Boundary(spec, a.from)
        /\ b.from \in Int /\ b.to \in Int /\ b.from \in Cuts(spec, s, EndOf(m))
    <3>1. s \in Samples /\ EndOf(m) \in Int
      BY <1>4, <1>5
    <3>2. \A z \in SlicesOf(spec, s, EndOf(m)) :
            /\ z.from \in Int /\ z.to \in Int /\ z.from \in Cuts(spec, s, EndOf(m))
            /\ z.to <= Boundary(spec, z.from)
      BY <3>1, SliceOfFacts
    <3> QED
      BY <3>2
  <2>2. /\ Boundary(spec, a.from) \in Int
        /\ \A u \in a.from..(Boundary(spec, a.from) - 1) :
             Boundary(spec, u) = Boundary(spec, a.from)
    BY <2>1, BoundaryFacts
  <2>4. b.from <= t /\ t < a.to
    BY <1>5, <1>7, <2>1 DEF In
  <2>5. b.from # s.from /\ Boundary(spec, b.from - 1) = b.from
    <3>1. Min({s.to, EndOf(m)}) \in Int
      BY <1>4, <1>5, MinOfTwo
    <3>2. a.from \in s.from..(Min({s.to, EndOf(m)}) - 1)
      BY <2>1 DEF Cuts
    <3>3. s.from <= a.from
      BY <1>4, <2>1, <3>1, <3>2
    <3>4. b.from # s.from
      BY <1>4, <2>1, <3>3
    <3> QED
      BY <2>1, <3>4 DEF Cuts
  <2>6. b.from - 1 \in a.from..(Boundary(spec, a.from) - 1)
    BY <1>5, <2>1, <2>2, <2>4
  <2>7. Boundary(spec, a.from) = b.from
    BY <2>2, <2>5, <2>6
  <2> QED
    BY <1>5, <2>1, <2>2, <2>4, <2>7
<1>8. y \in SlicesOf(spec, s, EndOf(m))
  BY <1>3, <1>6
<1>9. x.from \in Int /\ y.from \in Int
  BY <1>2, <1>4, <1>5, <1>8, SliceOfFacts
<1>10. x.from = y.from
  BY <1>1, <1>2, <1>7, <1>8, <1>9
<1> QED
  <2>1. PICK i \in Cuts(spec, s, EndOf(m)) :
          x = [from |-> i, to |-> Min({s.to, EndOf(m), Boundary(spec, i)}),
               watts |-> Watts(spec, s), period |-> RateAt(spec, i)]
    BY <1>2 DEF SlicesOf
  <2>2. PICK j \in Cuts(spec, s, EndOf(m)) :
          y = [from |-> j, to |-> Min({s.to, EndOf(m), Boundary(spec, j)}),
               watts |-> Watts(spec, s), period |-> RateAt(spec, j)]
    BY <1>8 DEF SlicesOf
  <2>3. i = j
    BY <1>10, <2>1, <2>2
  <2> QED
    BY <2>1, <2>2, <2>3

\* Every tick of the billed minutes is in a slice.
LEMMA SlicesCover ==
  ASSUME NEW spec, Priceable(spec), NEW m, Followed(m), NEW t \in Ticks(m)
  PROVE  \E x \in Slices(spec, m) : t \in In(x)
<1> DEFINE end == EndOf(m)
<1>1. /\ m.from \in Int /\ m.to \in Int /\ end \in Int /\ end <= m.to
      /\ t \in Int /\ m.from <= t /\ t < end
  BY EndFacts DEF Ticks
<1> HIDE DEF end
<1>2. PICK s \in m.segments : At(s, t)
  <2>1. t \in m.from..(m.to - 1)
    BY <1>1
  <2> QED
    BY <2>1 DEF Followed, Chained
<1>3. /\ s \in Samples /\ s.from \in Int /\ s.to \in Int /\ s.from <= t /\ t < s.to
  BY <1>2, MeterFacts DEF Followed, At
<1> DEFINE last == Min({s.to, end})
           C == {c \in Cuts(spec, s, end) : c <= t}
<1>4. last \in Int /\ t < last
  <2>1. Min({s.to, end}) \in {s.to, end}
    BY <1>1, <1>3, MinOfTwo
  <2> QED
    BY <1>1, <1>3, <2>1
<1> HIDE DEF last
<1>5. \A c \in Cuts(spec, s, end) : c \in Int /\ s.from <= c /\ c < last
  BY <1>3, <1>4 DEF Cuts, last
<1>6. s.from \in Cuts(spec, s, end)
  <2>1. s.from \in s.from..(last - 1)
    BY <1>1, <1>3, <1>4
  <2> QED
    BY <2>1 DEF Cuts, last
<1>7. Max(C) \in C /\ \A c \in C : c <= Max(C)
  <2>1. C \in SUBSET (s.from..t)
    BY <1>1, <1>3, <1>5
  <2>2. IsFiniteSet(s.from..t)
    BY <1>1, <1>3, FS_Interval
  <2>3. IsFiniteSet(C)
    BY <2>1, <2>2, FS_Subset
  <2>4. C \in SUBSET Int /\ C # {}
    BY <1>3, <1>5, <1>6
  <2> QED
    BY <2>3, <2>4, MaxOf
<1> DEFINE c == Max(C)
           b == Boundary(spec, c)
<1>8. c \in Cuts(spec, s, end) /\ c <= t /\ c \in Int /\ s.from <= c
  BY <1>5, <1>7
<1>9. \A d \in Cuts(spec, s, end) : d <= t => d <= c
  BY <1>7
<1> HIDE DEF c, C
<1>10. b \in Int /\ c < b /\ \A u \in c..(b - 1) : Boundary(spec, u) = b
  BY <1>8, BoundaryFacts
<1> HIDE DEF b
<1>11. t < b
  <2> SUFFICES ASSUME b <= t PROVE FALSE
    BY <1>1, <1>10
  <2>1. b - 1 \in c..(b - 1) /\ b \in s.from..(last - 1)
    BY <1>1, <1>3, <1>4, <1>8, <1>10
  <2>2. b \in Cuts(spec, s, end)
    BY <1>10, <2>1 DEF Cuts, last
  <2> QED
    BY <1>8, <1>9, <1>10, <2>2
<1> DEFINE to == Min({s.to, end, b})
           x == [from |-> c, to |-> to, watts |-> Watts(spec, s), period |-> RateAt(spec, c)]
<1>12. x \in Slices(spec, m)
  <2>1. x \in SlicesOf(spec, s, end)
    BY <1>8 DEF SlicesOf, b
  <2> QED
    BY <2>1 DEF Slices, end
<1>13. t < to /\ to \in Int
  <2>1. to \in {s.to, end, b}
    BY <1>1, <1>3, <1>10, MinOfThree
  <2> QED
    BY <1>1, <1>3, <1>10, <1>11, <2>1
<1> HIDE DEF to
<1>14. t \in In(x)
  BY <1>1, <1>8, <1>13 DEF In
<1> QED
  BY <1>12, <1>14

\* The sample a tick lies in.
SampleAt(m, t) == CHOOSE s \in m.segments : At(s, t)

LEMMA SampleFacts ==
  ASSUME NEW m, Followed(m), NEW t, NEW s \in m.segments, At(s, t), t \in Int
  PROVE  SampleAt(m, t) = s
<1>1. \A r \in m.segments : At(r, t) => r = s
  <2> SUFFICES ASSUME NEW r \in m.segments, At(r, t) PROVE r = s
    OBVIOUS
  <2>1. /\ s.from \in Int /\ s.to \in Int /\ r.from \in Int /\ r.to \in Int
    BY MeterFacts DEF Followed
  <2>2. r.from < s.to /\ s.from < r.to
    BY <2>1 DEF At
  <2> QED
    BY <2>2 DEF Followed, Chained
<1> QED
  BY <1>1 DEF SampleAt

\* Ticks of the same period of one day.
Alike(spec, m, t) ==
  {u \in Ticks(m) : u \div Day = t \div Day /\ PeriodAt(spec, u) = PeriodAt(spec, t)}

\* The highest power of the slices of a period is that of its ticks.
LEMMA PeakIsReference ==
  ASSUME NEW spec, Priceable(spec), spec.mode = "peak", NEW m, Followed(m),
         NEW x \in Slices(spec, m), NEW t \in In(x)
  PROVE  Top(Piece(spec, Slices(spec, m), PieceOf(spec, x)))
           = Max({SampleAt(m, u).peak : u \in Alike(spec, m, t)})
<1> DEFINE S == Slices(spec, m)
           Q == {q \in S : Boundary(spec, q.from) = Boundary(spec, x.from)}
<1>1. /\ \A u \in Ticks(m) : u \in Int
      /\ \A q \in S : q.from \in Int /\ q.to \in Int /\ \A u \in In(q) : u \in Int
  <2>1. m.from \in Int /\ EndOf(m) \in Int
    BY EndFacts
  <2>2. \A q \in S : q.from \in Int /\ q.to \in Int
    BY SliceIsPart
  <2> QED
    BY <2>1, <2>2 DEF Ticks, In
<1>2. t \in Int /\ Boundary(spec, t) = Boundary(spec, x.from)
  BY <1>1, SliceIsPart
<1>3. ASSUME NEW q \in S, NEW u \in In(q)
      PROVE  SampleAt(m, u).peak = q.watts
  <2>1. PICK s \in m.segments : q.watts = Watts(spec, s) /\ At(s, u)
    BY <1>3, SliceIsPart
  <2>2. u \in Int
    BY <1>1
  <2>3. SampleAt(m, u) = s
    BY <2>1, <2>2, SampleFacts
  <2> QED
    BY <2>1, <2>3 DEF Watts
<1>4. ASSUME NEW q \in Q
      PROVE  \E u \in Alike(spec, m, t) : SampleAt(m, u).peak = q.watts
  <2>1. q.from \in In(q) /\ q.from \in Ticks(m)
    BY SliceIsPart
  <2>2. q.from \in Alike(spec, m, t)
    BY <1>1, <1>2, <2>1, SamePeriod DEF Alike
  <2> QED
    BY <1>3, <2>1, <2>2
<1>5. ASSUME NEW u \in Alike(spec, m, t)
      PROVE  \E q \in Q : SampleAt(m, u).peak = q.watts
  <2>1. u \in Ticks(m)
    BY DEF Alike
  <2>2. PICK q \in S : u \in In(q)
    BY <2>1, SlicesCover
  <2>3. Boundary(spec, u) = Boundary(spec, q.from)
    BY <2>2, SliceIsPart
  <2>4. Boundary(spec, u) = Boundary(spec, t)
    BY <1>1, <1>2, <2>1, SamePeriod DEF Alike
  <2> QED
    BY <1>2, <1>3, <2>2, <2>3, <2>4
<1>6. {q.watts : q \in Q} = {SampleAt(m, u).peak : u \in Alike(spec, m, t)}
  <2> HIDE DEF Q
  <2> QED
    BY <1>4, <1>5
<1>7. Piece(spec, S, PieceOf(spec, x)) = Q
  BY DEF Piece, PieceOf
<1> QED
  BY <1>6, <1>7 DEF Top

\* The power a tick is priced by, and what a charge costs tick by tick.
WattsAt(spec, m, t) ==
  IF spec.mode = "peak" THEN Max({SampleAt(m, u).peak : u \in Alike(spec, m, t)})
  ELSE SampleAt(m, t).power

ClockCost(spec, m, part) ==
  SumOver(Ticks(m), LAMBDA t : TierFor(RateAt(spec, t), WattsAt(spec, m, t))[part])

\* The slices of a piece are of one period; by its own power each slice is a piece.
LEMMA PiecePrice ==
  ASSUME NEW spec, Priceable(spec), spec.mode \in ByPower, NEW m, Followed(m),
         NEW k, NEW x \in Piece(spec, Slices(spec, m), k), NEW part \in Parts
  PROVE  LET piece == Piece(spec, Slices(spec, m), k)
         IN  /\ PriceOf(piece, part) = TierFor(RateAt(spec, x.from), Top(piece))[part]
             /\ spec.mode = "realtime" => Top(piece) = x.watts /\ piece = {x}
<1> DEFINE S == Slices(spec, m)
           piece == Piece(spec, S, k)
           c == CHOOSE s \in piece : TRUE
<1>1. \A y \in piece : /\ y \in S /\ PieceOf(spec, y) = PieceOf(spec, x)
                       /\ y.from \in Int /\ y.from \in In(y) /\ y.period = RateAt(spec, y.from)
  <2> TAKE y \in piece
  <2>1. y \in S /\ PieceOf(spec, y) = k /\ PieceOf(spec, x) = k
    BY DEF Piece
  <2>2. y.from \in Int /\ y.from \in In(y) /\ y.period = RateAt(spec, y.from)
    BY <2>1, SliceIsPart, SliceFacts DEF Followed
  <2> QED
    BY <2>1, <2>2
<1>2. c \in piece /\ x \in piece
  OBVIOUS
<1>3. PriceOf(piece, part) = TierFor(c.period, Top(piece))[part]
  BY DEF PriceOf
<1>4. CASE spec.mode = "peak"
  <2> HIDE DEF S, c
  <2>1. Boundary(spec, c.from) = Boundary(spec, x.from)
    BY <1>1, <1>2, <1>4 DEF PieceOf
  <2>2. PeriodAt(spec, c.from) = PeriodAt(spec, x.from)
    BY <1>1, <1>2, <2>1, SamePeriod
  <2>3. c.period = RateAt(spec, x.from)
    BY <1>1, <1>2, <2>2 DEF RateAt
  <2> QED
    BY <1>3, <1>4, <2>3 DEF S
<1>5. CASE spec.mode = "realtime"
  <2>1. ASSUME NEW y \in piece PROVE y = x
    <3>1. y.from = x.from
      BY <1>1, <1>5 DEF PieceOf
    <3>2. x.from \in In(x) /\ x.from \in In(y) /\ x \in S /\ y \in S
      BY <1>1, <1>2, <3>1
    <3>3. In(x) \cap In(y) # {}
      BY <3>2
    <3> QED
      BY <3>2, <3>3, SlicesAreApart
  <2>2. piece = {x}
    BY <1>2, <2>1
  <2> HIDE DEF piece, S
  <2>3. c = x
    BY <2>2
  <2>4. {s.watts : s \in piece} = {x.watts}
    BY <2>2
  <2>5. m \in Meters /\ x \in S
    BY <1>1, <1>2 DEF Followed
  <2>6. x.watts \in Int
    BY <2>5, SliceFacts DEF S
  <2>7. Max({x.watts, x.watts}) \in {x.watts, x.watts}
    BY <2>6, MaxOfTwo
  <2>8. {x.watts, x.watts} = {x.watts}
    OBVIOUS
  <2>9. Top(piece) = x.watts
    BY <2>4, <2>7, <2>8 DEF Top
  <2>10. c.period = RateAt(spec, x.from)
    BY <1>1, <1>2, <2>3
  <2> HIDE DEF c
  <2> QED
    BY <1>3, <2>2, <2>9, <2>10 DEF piece, S
<1> QED
  BY <1>4, <1>5 DEF ByPower

\* Every slice is priced as each of its ticks.
LEMMA TickPrices ==
  ASSUME NEW spec, Priceable(spec), spec.mode \in ByPower, NEW m, Followed(m),
         NEW x \in Slices(spec, m), NEW t \in In(x), NEW part \in Parts
  PROVE  PriceOf(Piece(spec, Slices(spec, m), PieceOf(spec, x)), part)
           = TierFor(RateAt(spec, t), WattsAt(spec, m, t))[part]
<1> DEFINE piece == Piece(spec, Slices(spec, m), PieceOf(spec, x))
<1>1. x \in piece
  BY DEF Piece
<1>2. /\ PriceOf(piece, part) = TierFor(RateAt(spec, x.from), Top(piece))[part]
      /\ spec.mode = "realtime" => Top(piece) = x.watts
  BY <1>1, PiecePrice
<1>3. RateAt(spec, t) = x.period /\ x.period = RateAt(spec, x.from)
  BY SliceIsPart, SliceFacts DEF Followed
<1>4. Top(piece) = WattsAt(spec, m, t)
  <2>1. CASE spec.mode = "peak"
    BY <2>1, PeakIsReference DEF WattsAt
  <2>2. CASE spec.mode = "realtime"
    <3>1. PICK s \in m.segments : x.watts = Watts(spec, s) /\ At(s, t)
      BY SliceIsPart
    <3>2. t \in Int
      <4>1. x.from \in Int /\ x.to \in Int
        BY SliceIsPart
      <4> QED
        BY <4>1 DEF In
    <3>3. SampleAt(m, t) = s
      BY <3>1, <3>2, SampleFacts
    <3> QED
      BY <1>2, <2>2, <3>1, <3>3 DEF Watts, WattsAt
  <2> QED
    BY <2>1, <2>2 DEF ByPower
<1> QED
  BY <1>2, <1>3, <1>4

\* The ticks of the slices, each at the price of its piece, are those of the clock.
LEMMA CostByTheClock ==
  ASSUME NEW spec, Priceable(spec), spec.mode \in ByPower, NEW m, Followed(m),
         NEW part \in Parts
  PROVE  LET S == Slices(spec, m)
             f == [x \in S |-> (x.to - x.from)
                                 * PriceOf(Piece(spec, S, PieceOf(spec, x)), part)]
         IN  /\ \A x \in S : f[x] \in Nat
             /\ SumFunctionOnSet(f, S) = ClockCost(spec, m, part)
<1> DEFINE S == Slices(spec, m)
           v == [x \in S |-> PriceOf(Piece(spec, S, PieceOf(spec, x)), part)]
           in == [x \in S |-> In(x)]
           f == [x \in S |-> (x.to - x.from)
                               * PriceOf(Piece(spec, S, PieceOf(spec, x)), part)]
           g == [t \in Ticks(m) |-> TierFor(RateAt(spec, t), WattsAt(spec, m, t))[part]]
<1>1. IsFiniteSet(S)
  BY SliceFacts DEF Followed
<1>2. ASSUME NEW x \in S
      PROVE  /\ IsFiniteSet(in[x]) /\ v[x] \in Int /\ f[x] = v[x] * Cardinality(in[x])
             /\ f[x] \in Nat
             /\ \A t \in in[x] : g[t] = v[x]
  <2>1. x.from \in Int /\ x.to \in Int /\ x.from < x.to /\ x.period = RateAt(spec, x.from)
    BY SliceFacts DEF Followed
  <2>2. v[x] \in Nat
    <3>1. PieceOf(spec, x) \in Keys(spec, S)
      BY DEF Keys
    <3> QED
      BY <3>1, PieceFacts DEF Followed
  <2>3. IsFiniteSet(In(x)) /\ Cardinality(In(x)) = x.to - x.from
    <3> DEFINE a == x.from
               b == x.to - 1
    <3>1. a \in Int /\ b \in Int /\ a <= b /\ b - a + 1 = x.to - x.from
      BY <2>1
    <3>2. In(x) = a..b
      BY DEF In
    <3> HIDE DEF a, b
    <3> QED
      BY <3>1, <3>2, FS_Interval
  <2>4. f[x] = (x.to - x.from) * v[x]
    OBVIOUS
  <2>5. f[x] = v[x] * Cardinality(In(x)) /\ f[x] \in Nat
    <3> DEFINE n == x.to - x.from
               y == v[x]
               z == f[x]
    <3>1. n \in Nat /\ y \in Nat /\ z = n * y /\ Cardinality(In(x)) = n
      BY <2>1, <2>2, <2>3, <2>4
    <3> HIDE DEF n, y, z
    <3>2. z = y * n /\ z \in Nat
      BY <3>1
    <3> QED
      BY <3>1, <3>2 DEF y, z
  <2>6. ASSUME NEW t \in In(x) PROVE g[t] = v[x]
    <3>1. t \in Ticks(m)
      BY SliceIsPart
    <3>2. v[x] = TierFor(RateAt(spec, t), WattsAt(spec, m, t))[part]
      BY TickPrices
    <3> HIDE DEF v
    <3> QED
      BY <3>1, <3>2
  <2>7. v[x] \in Int
    BY <2>2
  <2> QED
    BY <2>3, <2>5, <2>6, <2>7
<1>3. \A x, y \in S : x # y => in[x] \cap in[y] = {}
  BY SlicesAreApart
<1>4. UNION {in[x] : x \in S} = Ticks(m)
  <2>1. \A x \in S : in[x] \subseteq Ticks(m)
    BY SliceIsPart
  <2>2. \A t \in Ticks(m) : \E x \in S : t \in in[x]
    BY SlicesCover
  <2> HIDE DEF in
  <2> QED
    BY <2>1, <2>2
<1>5. ClockCost(spec, m, part) = SumFunctionOnSet(g, Ticks(m))
  BY DEF ClockCost, SumOver
<1>6. \A x \in S : f[x] \in Nat
  BY <1>2
<1> HIDE DEF v, in, f, g
<1>7. SumFunctionOnSet(f, S) = SumFunctionOnSet(g, UNION {in[x] : x \in S})
  <2> HIDE DEF S
  <2>1. /\ \A x \in S : IsFiniteSet(in[x])
        /\ \A x \in S : v[x] \in Int
        /\ \A x \in S : f[x] = v[x] * Cardinality(in[x])
        /\ \A x \in S : \A t \in in[x] : g[t] = v[x]
    BY <1>2
  <2> QED
    BY <1>1, <1>3, <2>1, SumCover
<1> QED
  BY <1>4, <1>5, <1>6, <1>7 DEF f

\* The minutes of a slice are out by half of the last digit kept, at most.
LEMMA MinutesNear ==
  ASSUME NEW x, x.from \in Int, x.to \in Int, x.from < x.to
  PROVE  (2 * Minute) * MinutesOf(x) - (2 * Precision) * (x.to - x.from) \in (-Minute)..Minute
<1> DEFINE d == x.to - x.from
           n == d * Precision
           q == MinutesOf(x)
<1>1. d \in Nat /\ n \in Nat /\ (2 * Precision) * d = 2 * n
  <2>1. d \in Nat
    OBVIOUS
  <2> HIDE DEF d
  <2> QED
    BY <2>1, Sizes
<1>2. q = Rounded(n, Minute)
  BY DEF MinutesOf
<1> HIDE DEF n, q
<1>3. (2 * Minute) * q - 2 * n \in (-Minute)..Minute
  BY <1>1, <1>2, RoundedNear, Sizes
<1> QED
  BY <1>1, <1>3 DEF q

\* The share of the clock's error a piece of so many slices may have.
Share(n) == (Minute * (HourMinutes + MaxRate)) * n

\* A number near another, times a price, divided and kept to the last digit.
LEMMA QuotientNear ==
  ASSUME NEW q \in Nat, NEW d \in Nat, NEW n \in Nat \ {0}, NEW v \in Nat, v <= MaxRate,
         (2 * Minute) * q - (2 * Precision) * d \in (-(Minute * n))..(Minute * n),
         NEW c, c = Rounded(v * q, HourMinutes)
  PROVE  ((2 * HourMinutes) * Minute) * c - (2 * Precision) * (v * d)
           \in (-Share(n))..Share(n)
<1> USE Sizes
<1> DEFINE a == (2 * Minute) * q
           b == (2 * Precision) * d
           w == Minute * n
           x == (2 * HourMinutes) * c
           y == v * q
<1>1. a \in Int /\ b \in Int /\ w \in Nat /\ y \in Nat /\ a - b <= w /\ b - a <= w
  OBVIOUS
<1>2. c \in Nat /\ x - 2 * y \in (-HourMinutes)..HourMinutes
  BY <1>1, RoundedNear
<1>3. x \in Int /\ x - 2 * y <= HourMinutes /\ 2 * y - x <= HourMinutes
  <2>1. x \in Int
    BY <1>2
  <2> QED
    BY <1>1, <1>2, <2>1
<1>4. ((2 * HourMinutes) * Minute) * c = Minute * x
  BY <1>2
<1>5. (2 * Precision) * (v * d) = v * b
  OBVIOUS
<1>6. v * a = Minute * (2 * y)
  OBVIOUS
<1>7. Share(n) = Minute * (HourMinutes * n) + MaxRate * w
  BY DEF Share
<1> HIDE DEF a, b, w, x, y
<1>8. /\ Minute * (x - 2 * y) <= Minute * HourMinutes
      /\ Minute * (2 * y - x) <= Minute * HourMinutes
      /\ Minute * (x - 2 * y) = Minute * x - Minute * (2 * y)
      /\ Minute * (2 * y - x) = Minute * (2 * y) - Minute * x
  BY <1>1, <1>3
<1>9. /\ v * (a - b) <= v * w /\ v * (b - a) <= v * w
      /\ v * (a - b) = v * a - v * b /\ v * (b - a) = v * b - v * a
      /\ v * w <= MaxRate * w
  BY <1>1
<1>10. Minute * HourMinutes <= Minute * (HourMinutes * n)
  OBVIOUS
<1>11. /\ Minute * x \in Int /\ Minute * (2 * y) \in Int /\ v * a \in Int /\ v * b \in Int
       /\ v * w \in Int /\ MaxRate * w \in Int /\ Minute * HourMinutes \in Int
       /\ Minute * (HourMinutes * n) \in Int
  BY <1>1, <1>3
<1> QED
  BY <1>4, <1>5, <1>6, <1>7, <1>8, <1>9, <1>10, <1>11

\* What a piece costs is that near to its ticks.
LEMMA PieceNear ==
  ASSUME NEW spec, Priceable(spec), spec.mode \in ByPower, NEW m, Followed(m),
         NEW k \in Keys(spec, Slices(spec, m)), NEW part \in Parts,
         NEW f, \A x \in Slices(spec, m) :
                  f[x] = (x.to - x.from)
                           * PriceOf(Piece(spec, Slices(spec, m), PieceOf(spec, x)), part)
  PROVE  LET piece == Piece(spec, Slices(spec, m), k)
         IN  /\ SumFunctionOnSet(f, piece) \in Int
             /\ ((2 * HourMinutes) * Minute) * PieceCost(piece, part)
                  - (2 * Precision) * SumFunctionOnSet(f, piece)
                  \in (-Share(Cardinality(piece)))..Share(Cardinality(piece))
<1> DEFINE S == Slices(spec, m)
           piece == Piece(spec, S, k)
           n == Cardinality(piece)
           v == PriceOf(piece, part)
           q == MinutesIn(piece)
           min == [x \in piece |-> MinutesOf(x)]
           len == [x \in piece |-> x.to - x.from]
           a == [x \in piece |-> (2 * Minute) * MinutesOf(x)]
           b == [x \in piece |-> (2 * Precision) * (x.to - x.from)]
           w == [x \in piece |-> Minute]
<1>1. /\ piece # {} /\ IsFiniteSet(piece) /\ piece \in SUBSET S
      /\ \A x \in piece : MinutesOf(x) \in Nat
      /\ q \in Nat /\ v \in Nat /\ v <= MaxRate
      /\ PieceCost(piece, part) = Rounded(v * q, HourMinutes)
  BY PieceFacts DEF Followed
<1>2. n \in Nat \ {0}
  BY <1>1, FS_CardinalityType, FS_EmptySet
<1>3. \A x \in piece : /\ x.from \in Int /\ x.to \in Int /\ x.from < x.to
                       /\ PieceOf(spec, x) = k
  <2>1. \A x \in S : x.from \in Int /\ x.to \in Int /\ x.from < x.to
    BY SliceFacts DEF Followed
  <2> QED
    BY <1>1, <2>1 DEF Piece
<1>4. \A x \in piece : /\ min[x] \in Nat /\ len[x] \in Nat /\ w[x] = Minute
                       /\ a[x] = (2 * Minute) * min[x] /\ b[x] = (2 * Precision) * len[x]
                       /\ a[x] - b[x] \in (-Minute)..Minute
  <2> TAKE x \in piece
  <2>1. min[x] = MinutesOf(x) /\ len[x] = x.to - x.from /\ w[x] = Minute
        /\ a[x] = (2 * Minute) * min[x] /\ b[x] = (2 * Precision) * len[x]
    OBVIOUS
  <2>2. x.to - x.from \in Nat /\ MinutesOf(x) \in Nat
    BY <1>1, <1>3
  <2>3. a[x] - b[x] \in (-Minute)..Minute
    BY <1>3, <2>1, MinutesNear
  <2> HIDE DEF min, len, a, b, w
  <2> QED
    BY <2>1, <2>2, <2>3
<1>5. \A x \in piece : f[x] = v * len[x]
  <2> TAKE x \in piece
  <2>1. f[x] = (x.to - x.from) * v
    BY <1>1, <1>3
  <2>2. len[x] = x.to - x.from /\ len[x] \in Nat
    BY <1>4
  <2> HIDE DEF v, len, piece
  <2> QED
    BY <1>1, <2>1, <2>2
<1>6. q = SumFunctionOnSet(min, piece)
  BY DEF MinutesIn, SumOver
<1> HIDE DEF S, piece, n, v, q, min, len, a, b, w
<1> DEFINE d == SumFunctionOnSet(len, piece)
<1>7. d \in Nat
  BY <1>1, <1>4, SumNat
<1>8. SumFunctionOnSet(a, piece) = (2 * Minute) * q
  <2>1. \A x \in piece : min[x] \in Int /\ a[x] = (2 * Minute) * min[x]
    BY <1>4
  <2> DEFINE r == 2 * Minute
  <2>2. r \in Int
    BY Sizes
  <2> HIDE DEF r
  <2>3. \A x \in piece : min[x] \in Int /\ a[x] = r * min[x]
    BY <2>1 DEF r
  <2>4. SumFunctionOnSet(a, piece) = r * SumFunctionOnSet(min, piece)
    BY <1>1, <2>2, <2>3, SumScaled
  <2> QED
    BY <1>6, <2>4 DEF r
<1>9. SumFunctionOnSet(b, piece) = (2 * Precision) * d
  <2>1. \A x \in piece : len[x] \in Int /\ b[x] = (2 * Precision) * len[x]
    BY <1>4
  <2> DEFINE r == 2 * Precision
  <2>2. r \in Int
    BY Sizes
  <2> HIDE DEF r
  <2>3. \A x \in piece : len[x] \in Int /\ b[x] = r * len[x]
    BY <2>1 DEF r
  <2>4. SumFunctionOnSet(b, piece) = r * SumFunctionOnSet(len, piece)
    BY <1>1, <2>2, <2>3, SumScaled
  <2> QED
    BY <2>4 DEF r
<1>10. SumFunctionOnSet(w, piece) = Minute * n
  <2>1. \A x \in piece : w[x] = Minute
    BY <1>4
  <2>2. Minute \in Int
    BY Sizes
  <2> QED
    BY <1>1, <2>1, <2>2, SumConstant DEF n
<1>11. SumFunctionOnSet(f, piece) = v * d
  <2>1. \A x \in piece : len[x] \in Int /\ f[x] = v * len[x]
    BY <1>4, <1>5
  <2>2. v \in Int
    BY <1>1
  <2> QED
    BY <1>1, <2>1, <2>2, SumScaled
<1>12. (2 * Minute) * q - (2 * Precision) * d \in (-(Minute * n))..(Minute * n)
  <2>1. \A x \in piece : /\ a[x] \in Int /\ b[x] \in Int /\ w[x] \in Nat
                         /\ a[x] - b[x] \in (-w[x])..w[x]
    <3> TAKE x \in piece
    <3>1. (2 * Minute) * min[x] \in Int /\ (2 * Precision) * len[x] \in Int /\ Minute \in Nat
      BY <1>4, Sizes
    <3> QED
      BY <1>4, <3>1
  <2>2. SumFunctionOnSet(a, piece) - SumFunctionOnSet(b, piece)
          \in (-SumFunctionOnSet(w, piece))..SumFunctionOnSet(w, piece)
    BY <1>1, <2>1, SumNear
  <2> QED
    BY <1>8, <1>9, <1>10, <2>2
<1> HIDE DEF d
<1>13. ((2 * HourMinutes) * Minute) * PieceCost(piece, part) - (2 * Precision) * (v * d)
         \in (-Share(n))..Share(n)
  BY <1>1, <1>2, <1>7, <1>12, QuotientNear
<1>14. v * d \in Int
  BY <1>1, <1>7
<1> QED
  BY <1>11, <1>13, <1>14 DEF piece, n, S

\* The cost of a charge is as near to the clock as its own rounding and the last
\* digits of its slices allow.
LEMMA CostNear ==
  ASSUME NEW spec, Priceable(spec), spec.mode \in ByPower, NEW m, Followed(m),
         NEW part \in Parts
  PROVE  LET error == RoundingError(Cardinality(Slices(spec, m)))
         IN  /\ ClockCost(spec, m, part) \in Nat /\ error \in Nat
             /\ (2 * Precision) * (HourMinutes * Minute * PowerCost(Slices(spec, m), spec, part)
                                     - ClockCost(spec, m, part))
                  \in (-error)..error
<1> DEFINE S == Slices(spec, m)
           K == Keys(spec, S)
           f == [x \in S |-> (x.to - x.from)
                               * PriceOf(Piece(spec, S, PieceOf(spec, x)), part)]
           cost == [k \in K |-> PieceCost(Piece(spec, S, k), part)]
           of == [k \in K |-> Piece(spec, S, k)]
           e == [k \in K |-> SumFunctionOnSet(f, of[k])]
           ones == [x \in S |-> 1]
           size == [k \in K |-> SumFunctionOnSet(ones, of[k])]
           a == [k \in K |-> ((2 * HourMinutes) * Minute) * cost[k]]
           b == [k \in K |-> (2 * Precision) * e[k]]
           w == [k \in K |-> (Minute * (HourMinutes + MaxRate)) * size[k]]
           n == Cardinality(S)
<1>1. /\ IsFiniteSet(K) /\ \A k \in K : cost[k] \in Nat
      /\ PowerCost(S, spec, part) = Rounded(SumFunctionOnSet(cost, K), Precision)
  BY PowerCostIs DEF Followed
<1>2. (\A x \in S : f[x] \in Nat) /\ SumFunctionOnSet(f, S) = ClockCost(spec, m, part)
  BY CostByTheClock
<1>3. IsFiniteSet(S) /\ n \in Nat
  <2>1. IsFiniteSet(S)
    BY SliceFacts DEF Followed
  <2> QED
    BY <2>1, FS_CardinalityType
<1>4. ASSUME NEW k \in K
      PROVE  IsFiniteSet(of[k]) /\ of[k] \in SUBSET S /\ of[k] = Piece(spec, S, k)
  BY PieceFacts DEF Followed
<1>5. \A k, l \in K : k # l => of[k] \cap of[l] = {}
  BY DEF Piece
<1>6. UNION {of[k] : k \in K} = S
  <2>1. \A x \in S : PieceOf(spec, x) \in K /\ x \in of[PieceOf(spec, x)]
    BY DEF Keys, Piece
  <2>2. \A k \in K : of[k] \in SUBSET S
    BY <1>4
  <2> HIDE DEF of, K, S
  <2> QED
    BY <2>1, <2>2
<1>7. \A k \in K : size[k] = Cardinality(of[k]) /\ size[k] \in Nat
  <2> TAKE k \in K
  <2>1. \A x \in of[k] : ones[x] = 1
    BY <1>4
  <2>2. IsFiniteSet(of[k]) /\ size[k] = SumFunctionOnSet(ones, of[k]) /\ 1 \in Int
    BY <1>4
  <2> HIDE DEF of, ones, size
  <2>3. SumFunctionOnSet(ones, of[k]) = 1 * Cardinality(of[k])
    BY <2>1, <2>2, SumConstant
  <2>4. Cardinality(of[k]) \in Nat
    BY <2>2, FS_CardinalityType
  <2> QED
    BY <2>2, <2>3, <2>4
<1>8. \A k \in K : /\ e[k] \in Int
                   /\ ((2 * HourMinutes) * Minute) * cost[k] - (2 * Precision) * e[k]
                        \in (-Share(size[k]))..Share(size[k])
  <2> TAKE k \in K
  <2>1. \A x \in S : f[x] = (x.to - x.from)
                              * PriceOf(Piece(spec, S, PieceOf(spec, x)), part)
    OBVIOUS
  <2> HIDE DEF f
  <2>2. /\ SumFunctionOnSet(f, Piece(spec, S, k)) \in Int
        /\ ((2 * HourMinutes) * Minute) * PieceCost(Piece(spec, S, k), part)
             - (2 * Precision) * SumFunctionOnSet(f, Piece(spec, S, k))
             \in (-Share(Cardinality(Piece(spec, S, k))))..Share(Cardinality(Piece(spec, S, k)))
    BY <2>1, PieceNear
  <2>3. e[k] = SumFunctionOnSet(f, Piece(spec, S, k)) /\ cost[k] = PieceCost(Piece(spec, S, k), part)
        /\ size[k] = Cardinality(Piece(spec, S, k))
    BY <1>4, <1>7
  <2> HIDE DEF e, cost, size, K, S
  <2> QED
    BY <2>2, <2>3
<1>9. \A k \in K : /\ a[k] = ((2 * HourMinutes) * Minute) * cost[k]
                   /\ b[k] = (2 * Precision) * e[k]
                   /\ w[k] = (Minute * (HourMinutes + MaxRate)) * size[k]
                   /\ w[k] = Share(size[k])
  BY DEF Share
<1>10. \A k \in K : e[k] = SumFunctionOnSet(f, of[k]) /\ size[k] = SumFunctionOnSet(ones, of[k])
  OBVIOUS
<1>11. \A x \in S : ones[x] = 1
  OBVIOUS
<1> HIDE DEF S, K, f, cost, of, e, ones, size, a, b, w, n
<1>12. SumFunctionOnSet(e, K) = SumFunctionOnSet(f, S)
  <2>1. /\ \A k \in K : IsFiniteSet(of[k])
        /\ \A k \in K : \A x \in of[k] : f[x] \in Int
    BY <1>2, <1>4
  <2> QED
    BY <1>1, <1>5, <1>6, <1>10, <2>1, SumParts, SMTT(40)
<1>13. SumFunctionOnSet(size, K) = n
  <2>1. /\ \A k \in K : IsFiniteSet(of[k])
        /\ \A k \in K : \A x \in of[k] : ones[x] \in Int
    BY <1>4, <1>11
  <2>2. SumFunctionOnSet(size, K) = SumFunctionOnSet(ones, S)
    <3>1. \A k \in K : size[k] = SumFunctionOnSet(ones, of[k])
      BY <1>10
    <3> QED
      BY <1>1, <1>5, <1>6, <2>1, <3>1, SumParts, SMTT(30)
  <2>3. SumFunctionOnSet(ones, S) = 1 * Cardinality(S)
    BY <1>3, <1>11, SumConstant
  <2> QED
    BY <1>3, <2>2, <2>3 DEF n
<1> DEFINE C == SumFunctionOnSet(cost, K)
           E == SumFunctionOnSet(f, S)
           R == Minute * (HourMinutes + MaxRate)
<1>14. SumFunctionOnSet(a, K) = ((2 * HourMinutes) * Minute) * C
  <2>1. \A k \in K : cost[k] \in Int /\ a[k] = ((2 * HourMinutes) * Minute) * cost[k]
    BY <1>1, <1>9
  <2>2. (2 * HourMinutes) * Minute \in Int
    BY Sizes
  <2> QED
    BY <1>1, <2>1, <2>2, SumScaled
<1>15. SumFunctionOnSet(b, K) = (2 * Precision) * E
  <2>1. \A k \in K : e[k] \in Int /\ b[k] = (2 * Precision) * e[k]
    BY <1>8, <1>9
  <2>2. 2 * Precision \in Int
    BY Sizes
  <2> QED
    BY <1>1, <1>12, <2>1, <2>2, SumScaled
<1>16. SumFunctionOnSet(w, K) = R * n
  <2>1. \A k \in K : size[k] \in Int /\ w[k] = R * size[k]
    BY <1>7, <1>9
  <2>2. R \in Int
    BY Sizes
  <2> HIDE DEF R
  <2>3. SumFunctionOnSet(w, K) = R * SumFunctionOnSet(size, K)
    BY <1>1, <2>1, <2>2, SumScaled
  <2> QED
    BY <1>13, <2>3
<1>17. SumFunctionOnSet(a, K) - SumFunctionOnSet(b, K)
         \in (-SumFunctionOnSet(w, K))..SumFunctionOnSet(w, K)
  <2>1. \A k \in K : /\ a[k] \in Int /\ b[k] \in Int /\ w[k] \in Nat
                     /\ a[k] - b[k] \in (-w[k])..w[k]
    <3> TAKE k \in K
    <3>1. cost[k] \in Nat /\ e[k] \in Int /\ size[k] \in Nat
      BY <1>1, <1>7, <1>8
    <3>2. a[k] \in Int /\ b[k] \in Int /\ w[k] \in Nat
      BY <1>9, <3>1, Sizes
    <3> QED
      BY <1>8, <1>9, <3>2
  <2> QED
    BY <1>1, <2>1, SumNear
<1>18. C \in Nat /\ E \in Nat
  BY <1>1, <1>2, <1>3, SumNat
<1> DEFINE F == PowerCost(S, spec, part)
<1>19. F \in Nat /\ (2 * Precision) * F - 2 * C \in (-Precision)..Precision
  <2>1. F = Rounded(C, Precision)
    BY <1>1
  <2> HIDE DEF F, C
  <2> QED
    BY <1>18, <2>1, RoundedNear, Sizes
<1>20. ((2 * HourMinutes) * Minute) * C - (2 * Precision) * E \in (-(R * n))..(R * n)
  BY <1>14, <1>15, <1>16, <1>17
<1> HIDE DEF C, E, F
<1> DEFINE h == HourMinutes * Minute
           error == RoundingError(n)
           p == (2 * Precision) * F
           o == 2 * C
           g == (2 * Precision) * E
<1>21. h \in Nat /\ p \in Int /\ o \in Int /\ g \in Int /\ R * n \in Nat
       /\ p - o <= Precision /\ o - p <= Precision
  BY <1>3, <1>18, <1>19, Sizes
<1>22. error = h * Precision + R * n
  BY <1>3, Sizes DEF RoundingError
<1>23. ((2 * HourMinutes) * Minute) * C = h * o /\ (2 * Precision) * (h * F - E) = h * p - g
  BY <1>18, <1>19, Sizes
<1>24. h * o - g <= R * n /\ g - h * o <= R * n /\ h * o \in Int
  BY <1>20, <1>21, <1>23
<1>25. h * (p - o) <= h * Precision /\ h * (o - p) <= h * Precision
       /\ h * (p - o) = h * p - h * o /\ h * (o - p) = h * o - h * p
       /\ h * p \in Int /\ h * Precision \in Nat
  <2> HIDE DEF h, p, o
  <2> QED
    BY <1>21, Sizes
<1>26. error \in Nat /\ h * p - g \in (-error)..error
  <2> HIDE DEF h, p, o, g, R, error
  <2> DEFINE u == h * p
             v == h * o
             r == R * n
             s == h * Precision
  <2>1. /\ u \in Int /\ v \in Int /\ r \in Nat /\ s \in Nat /\ g \in Int
        /\ error = s + r /\ v - g <= r /\ g - v <= r /\ u - v <= s /\ v - u <= s
    BY <1>21, <1>22, <1>24, <1>25
  <2> HIDE DEF u, v, r, s
  <2>2. error \in Nat /\ u - g \in (-error)..error
    BY <2>1
  <2> QED
    BY <2>2 DEF u
<1>27. E = ClockCost(spec, m, part)
  BY <1>2 DEF E
<1> QED
  BY <1>18, <1>23, <1>26, <1>27 DEF F, n, S, E

\* The reference is that clock.
LEMMA ReferenceIsClock ==
  ASSUME NEW m \in Meters
  PROVE  ClockFee(m) =
           [electric |-> Max({ClockCost(Rule, Usage(m), "electric"),
                              IF Ticks(Usage(m)) = {} THEN 0
                              ELSE Rule.minElectric * HourMinutes * Minute}),
            service  |-> ClockCost(Rule, Usage(m), "service")]
<1> DEFINE u == Usage(m)
<1>1. Ticks(u) = m.from..(EndOf(m) - 1) /\ u.segments = Segments(m)
  BY UsageIsMeter DEF Ticks
<1> HIDE DEF u
<1> DEFINE ticks == m.from..(EndOf(m) - 1)
           at(t) == CHOOSE s \in Segments(m) : At(s, t)
           day(t) == t \div (Minute * DayMinutes)
           same(t) == {x \in ticks : day(x) = day(t) /\ PeriodAt(Rule, x) = PeriodAt(Rule, t)}
           watts(t) == IF Rule.mode = "peak" THEN Max({at(x).peak : x \in same(t)})
                       ELSE at(t).power
           cost(part) == SumOver(ticks, LAMBDA t : TierFor(RateAt(Rule, t), watts(t))[part])
           lowest == IF ticks = {} THEN 0 ELSE Rule.minElectric * HourMinutes * Minute
<1>2. \A t \in ticks : watts(t) = WattsAt(Rule, u, t)
  <2>1. \A t : at(t) = SampleAt(u, t)
    BY <1>1 DEF SampleAt
  <2>2. \A t : same(t) = Alike(Rule, u, t)
    BY <1>1 DEF Alike, Day
  <2> HIDE DEF at, same
  <2> QED
    BY <2>1, <2>2 DEF WattsAt
<1>3. \A part : cost(part) = ClockCost(Rule, u, part)
  <2> TAKE part
  <2> HIDE DEF watts
  <2>1. [t \in ticks |-> TierFor(RateAt(Rule, t), watts(t))[part]]
          = [t \in Ticks(u) |-> TierFor(RateAt(Rule, t), WattsAt(Rule, u, t))[part]]
    BY <1>1, <1>2
  <2> QED
    BY <1>1, <2>1 DEF ClockCost, SumOver
<1>4. ClockFee(m) = [electric |-> Max({cost("electric"), lowest}), service |-> cost("service")]
  BY DEF ClockFee
<1> HIDE DEF cost, ticks
<1>5. ticks = Ticks(u)
  BY <1>1 DEF ticks
<1> QED
  BY <1>3, <1>4, <1>5 DEF u

\* Numbers that are raised to the same least number come no further apart.
LEMMA MaxNear ==
  ASSUME NEW x \in Int, NEW y \in Int, NEW z \in Int, NEW k \in Nat, NEW e \in Nat,
         k * (x - y) \in (-e)..e
  PROVE  k * (Max({x, z}) - Max({y, z})) \in (-e)..e
<1> DEFINE a == Max({x, z})
           b == Max({y, z})
<1>1. a \in {x, z} /\ x <= a /\ z <= a /\ b \in {y, z} /\ y <= b /\ z <= b
  BY MaxOfTwo
<1> HIDE DEF a, b
<1>2. a - b \in 0..(x - y) \/ b - a \in 0..(y - x)
  BY <1>1
<1>3. k * (x - y) \in Int /\ k * (y - x) = -(k * (x - y))
  OBVIOUS
<1>4. CASE a - b \in 0..(x - y)
  <2> DEFINE d == a - b
             l == x - y
  <2>1. d \in Nat /\ l \in Nat /\ d <= l /\ k * l \in (-e)..e
    BY <1>1, <1>4
  <2> HIDE DEF d, l
  <2>2. PICK r \in Nat : l = d + r
    BY <2>1, l - d \in Nat
  <2>3. k * l = k * d + k * r /\ k * d \in Nat /\ k * r \in Nat
    BY <2>1, <2>2
  <2>4. k * d \in (-e)..e
    BY <2>1, <2>3
  <2> QED
    BY <2>4 DEF d, a, b
<1>5. CASE b - a \in 0..(y - x)
  <2> DEFINE d == b - a
             l == y - x
  <2>1. d \in Nat /\ l \in Nat /\ d <= l /\ k * l = -(k * (x - y))
    BY <1>1, <1>3, <1>5
  <2>2. k * l \in (-e)..e /\ k * (a - b) = -(k * d)
    BY <1>1, <1>3, <2>1
  <2> HIDE DEF d, l
  <2>3. PICK r \in Nat : l = d + r
    BY <2>1, l - d \in Nat
  <2>4. k * l = k * d + k * r /\ k * d \in Nat /\ k * r \in Nat
    BY <2>1, <2>3
  <2>5. -(k * d) \in (-e)..e
    BY <2>2, <2>4
  <2> QED
    BY <2>2, <2>5 DEF a, b
<1> QED
  BY <1>2, <1>4, <1>5

\* The greater of two numbers, and of their multiples.
LEMMA MaxScaled ==
  ASSUME NEW x \in Int, NEW l \in Int, NEW h \in Nat
  PROVE  h * Max({x, l}) = Max({h * x, h * l})
<1> DEFINE p == h * x
           q == h * l
           y == Max({x, l})
           z == Max({p, q})
<1>1. p \in Int /\ q \in Int
  OBVIOUS
<1>2. /\ y \in {x, l} /\ x <= y /\ l <= y
      /\ z \in {p, q} /\ p <= z /\ q <= z
  <2> HIDE DEF p, q
  <2> QED
    BY <1>1, MaxOfTwo
<1>3. CASE x <= l
  <2>1. p <= q
    <3>1. PICK d \in Nat : l = x + d
      BY <1>3, l - x \in Nat
    <3>2. q = p + h * d /\ h * d \in Nat
      BY <3>1
    <3> HIDE DEF p, q
    <3> QED
      BY <1>1, <3>2
  <2> HIDE DEF p, q, y, z
  <2>2. y = l /\ z = q
    BY <1>1, <1>2, <1>3, <2>1
  <2> QED
    BY <2>2 DEF p, q, y, z
<1>4. CASE l <= x
  <2>1. q <= p
    <3>1. PICK d \in Nat : x = l + d
      BY <1>4, x - l \in Nat
    <3>2. p = q + h * d /\ h * d \in Nat
      BY <3>1
    <3> HIDE DEF p, q
    <3> QED
      BY <1>1, <3>2
  <2> HIDE DEF p, q, y, z
  <2>2. y = x /\ z = p
    BY <1>1, <1>2, <1>4, <2>1
  <2> QED
    BY <2>2 DEF p, q, y, z
<1> QED
  BY <1>3, <1>4

\* A meter that is priced by its power was followed from its start to its end.
LEMMA PricedIsFollowed ==
  ASSUME NEW spec, Priceable(spec), spec.mode \in ByPower, NEW m \in Meters,
         PriceActual(spec, m).verdict = "priced", m.wh > 0,
         ~(spec.free > 0 /\ WholeMinutes(m) <= spec.free)
  PROVE  LET u == Usage(m)
         IN  /\ Followed(u)
             /\ PriceActual(spec, m) =
                  Priced(Max({PowerCost(Slices(spec, u), spec, "electric"),
                              IF WholeMinutes(u) > 0 THEN spec.minElectric ELSE 0}),
                         PowerCost(Slices(spec, u), spec, "service"))
<1> DEFINE u == Usage(m)
<1>1. /\ u \in Meters /\ u.wh = m.wh /\ WholeMinutes(u) = WholeMinutes(m)
  BY UsageIsMeter
<1>2. /\ ~m.doubtful /\ WellMeasured(spec, u)
      /\ PriceActual(spec, m) = Cost(spec, u)
  BY DEF PriceActual, NeedsReview, BadRule
<1> HIDE DEF u
<1>3. Followed(u)
  BY <1>1, <1>2 DEF WellMeasured, Followed
<1>4. spec.mode # "energy" /\ u.wh # 0
  BY <1>1, MeterFacts DEF ByPower
<1> DEFINE fee == Priced(Max({PowerCost(Slices(spec, u), spec, "electric"),
                              IF WholeMinutes(u) > 0 THEN spec.minElectric ELSE 0}),
                         PowerCost(Slices(spec, u), spec, "service"))
<1>5. Cost(spec, u) \in {NeedsReview, fee}
  BY <1>1, <1>4 DEF Cost
<1> HIDE DEF fee
<1>6. Cost(spec, u) = fee
  BY <1>2, <1>5 DEF NeedsReview
<1> QED
  BY <1>2, <1>3, <1>6 DEF u, fee

\* So it is charged every minute of it, once.
LEMMA ChargedByTheClock ==
  ASSUME Sound
  PROVE  EveryMinuteCharged
<1> DEFINE m == MeterAt(now)
           u == Usage(m)
           fee == PriceActual(Rule, m)
           error == RoundingError(Cardinality(Slices(Rule, u)))
           k == 2 * Precision
           h == HourMinutes * Minute
<1> SUFFICES ASSUME Rule.mode \in {"realtime", "peak"}, fee.verdict = "priced", m.wh > 0,
                    ~(Rule.free > 0 /\ WholeMinutes(m) <= Rule.free)
             PROVE  /\ k * (h * fee.electric - ClockFee(m).electric) \in (-error)..error
                    /\ k * (h * fee.service - ClockFee(m).service) \in (-error)..error
  BY DEF EveryMinuteCharged, ChargedByPower
<1>1. m \in Meters
  <2>1. now \in start..now
    <3>1. start \in Nat /\ Len(drawn) \in Nat
      BY MeteredConstants DEF Sound
    <3> QED
      BY <3>1 DEF now
  <2> QED
    BY <2>1, MeterAtIsMeter
<1> HIDE DEF m
<1>2. Priceable(Rule) /\ Rule.mode \in ByPower
  <2>1. Mode = "amount"
    BY PackageFacts DEF Rule, SpecFor, Mode, Sound
  <2>2. Written(Rule)
    BY <2>1, PurchaseFacts
  <2>3. ValidSpec(Rule)
    BY DEF PriceActual, NeedsReview, BadRule
  <2> QED
    BY <2>2, <2>3 DEF Written, Priceable, ByPower
<1> DEFINE F(part) == PowerCost(Slices(Rule, u), Rule, part)
           G(part) == ClockCost(Rule, u, part)
           l == IF WholeMinutes(u) > 0 THEN Rule.minElectric ELSE 0
<1>3. Followed(u) /\ fee = Priced(Max({F("electric"), l}), F("service"))
  BY <1>1, <1>2, PricedIsFollowed
<1>4. ClockFee(m) =
        [electric |-> Max({G("electric"),
                           IF Ticks(u) = {} THEN 0
                           ELSE Rule.minElectric * HourMinutes * Minute}),
         service  |-> G("service")]
  BY <1>1, ReferenceIsClock
<1> HIDE DEF u, fee
<1>5. \A part \in Parts : /\ F(part) \in Nat /\ G(part) \in Nat /\ error \in Nat
                          /\ k * (h * F(part) - G(part)) \in (-error)..error
  <2>1. u \in Meters
    BY <1>3 DEF Followed
  <2> QED
    BY <1>2, <1>3, <2>1, PowerCostNat, CostNear
<1>6. l \in Nat /\ h \in Nat \ {0} /\ k \in Nat
  BY <1>2, Sizes DEF Priceable, ValidSpec, InRange
<1>7. ClockFee(m).electric = Max({G("electric"), h * l})
  <2>1. (IF Ticks(u) = {} THEN 0 ELSE Rule.minElectric * HourMinutes * Minute) = h * l
    <3>1. WholeMinutes(u) > 0 <=> Ticks(u) # {}
      BY <1>3, EndFacts
    <3>2. h * 0 = 0
      BY <1>6
    <3>3. Rule.minElectric \in Int
      BY <1>2 DEF Priceable
    <3>4. Rule.minElectric * HourMinutes * Minute = h * Rule.minElectric
      BY <3>3, Sizes
    <3> QED
      BY <3>1, <3>2, <3>4
  <2> QED
    BY <1>4, <2>1
<1>8. h * Max({F("electric"), l}) = Max({h * F("electric"), h * l})
  <2> DEFINE x == F("electric")
  <2>1. x \in Int /\ l \in Int /\ h \in Nat
    BY <1>5, <1>6 DEF Parts
  <2> HIDE DEF F, l, h
  <2> QED
    BY <2>1, MaxScaled
<1> HIDE DEF F, G, l, h, k, error
<1>9. k * (h * fee.service - ClockFee(m).service) \in (-error)..error
  <2>1. fee.service = F("service") /\ ClockFee(m).service = G("service")
    BY <1>3, <1>4 DEF Priced
  <2>2. "service" \in Parts
    BY DEF Parts
  <2> QED
    BY <1>5, <2>1, <2>2
<1>10. k * (h * fee.electric - ClockFee(m).electric) \in (-error)..error
  <2> DEFINE x == h * F("electric")
             y == G("electric")
             z == h * l
  <2>1. x \in Int /\ y \in Int /\ z \in Int /\ error \in Nat /\ k * (x - y) \in (-error)..error
    <3>1. "electric" \in Parts
      BY DEF Parts
    <3>2. /\ F("electric") \in Nat /\ y \in Nat /\ error \in Nat
          /\ k * (x - y) \in (-error)..error
      BY <1>5, <3>1
    <3>3. x \in Int /\ z \in Int
      BY <1>6, <3>2
    <3> HIDE DEF x, y, z
    <3> QED
      BY <3>2, <3>3
  <2>2. h * fee.electric = Max({x, z}) /\ ClockFee(m).electric = Max({y, z})
    BY <1>3, <1>7, <1>8 DEF Priced
  <2> HIDE DEF x, y, z
  <2> QED
    BY <1>6, <2>1, <2>2, MaxNear
<1> QED
  BY <1>9, <1>10

(* Cutting samples where the period changes, taking the highest power of each *)
(* period and dividing slice by slice loses and doubles no minute, whatever   *)
(* the tariff, the charge and its heartbeats (scheme_cost.go:65-119).         *)
THEOREM MinutesAllCharged == Spec => []EveryMinuteCharged
<1>1. Sound => EveryMinuteCharged
  BY ChargedByTheClock
<1> QED
  BY <1>1, SoundInvariance, PTL

\* Dividing and rounding keep the order.
LEMMA QuotientOrder ==
  ASSUME NEW a \in Int, NEW b \in Int, a <= b, NEW k \in Nat \ {0}
  PROVE  a \div k <= b \div k
<1> DEFINE x == a \div k
           y == b \div k
<1>1. /\ x \in Int /\ y \in Int /\ k * x <= a /\ b < k * y + k
      /\ k * x \in Int /\ k * y \in Int
  BY Divided
<1> HIDE DEF x, y
<1>2. ~ x > y
  <2> SUFFICES ASSUME x >= y + 1 PROVE FALSE
    BY <1>1
  <2>1. k * x >= k * (y + 1) /\ k * (y + 1) = k * y + k
    BY <1>1
  <2> QED
    BY <1>1, <2>1
<1> QED
  BY <1>1, <1>2 DEF x, y

LEMMA RoundedOrder ==
  ASSUME NEW a \in Nat, NEW b \in Nat, a <= b, NEW unit \in Nat \ {0}
  PROVE  Rounded(a, unit) <= Rounded(b, unit)
<1>1. /\ 2 * a + unit \in Int /\ 2 * b + unit \in Int /\ 2 * a + unit <= 2 * b + unit
      /\ 2 * unit \in Nat \ {0}
  OBVIOUS
<1> QED
  BY <1>1, QuotientOrder DEF Rounded

\* The tier a power falls under: the first it does not exceed, else the last.
Picks(tiers, w, j) ==
  /\ j \in 1..Len(tiers)
  /\ \A k \in 1..(j - 1) : tiers[k].max < w
  /\ j < Len(tiers) => w <= tiers[j].max

LEMMA TierIs ==
  ASSUME NEW spec, Priceable(spec), spec.mode \in ByPower,
         NEW i \in 1..Len(spec.periods), NEW w \in Int
  PROVE  \E j \in 1..Len(spec.periods[i].tiers) :
           /\ Picks(spec.periods[i].tiers, w, j)
           /\ TierFor(spec.periods[i], w) = spec.periods[i].tiers[j]
<1> DEFINE tiers == spec.periods[i].tiers
           n == Len(tiers)
           I == {j \in 1..n : w <= tiers[j].max}
           k == SelectInSeq(tiers, LAMBDA tier : w <= tier.max)
<1>1. n \in Nat \ {0} /\ \A j \in 1..n : tiers[j].max \in Int
  BY TierFacts
<1>2. k = IF I # {} THEN Min(I) ELSE 0
  BY DEF SelectInSeq
<1>3. TierFor(spec.periods[i], w) = IF k = 0 THEN tiers[n] ELSE tiers[k]
  BY DEF TierFor, Last
<1> HIDE DEF tiers, k
<1>4. CASE I = {}
  <2>1. k = 0 /\ n \in 1..n
    BY <1>1, <1>2, <1>4
  <2>2. \A j \in 1..n : tiers[j].max < w
    BY <1>1, <1>4
  <2>3. Picks(tiers, w, n)
    BY <1>1, <2>1, <2>2 DEF Picks
  <2> QED
    BY <1>3, <2>1, <2>3 DEF tiers
<1>5. CASE I # {}
  <2>1. IsFiniteSet(I) /\ I \in SUBSET Int
    <3>1. IsFiniteSet(1..n)
      BY <1>1, FS_Interval
    <3> QED
      BY <1>1, <3>1, FS_Subset
  <2>2. Min(I) \in I /\ \A j \in I : Min(I) <= j
    BY <1>5, <2>1, MinOf
  <2>3. k \in 1..n /\ k # 0 /\ w <= tiers[k].max /\ \A j \in I : k <= j
    BY <1>1, <1>2, <1>5, <2>2
  <2>4. \A j \in 1..(k - 1) : tiers[j].max < w
    BY <1>1, <2>3
  <2>5. Picks(tiers, w, k)
    BY <1>1, <2>3, <2>4 DEF Picks
  <2> QED
    BY <1>3, <2>3, <2>5 DEF tiers
<1> QED
  BY <1>4, <1>5

\* A higher power falls under no earlier tier, whatever the tiers cost.
LEMMA TierOrder ==
  ASSUME NEW row, NEW other, Len(row) \in Nat, Len(other) = Len(row),
         \A j \in 1..Len(row) : row[j].max \in Int /\ other[j].max = row[j].max,
         NEW w \in Int, NEW v \in Int, w <= v,
         NEW j, Picks(row, w, j), NEW k, Picks(other, v, k)
  PROVE  j <= k
<1> DEFINE n == Len(row)
<1>1. /\ j \in 1..n /\ k \in 1..n /\ n \in Nat
      /\ \A l \in 1..(j - 1) : row[l].max < w
      /\ k < n => v <= other[k].max
  BY DEF Picks
<1>2. j \in Int /\ k \in Int
  BY <1>1
<1> SUFFICES ASSUME k < j PROVE FALSE
  BY <1>2
<1>3. k \in 1..(j - 1) /\ k < n
  BY <1>1, <1>2
<1>4. row[k].max < w /\ v <= row[k].max /\ row[k].max \in Int
  BY <1>1, <1>3
<1> QED
  BY <1>4

\* Rising, of any tariff.
RisingSpec(spec) ==
  spec.mode = "peak" =>
    \A i \in DOMAIN spec.periods :
      LET tiers == spec.periods[i].tiers
      IN  \A j, k \in DOMAIN tiers :
            j <= k => /\ tiers[j].electric <= tiers[k].electric
                      /\ tiers[j].service <= tiers[k].service

LEMMA RisingPrice ==
  ASSUME NEW spec, Priceable(spec), spec.mode = "peak", RisingSpec(spec),
         NEW t \in Int, NEW w \in Int, NEW v \in Int, w <= v, NEW part \in Parts
  PROVE  TierFor(RateAt(spec, t), w)[part] <= TierFor(RateAt(spec, t), v)[part]
<1> DEFINE i == PeriodAt(spec, t)
           tiers == spec.periods[i].tiers
<1>1. i \in 1..Len(spec.periods) /\ RateAt(spec, t) = spec.periods[i]
      /\ i \in DOMAIN spec.periods
  BY PeriodFacts, EndsWithinDay
<1> HIDE DEF i
<1>2. spec.mode \in ByPower
  BY DEF ByPower
<1>3. PICK j \in 1..Len(tiers) :
        Picks(tiers, w, j) /\ TierFor(spec.periods[i], w) = tiers[j]
  BY <1>1, <1>2, TierIs
<1>4. PICK k \in 1..Len(tiers) :
        Picks(tiers, v, k) /\ TierFor(spec.periods[i], v) = tiers[k]
  BY <1>1, <1>2, TierIs
<1>5. /\ Len(tiers) \in Nat \ {0} /\ DOMAIN tiers = 1..Len(tiers)
      /\ \A l \in 1..Len(tiers) : tiers[l].max \in Int
  BY <1>1, <1>2, TierFacts
<1>6. \A l, o \in DOMAIN tiers :
        l <= o => /\ tiers[l].electric <= tiers[o].electric
                  /\ tiers[l].service <= tiers[o].service
  BY <1>1 DEF RisingSpec
<1> HIDE DEF tiers
<1>7. j <= k
  BY <1>3, <1>4, <1>5, TierOrder
<1>8. tiers[j].electric <= tiers[k].electric /\ tiers[j].service <= tiers[k].service
  BY <1>5, <1>6, <1>7
<1> QED
  BY <1>1, <1>3, <1>4, <1>8 DEF Parts

---------------------------------------------------------------------------

\* A charge that ends no later has no more whole minutes.
LEMMA EndOrder ==
  ASSUME NEW p \in Meters, NEW m \in Meters, p.from = m.from, p.to <= m.to
  PROVE  /\ WholeMinutes(p) <= WholeMinutes(m) /\ EndOf(p) <= EndOf(m)
         /\ Ticks(p) \subseteq Ticks(m)
<1>1. /\ p.from \in Int /\ p.to \in Int /\ m.to \in Int
      /\ WholeMinutes(p) \in Int /\ WholeMinutes(m) \in Int
      /\ EndOf(p) \in Int /\ EndOf(m) \in Int
  BY MeterFacts
<1>2. WholeMinutes(p) <= WholeMinutes(m)
  <2>1. p.to - p.from \in Int /\ m.to - m.from \in Int /\ p.to - p.from <= m.to - m.from
    BY <1>1
  <2> QED
    BY <2>1, QuotientOrder, Sizes DEF WholeMinutes
<1>3. EndOf(p) <= EndOf(m)
  <2> DEFINE a == WholeMinutes(p)
             b == WholeMinutes(m)
  <2>1. a \in Int /\ b \in Int /\ a <= b /\ Minute \in Nat
    BY <1>1, <1>2, Sizes
  <2>2. EndOf(p) = m.from + a * Minute /\ EndOf(m) = m.from + b * Minute
    BY DEF EndOf
  <2> HIDE DEF a, b
  <2>3. a * Minute <= b * Minute /\ a * Minute \in Int /\ b * Minute \in Int
    BY <2>1
  <2> QED
    BY <1>1, <2>2, <2>3
<1>4. Ticks(p) \subseteq Ticks(m)
  BY <1>1, <1>3 DEF Ticks
<1> QED
  BY <1>2, <1>3, <1>4

\* What a priced meter has shown.
LEMMA PricedIsMeasured ==
  ASSUME NEW spec, NEW m \in Meters, PriceActual(spec, m).verdict = "priced"
  PROVE  /\ ~m.doubtful /\ ValidSpec(spec) /\ WellMeasured(spec, Usage(m))
         /\ PriceActual(spec, m) = Cost(spec, Usage(m))
BY DEF PriceActual, NeedsReview, BadRule

\* A charge that drew nothing, or was short enough, is free.
IsFree(spec, m) == m.wh = 0 \/ (spec.free > 0 /\ WholeMinutes(m) <= spec.free)

LEMMA FreeCostsNothing ==
  ASSUME NEW spec, NEW m \in Meters, PriceActual(spec, m).verdict = "priced", IsFree(spec, m)
  PROVE  PriceActual(spec, m) = Priced(0, 0) /\ Total(PriceActual(spec, m)) = 0
<1>1. PriceActual(spec, m) = Cost(spec, Usage(m))
  BY PricedIsMeasured
<1>2. Usage(m).wh = m.wh /\ WholeMinutes(Usage(m)) = WholeMinutes(m)
  BY UsageIsMeter
<1>3. Cost(spec, Usage(m)) = Priced(0, 0)
  BY <1>2 DEF Cost, IsFree
<1> QED
  BY <1>1, <1>3 DEF Priced, Total

\* Either part of the price of any other charge, and the whole of it.
CostOf(spec, m, part) ==
  IF spec.mode = "energy" THEN EnergyCost(m, spec, part)
  ELSE PowerCost(Slices(spec, m), spec, part)
Lowest(spec, m) == IF WholeMinutes(m) > 0 THEN spec.minElectric ELSE 0

LEMMA PricedIsCost ==
  ASSUME NEW spec, Priceable(spec), NEW m \in Meters,
         PriceActual(spec, m).verdict = "priced", ~IsFree(spec, m)
  PROVE  LET u == Usage(m)
         IN  /\ PriceActual(spec, m) =
                  Priced(Max({CostOf(spec, u, "electric"), Lowest(spec, u)}),
                         CostOf(spec, u, "service"))
             /\ CostOf(spec, u, "electric") \in Nat /\ CostOf(spec, u, "service") \in Nat
             /\ Lowest(spec, u) \in Nat
             /\ \A s \in u.segments :
                  IF spec.mode = "energy" THEN Uniform(spec, s.from, s.to - 1)
                  ELSE ~(Watts(spec, s) = 0 /\ s.power = Unknown)
             /\ u \in Meters /\ Followed(u)
<1> DEFINE u == Usage(m)
<1>1. /\ u \in Meters /\ u.wh = m.wh /\ WholeMinutes(u) = WholeMinutes(m)
  BY UsageIsMeter
<1>2. WellMeasured(spec, u) /\ PriceActual(spec, m) = Cost(spec, u)
  BY PricedIsMeasured
<1> HIDE DEF u
<1>3. ~(u.wh = 0 \/ (spec.free > 0 /\ WholeMinutes(u) <= spec.free))
  BY <1>1 DEF IsFree
<1>4. Cost(spec, u) # NeedsReview
  BY <1>2 DEF NeedsReview
<1>5. /\ Cost(spec, u) = Priced(Max({CostOf(spec, u, "electric"), Lowest(spec, u)}),
                                CostOf(spec, u, "service"))
      /\ \A s \in u.segments :
           IF spec.mode = "energy" THEN Uniform(spec, s.from, s.to - 1)
           ELSE ~(Watts(spec, s) = 0 /\ s.power = Unknown)
  BY <1>3, <1>4 DEF Cost, CostOf, Lowest
<1>6. \A part \in Parts : CostOf(spec, u, part) \in Nat
  <2>1. spec.mode # "energy" => spec.mode \in ByPower
    BY DEF Priceable, ServerModes, ByPower
  <2> QED
    BY <1>1, <2>1, EnergyCostNat, PowerCostNat DEF CostOf
<1>7. Lowest(spec, u) \in Nat
  BY Sizes DEF Lowest, Priceable, ValidSpec, InRange
<1>8. Followed(u)
  BY <1>1, <1>2 DEF WellMeasured, Followed
<1> QED
  BY <1>1, <1>2, <1>5, <1>6, <1>7, <1>8 DEF Parts, u

\* Fees of parts that are no greater are no greater.
LEMMA FeeOrder ==
  ASSUME NEW e \in Nat, NEW v \in Nat, NEW l \in Nat,
         NEW f \in Nat, NEW w \in Nat, NEW o \in Nat, e <= f, v <= w, l <= o
  PROVE  /\ Max({e, l}) \in Nat /\ Max({f, o}) \in Nat /\ Max({e, l}) <= Max({f, o})
         /\ Total(Priced(Max({e, l}), v)) <= Total(Priced(Max({f, o}), w))
<1>1. /\ Max({e, l}) \in {e, l}
      /\ Max({f, o}) \in {f, o} /\ f <= Max({f, o}) /\ o <= Max({f, o})
  <2>1. {e, l, f, o} \subseteq Int
    OBVIOUS
  <2>2. Max({e, l}) \in {e, l}
    BY <2>1, MaxOfTwo, Zenon
  <2>3. Max({f, o}) \in {f, o} /\ f <= Max({f, o}) /\ o <= Max({f, o})
    BY <2>1, MaxOfTwo, Zenon
  <2> QED
    BY <2>2, <2>3
<1> DEFINE a == Max({e, l})
           b == Max({f, o})
<1>2. a \in {e, l} /\ b \in {f, o} /\ f <= b /\ o <= b
  BY <1>1
<1> HIDE DEF a, b
<1>3. a \in Nat /\ b \in Nat /\ a <= b /\ a + v <= b + w
  BY <1>2
<1> QED
  BY <1>3 DEF Priced, Total, a, b

---------------------------------------------------------------------------
\* Of two products with the same factor the greater is that of the greater number.
LEMMA TimesOrder ==
  ASSUME NEW k \in Nat, NEW x \in Nat, NEW y \in Nat, x <= y
  PROVE  k * x <= k * y
<1>1. PICK d \in Nat : y = x + d
  BY y - x \in Nat
<1>2. k * y = k * x + k * d /\ k * d \in Nat /\ k * x \in Nat
  BY <1>1
<1> QED
  BY <1>2

\* Each sample of one charge begins where one of another does and ends no later, and
\* their powers are related.
Matched(a, p, b, m, R) ==
  \A r \in p.segments :
    \E s \in m.segments : /\ s.from = r.from /\ r.to <= s.to
                          /\ <<Watts(a, r), Watts(b, s)>> \in R
Same == {e \in Int \X Int : e[1] = e[2]}

\* Periods that end at the same instants.
SameEnds(a, b) == \A t \in Int : Boundary(a, t) = Boundary(b, t)

\* Then the same is true of their slices.
Reached(a, p, b, m, R) ==
  \A x \in Slices(a, p) :
    \E y \in Slices(b, m) : /\ y.from = x.from /\ x.to <= y.to
                            /\ <<x.watts, y.watts>> \in R

LEMMA SlicesMatch ==
  ASSUME NEW a, Priceable(a), NEW b, Priceable(b), SameEnds(a, b),
         NEW p, Followed(p), NEW m, Followed(m), EndOf(p) <= EndOf(m),
         NEW R, Matched(a, p, b, m, R)
  PROVE  Reached(a, p, b, m, R)
<1> SUFFICES ASSUME NEW x \in Slices(a, p)
             PROVE  \E y \in Slices(b, m) : /\ y.from = x.from /\ x.to <= y.to
                                            /\ <<x.watts, y.watts>> \in R
  BY DEF Reached
<1> DEFINE e == EndOf(p)
           f == EndOf(m)
<1>1. e \in Int /\ f \in Int /\ e <= f
  BY EndFacts
<1>2. PICK r \in p.segments : x \in SlicesOf(a, r, e)
  BY DEF Slices
<1>3. PICK s \in m.segments : /\ s.from = r.from /\ r.to <= s.to
                              /\ <<Watts(a, r), Watts(b, s)>> \in R
  BY <1>2 DEF Matched
<1>4. r \in Samples /\ r.from \in Int /\ r.to \in Int
      /\ s \in Samples /\ s.from \in Int /\ s.to \in Int
  BY MeterFacts DEF Followed
<1> HIDE DEF e, f
<1> DEFINE i == x.from
           y == [from |-> i, to |-> Min({s.to, f, Boundary(b, i)}),
                 watts |-> Watts(b, s), period |-> RateAt(b, i)]
<1>5. /\ i \in Cuts(a, r, e) /\ i \in Int /\ x.to \in Int
      /\ x.to = Min({r.to, e, Boundary(a, i)}) /\ x.watts = Watts(a, r)
      /\ x.to <= r.to /\ x.to <= e /\ x.to <= Boundary(a, i)
  BY <1>1, <1>2, <1>4, SliceOfFacts
<1> HIDE DEF i
<1>6. i \in Cuts(b, s, f)
  <2> DEFINE j == Min({r.to, e})
             k == Min({s.to, f})
  <2>1. j \in Int /\ k \in Int /\ j <= k
    <3>1. j \in {r.to, e} /\ j <= r.to /\ j <= e
      BY <1>1, <1>4, MinOfTwo
    <3>2. k \in {s.to, f}
      BY <1>1, <1>4, MinOfTwo
    <3> HIDE DEF j, k
    <3> QED
      BY <1>1, <1>3, <1>4, <3>1, <3>2
  <2>2. i \in r.from..(j - 1) /\ (i = r.from \/ Boundary(a, i - 1) = i)
    BY <1>5 DEF Cuts
  <2>3. i - 1 \in Int /\ Boundary(a, i - 1) = Boundary(b, i - 1)
    BY <1>5 DEF SameEnds
  <2> HIDE DEF j
  <2>4. i \in s.from..(k - 1)
    <3> HIDE DEF k
    <3> QED
      BY <1>3, <1>4, <1>5, <2>1, <2>2
  <2> QED
    BY <1>3, <2>2, <2>3, <2>4 DEF Cuts
<1>7. y \in Slices(b, m)
  <2>1. y \in SlicesOf(b, s, f)
    BY <1>6 DEF SlicesOf
  <2> HIDE DEF y
  <2> QED
    BY <2>1 DEF Slices, f
<1>8. x.to <= y.to
  <2>1. Boundary(b, i) = Boundary(a, i) /\ Boundary(a, i) \in Int
    BY <1>5, BoundaryFacts DEF SameEnds
  <2>2. y.to \in {s.to, f, Boundary(b, i)}
    BY <1>1, <1>4, <2>1, MinOfThree
  <2> HIDE DEF y
  <2> QED
    BY <1>1, <1>3, <1>4, <1>5, <2>1, <2>2
<1> QED
  BY <1>3, <1>5, <1>7, <1>8 DEF i

\* And of the powers by which two pieces that correspond are priced.
LEMMA TopsMatch ==
  ASSUME NEW a, Priceable(a), a.mode \in ByPower, NEW b, Priceable(b), b.mode = a.mode,
         SameEnds(a, b), NEW p, Followed(p), NEW m, Followed(m),
         NEW R, Reached(a, p, b, m, R),
         a.mode = "peak" => \A e \in R : e[1] <= e[2],
         NEW x \in Slices(a, p), NEW y \in Slices(b, m), y.from = x.from
  PROVE  LET w == Top(Piece(a, Slices(a, p), PieceOf(a, x)))
             v == Top(Piece(b, Slices(b, m), PieceOf(b, y)))
         IN  /\ w \in Int /\ v \in Int
             /\ a.mode = "realtime" => <<w, v>> \in R
             /\ a.mode = "peak" => w <= v
<1> DEFINE P == Piece(a, Slices(a, p), PieceOf(a, x))
           Q == Piece(b, Slices(b, m), PieceOf(b, y))
<1>1. x \in P /\ y \in Q /\ P \in SUBSET Slices(a, p) /\ Q \in SUBSET Slices(b, m)
  BY DEF Piece
<1>2. p \in Meters /\ m \in Meters
  BY DEF Followed
<1>3. /\ Top(P) \in Int /\ \E z \in P : z.watts = Top(P)
      /\ Top(Q) \in Int /\ \A z \in Q : z.watts \in Int /\ z.watts <= Top(Q)
  <2> HIDE DEF P, Q
  <2> QED
    BY <1>1, <1>2, TopFacts
<1>4. ASSUME a.mode = "realtime" PROVE <<Top(P), Top(Q)>> \in R
  <2>1. PICK z \in Slices(b, m) : z.from = x.from /\ <<x.watts, z.watts>> \in R
    BY DEF Reached
  <2>2. z = y
    <3>1. z.from \in In(z) /\ y.from \in In(y)
      BY SliceIsPart
    <3>2. In(z) \cap In(y) # {}
      BY <2>1, <3>1
    <3> QED
      BY <3>2, SlicesAreApart
  <2>3. Top(P) = x.watts /\ Top(Q) = y.watts
    <3>1. "electric" \in Parts
      BY DEF Parts
    <3> QED
      BY <1>1, <1>4, <3>1, PiecePrice
  <2> HIDE DEF P, Q
  <2> QED
    BY <2>1, <2>2, <2>3
<1>5. ASSUME a.mode = "peak" PROVE Top(P) <= Top(Q)
  <2>1. PICK z \in P : z.watts = Top(P)
    BY <1>3
  <2>2. z \in Slices(a, p) /\ PieceOf(a, z) = PieceOf(a, x)
    BY <2>1 DEF Piece
  <2>3. PICK o \in Slices(b, m) : o.from = z.from /\ <<z.watts, o.watts>> \in R
    BY <2>2 DEF Reached
  <2>4. PieceOf(b, o) = PieceOf(b, y)
    <3>1. z.from \in Int /\ x.from \in Int
      BY <1>2, <2>2, SliceFacts
    <3> QED
      BY <1>5, <2>2, <2>3, <3>1 DEF PieceOf, SameEnds
  <2>5. o \in Q
    BY <2>3, <2>4 DEF Piece
  <2>6. z.watts <= o.watts
    BY <1>5, <2>3
  <2>7. o.watts \in Int /\ o.watts <= Top(Q)
    BY <1>3, <2>5
  <2> HIDE DEF P, Q
  <2> QED
    BY <1>3, <2>1, <2>6, <2>7
<1> HIDE DEF P, Q
<1> QED
  BY <1>3, <1>4, <1>5 DEF P, Q

\* Slices that are matched by longer ones of pieces that are no cheaper cost no more.
LEMMA PowerOrder ==
  ASSUME NEW a, Priceable(a), a.mode \in ByPower, NEW b, Priceable(b), b.mode = a.mode,
         SameEnds(a, b), NEW p, Followed(p), NEW m, Followed(m),
         NEW R, Reached(a, p, b, m, R), NEW part \in Parts,
         \A x \in Slices(a, p) : \A y \in Slices(b, m) : y.from = x.from =>
           PriceOf(Piece(a, Slices(a, p), PieceOf(a, x)), part)
             <= PriceOf(Piece(b, Slices(b, m), PieceOf(b, y)), part)
  PROVE  PowerCost(Slices(a, p), a, part) <= PowerCost(Slices(b, m), b, part)
<1> DEFINE S == Slices(a, p)
           T == Slices(b, m)
           K == Keys(a, S)
           L == Keys(b, T)
           f == [k \in K |-> PieceCost(Piece(a, S, k), part)]
           g == [k \in L |-> PieceCost(Piece(b, T, k), part)]
           to == [x \in S |-> CHOOSE y \in T : y.from = x.from /\ x.to <= y.to]
<1>1. p \in Meters /\ m \in Meters /\ b.mode \in ByPower
  BY DEF Followed
<1>2. /\ IsFiniteSet(K) /\ \A k \in K : f[k] \in Nat
      /\ PowerCost(S, a, part) = Rounded(SumFunctionOnSet(f, K), Precision)
  BY <1>1, PowerCostIs
<1>3. /\ IsFiniteSet(L) /\ \A k \in L : g[k] \in Nat
      /\ PowerCost(T, b, part) = Rounded(SumFunctionOnSet(g, L), Precision)
  BY <1>1, PowerCostIs
<1>4. \A x \in S : to[x] \in T /\ to[x].from = x.from /\ x.to <= to[x].to
  <2> TAKE x \in S
  <2>1. \E y \in T : y.from = x.from /\ x.to <= y.to
    BY DEF Reached
  <2> HIDE DEF S, T
  <2> QED
    BY <2>1
<1>5. \A x, y \in S : to[x] = to[y] => x = y
  <2> TAKE x \in S, y \in S
  <2> HAVE to[x] = to[y]
  <2>1. x.from = y.from
    BY <1>4
  <2>2. x.from \in In(x) /\ y.from \in In(y)
    BY SliceIsPart
  <2>3. In(x) \cap In(y) # {}
    BY <2>1, <2>2
  <2> QED
    BY <2>3, SlicesAreApart
<1>6. \A x \in S : PieceOf(b, to[x]) = PieceOf(a, x)
  <2> TAKE x \in S
  <2>1. x.from \in Int /\ to[x].from = x.from
    BY <1>1, <1>4, SliceFacts
  <2> HIDE DEF to
  <2> QED
    BY <2>1 DEF PieceOf, SameEnds
<1> HIDE DEF to
<1>7. ASSUME NEW k \in K
      PROVE  k \in L /\ f[k] <= g[k]
  <2> DEFINE P == Piece(a, S, k)
             Q == Piece(b, T, k)
             u == PriceOf(P, part)
             v == PriceOf(Q, part)
             i == MinutesIn(P)
             j == MinutesIn(Q)
             h == [x \in P |-> MinutesOf(x)]
             o == [x \in Q |-> MinutesOf(x)]
             c == [x \in P |-> to[x]]
  <2>1. /\ P # {} /\ IsFiniteSet(P) /\ P \in SUBSET S
        /\ \A x \in P : MinutesOf(x) \in Nat
        /\ i \in Nat /\ u \in Nat /\ f[k] = Rounded(u * i, HourMinutes)
    BY <1>1, PieceFacts
  <2>2. \A x \in P : PieceOf(a, x) = k
    BY DEF Piece
  <2>3. k \in L
    <3>1. PICK x \in P : TRUE
      BY <2>1
    <3>2. to[x] \in T /\ PieceOf(b, to[x]) = k
      BY <1>4, <1>6, <2>1, <2>2
    <3> HIDE DEF S, T
    <3> QED
      BY <3>2 DEF Keys
  <2>4. /\ IsFiniteSet(Q) /\ \A x \in Q : MinutesOf(x) \in Nat
        /\ j \in Nat /\ v \in Nat /\ g[k] = Rounded(v * j, HourMinutes)
    BY <1>1, <2>3, PieceFacts
  <2>5. \A x \in P : to[x] \in Q /\ MinutesOf(x) <= MinutesOf(to[x])
    <3> TAKE x \in P
    <3>1. x \in S /\ to[x] \in T /\ to[x].from = x.from /\ x.to <= to[x].to
          /\ PieceOf(b, to[x]) = k
      BY <1>4, <1>6, <2>1, <2>2
    <3>2. to[x] \in Q
      BY <3>1 DEF Piece
    <3>3. /\ x.from \in Int /\ x.to \in Int /\ x.from < x.to
          /\ to[x].from \in Int /\ to[x].to \in Int
      BY <1>1, <3>1, SliceFacts
    <3> DEFINE d == x.to - x.from
               e == to[x].to - to[x].from
    <3>4. d \in Nat /\ e \in Nat /\ d <= e
      BY <3>1, <3>3
    <3>5. MinutesOf(x) = Rounded(d * Precision, Minute)
          /\ MinutesOf(to[x]) = Rounded(e * Precision, Minute)
      BY DEF MinutesOf
    <3> HIDE DEF d, e
    <3>6. d * Precision \in Nat /\ e * Precision \in Nat /\ d * Precision <= e * Precision
      <4>1. Precision * d <= Precision * e
        BY <3>4, Sizes, TimesOrder
      <4> QED
        BY <3>4, <4>1, Sizes
    <3> QED
      BY <3>2, <3>5, <3>6, Sizes, RoundedOrder
  <2>6. i <= j
    <3>1. \A x \in P : c[x] \in Q /\ h[x] \in Nat /\ h[x] <= o[c[x]]
      BY <2>1, <2>5
    <3>2. \A x, y \in P : c[x] = c[y] => x = y
      BY <1>5, <2>1
    <3>3. \A y \in Q : o[y] \in Nat
      BY <2>4
    <3>4. i = SumFunctionOnSet(h, P) /\ j = SumFunctionOnSet(o, Q)
      BY DEF MinutesIn, SumOver
    <3> HIDE DEF P, Q, c, h, o, i, j
    <3> QED
      BY <2>1, <2>4, <3>1, <3>2, <3>3, <3>4, SumUnder
  <2>7. u <= v
    <3>1. PICK x \in P : TRUE
      BY <2>1
    <3>2. x \in S /\ to[x] \in T /\ to[x].from = x.from
          /\ PieceOf(a, x) = k /\ PieceOf(b, to[x]) = k
      BY <1>4, <1>6, <2>1, <2>2
    <3>3. PriceOf(Piece(a, S, PieceOf(a, x)), part) <= PriceOf(Piece(b, T, PieceOf(b, to[x])), part)
      BY <3>2
    <3> QED
      BY <3>2, <3>3
  <2> HIDE DEF P, Q, u, v, i, j, f, g
  <2>8. u * i \in Nat /\ v * j \in Nat /\ u * i <= v * j
    <3>1. u * i <= u * j /\ j * u <= j * v
      BY <2>1, <2>4, <2>6, <2>7, TimesOrder
    <3>2. u * i \in Nat /\ u * j \in Nat /\ v * j \in Nat /\ j * u = u * j /\ j * v = v * j
      BY <2>1, <2>4
    <3> QED
      BY <3>1, <3>2
  <2> QED
    BY <2>1, <2>3, <2>4, <2>8, Sizes, RoundedOrder
<1> HIDE DEF S, T, K, L, f, g
<1>8. /\ SumFunctionOnSet(f, K) \in Nat /\ SumFunctionOnSet(g, L) \in Nat
      /\ SumFunctionOnSet(f, K) <= SumFunctionOnSet(g, L)
  <2>1. K \in SUBSET L /\ \A k \in K : f[k] \in Nat /\ f[k] <= g[k]
    BY <1>2, <1>7
  <2> QED
    BY <1>3, <2>1, SumLess
<1>9. Rounded(SumFunctionOnSet(f, K), Precision) <= Rounded(SumFunctionOnSet(g, L), Precision)
  BY <1>8, Sizes, RoundedOrder
<1> QED
  BY <1>2, <1>3, <1>9 DEF S, T

\* The shorter of two charges that read the same powers costs no more by its power.
LEMMA SamePowersLess ==
  ASSUME NEW spec, Priceable(spec), spec.mode \in ByPower, RisingSpec(spec),
         NEW p, Followed(p), NEW m, Followed(m), EndOf(p) <= EndOf(m),
         Matched(spec, p, spec, m, Same), NEW part \in Parts
  PROVE  PowerCost(Slices(spec, p), spec, part) <= PowerCost(Slices(spec, m), spec, part)
<1>1. SameEnds(spec, spec)
  BY DEF SameEnds
<1>2. Reached(spec, p, spec, m, Same)
  BY <1>1, SlicesMatch
<1>3. ASSUME NEW x \in Slices(spec, p), NEW y \in Slices(spec, m), y.from = x.from
      PROVE  PriceOf(Piece(spec, Slices(spec, p), PieceOf(spec, x)), part)
               <= PriceOf(Piece(spec, Slices(spec, m), PieceOf(spec, y)), part)
  <2> DEFINE P == Piece(spec, Slices(spec, p), PieceOf(spec, x))
             Q == Piece(spec, Slices(spec, m), PieceOf(spec, y))
             w == Top(P)
             v == Top(Q)
  <2> SUFFICES PriceOf(P, part) <= PriceOf(Q, part)
    OBVIOUS
  <2>1. x \in P /\ y \in Q
    BY DEF Piece
  <2>2. /\ PriceOf(P, part) = TierFor(RateAt(spec, x.from), w)[part]
        /\ PriceOf(Q, part) = TierFor(RateAt(spec, x.from), v)[part]
    BY <1>3, <2>1, PiecePrice
  <2>3. /\ w \in Int /\ v \in Int
        /\ spec.mode = "realtime" => w = v
        /\ spec.mode = "peak" => w <= v
    <3>1. \A e \in Same : e[1] <= e[2]
      BY DEF Same
    <3>2. /\ w \in Int /\ v \in Int
          /\ spec.mode = "realtime" => <<w, v>> \in Same
          /\ spec.mode = "peak" => w <= v
      BY <1>1, <1>2, <1>3, <3>1, TopsMatch
    <3>3. <<w, v>> \in Same => w = v
      BY DEF Same
    <3> QED
      BY <3>2, <3>3
  <2>4. x.from \in Int
    BY SliceFacts DEF Followed
  <2> HIDE DEF P, Q, w, v
  <2>5. TierFor(RateAt(spec, x.from), w)[part] \in Nat
    BY <2>4, TierPrice
  <2>6. CASE spec.mode = "realtime"
    BY <2>2, <2>3, <2>5, <2>6
  <2>7. CASE spec.mode = "peak"
    BY <2>2, <2>3, <2>4, <2>7, RisingPrice
  <2> QED
    BY <2>6, <2>7 DEF ByPower
<1> QED
  BY <1>1, <1>2, <1>3, PowerOrder

(* A charge that is cut short costs no more than the whole of it.           *)
LEMMA ShorterCostsLess ==
  ASSUME NEW spec, Priceable(spec), RisingSpec(spec), NEW p \in Meters, NEW m \in Meters,
         PriceActual(spec, p).verdict = "priced", PriceActual(spec, m).verdict = "priced",
         p.from = m.from, p.to <= m.to, p.wh > 0 => m.wh > 0,
         spec.mode \in ByPower /\ ~IsFree(spec, p) /\ ~IsFree(spec, m)
           => Matched(spec, Usage(p), spec, Usage(m), Same),
         spec.mode = "energy" => \A part \in Parts :
           EnergyCost(Usage(p), spec, part) <= EnergyCost(Usage(m), spec, part)
  PROVE  Total(PriceActual(spec, p)) <= Total(PriceActual(spec, m))
<1> DEFINE u == Usage(p)
           v == Usage(m)
<1>1. /\ p.wh \in Nat /\ m.wh \in Nat /\ spec.free \in Int
      /\ WholeMinutes(p) \in Int /\ WholeMinutes(m) \in Int
  BY MeterFacts DEF Priceable
<1>2. Total(PriceActual(spec, m)) \in Nat
  <2>1. PriceActual(spec, m) \in Fees
    BY PriceIsFee
  <2> QED
    BY <2>1 DEF Fees, Total
<1>3. CASE IsFree(spec, p)
  BY <1>2, <1>3, FreeCostsNothing
<1>4. CASE ~IsFree(spec, p)
  <2>1. ~IsFree(spec, m)
    BY <1>1, <1>4, EndOrder DEF IsFree
  <2>2. /\ u \in Meters /\ v \in Meters /\ Followed(u) /\ Followed(v)
        /\ CostOf(spec, u, "electric") \in Nat /\ CostOf(spec, u, "service") \in Nat
        /\ CostOf(spec, v, "electric") \in Nat /\ CostOf(spec, v, "service") \in Nat
        /\ Lowest(spec, u) \in Nat /\ Lowest(spec, v) \in Nat
        /\ PriceActual(spec, p) = Priced(Max({CostOf(spec, u, "electric"), Lowest(spec, u)}),
                                         CostOf(spec, u, "service"))
        /\ PriceActual(spec, m) = Priced(Max({CostOf(spec, v, "electric"), Lowest(spec, v)}),
                                         CostOf(spec, v, "service"))
    BY <1>4, <2>1, PricedIsCost
  <2>3. u.from = v.from /\ u.to <= v.to
    BY UsageIsMeter
  <2>4. spec.mode \in ByPower => Matched(spec, u, spec, v, Same)
    BY <1>4, <2>1
  <2>5. spec.mode = "energy" => \A part \in Parts :
          EnergyCost(u, spec, part) <= EnergyCost(v, spec, part)
    OBVIOUS
  <2> HIDE DEF u, v
  <2>6. /\ WholeMinutes(u) <= WholeMinutes(v) /\ EndOf(u) <= EndOf(v)
        /\ WholeMinutes(u) \in Int /\ WholeMinutes(v) \in Int
    BY <2>2, <2>3, EndOrder, MeterFacts
  <2>7. Lowest(spec, u) <= Lowest(spec, v)
    BY <2>2, <2>6 DEF Lowest
  <2>8. \A part \in Parts : CostOf(spec, u, part) <= CostOf(spec, v, part)
    <3> TAKE part \in Parts
    <3>1. CASE spec.mode = "energy"
      BY <2>5, <3>1 DEF CostOf
    <3>2. CASE spec.mode \in ByPower
      <4>1. PowerCost(Slices(spec, u), spec, part) <= PowerCost(Slices(spec, v), spec, part)
        BY <2>2, <2>4, <2>6, <3>2, SamePowersLess
      <4>2. spec.mode # "energy"
        BY <3>2 DEF ByPower
      <4> QED
        BY <4>1, <4>2 DEF CostOf
    <3> QED
      BY <3>1, <3>2 DEF Priceable, ServerModes, ByPower
  <2>9. /\ CostOf(spec, u, "electric") <= CostOf(spec, v, "electric")
        /\ CostOf(spec, u, "service") <= CostOf(spec, v, "service")
    BY <2>8 DEF Parts
  <2> QED
    BY <2>2, <2>7, <2>9, FeeOrder
<1> QED
  BY <1>3, <1>4

---------------------------------------------------------------------------
\* The samples of one charge are found among those of another.
Found(p, m, g) ==
  /\ \A s \in p.segments : /\ g[s] \in m.segments
                           /\ g[s].from = s.from /\ g[s].to = s.to /\ g[s].wh = s.wh
  /\ \A r, s \in p.segments : g[r] = g[s] => r = s

LEMMA FoundCostsLess ==
  ASSUME NEW spec, Priceable(spec), spec.mode = "energy", NEW p \in Meters, NEW m \in Meters,
         NEW g, Found(p, m, g), NEW part \in Parts
  PROVE  EnergyCost(p, spec, part) <= EnergyCost(m, spec, part)
<1> DEFINE f == [s \in p.segments |-> s.wh * RateAt(spec, s.from)[part]]
           h == [s \in m.segments |-> s.wh * RateAt(spec, s.from)[part]]
           S == p.segments
           T == m.segments
<1>1. IsFiniteSet(S) /\ IsFiniteSet(T)
  BY MeterFacts
<1>2. \A n \in {p, m} : \A s \in n.segments : s.wh * RateAt(spec, s.from)[part] \in Nat
  <2> TAKE n \in {p, m}
  <2> TAKE s \in n.segments
  <2>1. s.from \in Int /\ s.wh \in Nat
    BY MeterFacts
  <2>2. /\ PeriodAt(spec, s.from) \in 1..Len(spec.periods)
        /\ RateAt(spec, s.from) = spec.periods[PeriodAt(spec, s.from)]
    BY <2>1, PeriodFacts
  <2>3. RateAt(spec, s.from)[part] \in Nat
    BY <2>2, EnergyPrice
  <2> QED
    BY <2>1, <2>3
<1>3. (\A s \in S : f[s] \in Nat) /\ (\A s \in T : h[s] \in Nat)
  BY <1>2
<1>4. \A s \in S : g[s] \in T /\ h[g[s]] = f[s]
  BY DEF Found
<1>5. \A r, s \in S : g[r] = g[s] => r = s
  BY DEF Found
<1>6. /\ EnergyCost(p, spec, part) = Rounded(SumFunctionOnSet(f, S), KWh)
      /\ EnergyCost(m, spec, part) = Rounded(SumFunctionOnSet(h, T), KWh)
  BY DEF EnergyCost, SumOver
<1> HIDE DEF f, h, S, T
<1>7. SumFunctionOnSet(f, S) <= SumFunctionOnSet(h, T)
  BY <1>1, <1>3, <1>4, <1>5, SumWithin
<1>8. SumFunctionOnSet(f, S) \in Nat /\ SumFunctionOnSet(h, T) \in Nat
  BY <1>1, <1>3, SumNat
<1> QED
  BY <1>6, <1>7, <1>8, Sizes, RoundedOrder

\* What is drawn in the samples of a charge.
Drawn(m) == SumOver(m.segments, LAMBDA s : s.wh)

LEMMA FoundDrawsLess ==
  ASSUME NEW p \in Meters, NEW m \in Meters, NEW g, Found(p, m, g)
  PROVE  Drawn(p) <= Drawn(m)
<1> DEFINE f == [s \in p.segments |-> s.wh]
           h == [s \in m.segments |-> s.wh]
           S == p.segments
           T == m.segments
<1>1. IsFiniteSet(S) /\ IsFiniteSet(T) /\ \A s \in T : h[s] \in Nat
  BY MeterFacts
<1>2. \A s \in S : g[s] \in T /\ h[g[s]] = f[s]
  BY DEF Found
<1>3. \A r, s \in S : g[r] = g[s] => r = s
  BY DEF Found
<1>4. Drawn(p) = SumFunctionOnSet(f, S) /\ Drawn(m) = SumFunctionOnSet(h, T)
  BY DEF Drawn, SumOver
<1> HIDE DEF f, h, S, T
<1> QED
  BY <1>1, <1>2, <1>3, <1>4, SumWithin

\* Samples that two charges have in common match each other.
LEMMA SharedPowers ==
  ASSUME NEW spec, NEW p \in Meters, NEW m \in Meters, p.segments \subseteq m.segments
  PROVE  Matched(spec, p, spec, m, Same)
<1> SUFFICES ASSUME NEW r \in p.segments
             PROVE  <<Watts(spec, r), Watts(spec, r)>> \in Same /\ r.to <= r.to
  BY DEF Matched
<1>1. r.power \in Int /\ r.peak \in Int /\ r.to \in Int
  BY MeterFacts
<1> QED
  BY <1>1 DEF Watts, Same

(* A charge whose samples are found in a longer one costs no more.          *)
LEMMA FoundIsCheaper ==
  ASSUME NEW spec, Priceable(spec), RisingSpec(spec), NEW p \in Meters, NEW m \in Meters,
         PriceActual(spec, p).verdict = "priced", PriceActual(spec, m).verdict = "priced",
         p.from = m.from, p.to <= m.to, p.segments # {}, m.segments # {},
         NEW g, Found(p, m, g),
         spec.mode \in ByPower /\ p.wh > 0 /\ m.wh > 0 => p.segments \subseteq m.segments
  PROVE  Total(PriceActual(spec, p)) <= Total(PriceActual(spec, m))
<1>1. Usage(p).segments = p.segments /\ Usage(m).segments = m.segments
      /\ Usage(p) \in Meters /\ Usage(m) \in Meters
      /\ Usage(p).wh = p.wh /\ Usage(m).wh = m.wh
  BY UsageIsMeter DEF Segments
<1>2. WellMeasured(spec, Usage(p)) /\ WellMeasured(spec, Usage(m))
  BY PricedIsMeasured
<1>3. p.wh = Drawn(p) /\ m.wh = Drawn(m)
  BY <1>1, <1>2 DEF WellMeasured, Drawn
<1>4. p.wh <= m.wh /\ p.wh \in Nat /\ m.wh \in Nat
  BY <1>3, FoundDrawsLess, MeterFacts
<1>5. ASSUME spec.mode \in ByPower, ~IsFree(spec, p), ~IsFree(spec, m)
      PROVE  Matched(spec, Usage(p), spec, Usage(m), Same)
  <2>1. p.wh > 0 /\ m.wh > 0
    BY <1>4, <1>5 DEF IsFree
  <2>2. p.segments \subseteq m.segments
    BY <1>5, <2>1
  <2>3. Usage(p).segments \subseteq Usage(m).segments
    BY <1>1, <2>2
  <2> QED
    BY <1>1, <2>3, SharedPowers
<1>6. ASSUME spec.mode = "energy"
      PROVE  \A part \in Parts :
               EnergyCost(Usage(p), spec, part) <= EnergyCost(Usage(m), spec, part)
  <2>1. Found(Usage(p), Usage(m), g)
    BY <1>1 DEF Found
  <2> QED
    BY <1>1, <1>6, <2>1, FoundCostsLess
<1>7. p.wh > 0 => m.wh > 0
  BY <1>4
<1> QED
  BY <1>5, <1>6, <1>7, ShorterCostsLess

---------------------------------------------------------------------------
(* The samples of a charge.                                                 *)

\* The instants its samples are cut at.
Points(end) == {start, end} \cup ({b.at : b \in beats} \cap (start..end))
Consecutive(end, t, u) ==
  /\ t \in Points(end) /\ u \in Points(end) /\ t < u
  /\ \A v \in Points(end) : v <= t \/ u <= v
Measured(end) == \E b \in beats : start < b.at /\ b.at <= end

LEMMA PointFacts ==
  ASSUME Sound, NEW end \in start..now
  PROVE  /\ start \in Nat /\ now \in Nat /\ end \in Nat /\ start <= end /\ end <= now
         /\ Points(end) \subseteq start..end /\ Points(end) \in SUBSET Int
         /\ start \in Points(end) /\ end \in Points(end)
         /\ IsFiniteSet(Points(end))
<1>1. start \in Nat /\ now \in Nat /\ end \in Nat /\ start <= end /\ end <= now
  <2>1. start \in Nat /\ now \in Nat
    BY WhFacts
  <2> QED
    BY <2>1
<1>2. Points(end) \subseteq start..end /\ start \in Points(end) /\ end \in Points(end)
  BY <1>1 DEF Points
<1>3. IsFiniteSet(start..end) /\ start..end \in SUBSET Int
  BY <1>1, FS_Interval
<1>4. IsFiniteSet(Points(end)) /\ Points(end) \in SUBSET Int
  BY <1>2, <1>3, FS_Subset
<1> QED
  BY <1>1, <1>2, <1>4

\* Every instant before the end lies between two points, and so does a point.
LEMMA PointUnder ==
  ASSUME Sound, NEW end \in start..now, NEW x \in start..(end - 1)
  PROVE  \E t, u \in Points(end) : Consecutive(end, t, u) /\ t <= x /\ x < u
<1> DEFINE P == Points(end)
           L == {v \in P : v <= x}
           U == {v \in P : x < v}
<1>1. /\ start \in Nat /\ end \in Nat /\ x \in Int /\ start <= x /\ x < end
      /\ P \in SUBSET Int /\ start \in P /\ end \in P /\ IsFiniteSet(P)
  BY PointFacts
<1> HIDE DEF P
<1>2. start \in L /\ end \in U /\ L \in SUBSET Int /\ U \in SUBSET Int
  BY <1>1
<1>3. IsFiniteSet(L) /\ IsFiniteSet(U)
  BY <1>1, FS_Subset
<1> DEFINE t == Max(L)
           u == Min(U)
<1>4. t \in L /\ (\A v \in L : v <= t) /\ u \in U /\ (\A v \in U : u <= v)
  BY <1>2, <1>3, MaxOf, MinOf
<1> HIDE DEF t, u
<1>5. t \in P /\ u \in P /\ t <= x /\ x < u /\ t < u /\ \A v \in P : v <= t \/ u <= v
  BY <1>1, <1>4
<1> QED
  BY <1>5 DEF Consecutive, P

\* The point that follows another one.
LEMMA NextPoint ==
  ASSUME Sound, NEW end \in start..now, NEW t \in Points(end), t # end
  PROVE  /\ Consecutive(end, t, Min({u \in Points(end) : t < u}))
         /\ \A u : Consecutive(end, t, u) => u = Min({v \in Points(end) : t < v})
<1> DEFINE P == Points(end)
           U == {u \in P : t < u}
           n == Min(U)
<1>1. /\ P \in SUBSET Int /\ end \in P /\ IsFiniteSet(P) /\ t \in Int /\ t < end
  BY PointFacts
<1> HIDE DEF P
<1>2. IsFiniteSet(U) /\ U \in SUBSET Int /\ U # {}
  BY <1>1, FS_Subset
<1>3. n \in U /\ \A u \in U : n <= u
  BY <1>2, MinOf
<1> HIDE DEF n
<1>4. n \in P /\ t < n /\ \A v \in P : v <= t \/ n <= v
  BY <1>1, <1>3
<1>5. ASSUME NEW u, u \in P, t < u, \A v \in P : v <= t \/ u <= v
      PROVE  u = n
  BY <1>1, <1>4, <1>5
<1> QED
  BY <1>1, <1>4, <1>5 DEF Consecutive, P, n

\* The samples are those between points that follow one another.
LEMMA SegmentsAre ==
  ASSUME Sound, NEW end \in start..now
  PROVE  /\ ~Measured(end) => MeasuredSegments(end) = {}
         /\ Measured(end) => \A s :
              s \in MeasuredSegments(end) <=>
                \E t, u \in Points(end) : Consecutive(end, t, u) /\ s = Segment(t, u)
<1> DEFINE read == {b.at : b \in beats} \cap (start..end)
           next(t) == Min({u \in Points(end) : t < u})
<1>1. MeasuredSegments(end) = IF read \subseteq {start} THEN {}
                              ELSE {Segment(t, next(t)) : t \in Points(end) \ {end}}
  BY DEF MeasuredSegments, Points
<1>2. start \in Nat /\ end \in Nat /\ Points(end) \in SUBSET Int /\ Points(end) \subseteq start..end
  BY PointFacts
<1>3. read \subseteq {start} <=> ~Measured(end)
  <2>1. \A b \in beats : b.at \in Int /\ start <= b.at
    BY <1>2 DEF Sound
  <2> QED
    BY <1>2, <2>1 DEF Measured
<1>4. ASSUME NEW t \in Points(end) \ {end}
      PROVE  next(t) \in Points(end) /\ Consecutive(end, t, next(t))
  <2>1. Consecutive(end, t, next(t))
    BY NextPoint
  <2> QED
    BY <2>1 DEF Consecutive
<1>5. ASSUME NEW t \in Points(end), NEW u \in Points(end), Consecutive(end, t, u)
      PROVE  t # end /\ u = next(t)
  <2>1. t # end
    BY <1>2, <1>5 DEF Consecutive
  <2> QED
    BY <1>5, <2>1, NextPoint
<1> HIDE DEF next, read
<1> QED
  BY <1>1, <1>3, <1>4, <1>5

LEMMA SegmentIs ==
  ASSUME NEW a, NEW b
  PROVE  /\ Segment(a, b).from = a /\ Segment(a, b).to = b
         /\ Segment(a, b).wh = WhAt(b) - WhAt(a)
BY DEF Segment

\* They follow one another from the start to the end, and each has its place.
LEMMA SegmentsFollow ==
  ASSUME Sound, NEW end \in start..now, Measured(end)
  PROVE  /\ MeasuredSegments(end) # {} /\ start < end
         /\ \A s \in MeasuredSegments(end) :
              /\ Consecutive(end, s.from, s.to) /\ s = Segment(s.from, s.to)
              /\ s.from \in Int /\ s.to \in Int
              /\ start <= s.from /\ s.from < s.to /\ s.to <= end
         /\ \A x \in start..(end - 1) : \E s \in MeasuredSegments(end) : At(s, x)
         /\ \A r, s \in MeasuredSegments(end) : r.from < s.to /\ s.from < r.to => r = s
<1> DEFINE M == MeasuredSegments(end)
<1>1. /\ start \in Nat /\ end \in Nat
      /\ Points(end) \in SUBSET Int /\ Points(end) \subseteq start..end
  BY PointFacts
<1>2. \A s : s \in M <=> \E t, u \in Points(end) : Consecutive(end, t, u) /\ s = Segment(t, u)
  BY SegmentsAre
<1> HIDE DEF M
<1>3. ASSUME NEW s \in M
      PROVE  /\ Consecutive(end, s.from, s.to) /\ s = Segment(s.from, s.to)
             /\ s.from \in Int /\ s.to \in Int
             /\ start <= s.from /\ s.from < s.to /\ s.to <= end
  <2>1. PICK t \in Points(end), u \in Points(end) : Consecutive(end, t, u) /\ s = Segment(t, u)
    BY <1>2
  <2>2. s.from = t /\ s.to = u
    BY <2>1, SegmentIs
  <2> QED
    BY <1>1, <2>1, <2>2 DEF Consecutive
<1>4. ASSUME NEW x \in start..(end - 1) PROVE \E s \in M : At(s, x)
  <2>1. PICK t \in Points(end), u \in Points(end) : Consecutive(end, t, u) /\ t <= x /\ x < u
    BY PointUnder
  <2>2. Segment(t, u) \in M /\ Segment(t, u).from = t /\ Segment(t, u).to = u
    BY <1>2, <2>1, SegmentIs
  <2> QED
    BY <2>1, <2>2 DEF At
<1>5. ASSUME NEW r \in M, NEW s \in M, r.from < s.to, s.from < r.to
      PROVE  r = s
  <2>1. /\ Consecutive(end, s.from, s.to) /\ s = Segment(s.from, s.to)
        /\ Consecutive(end, r.from, r.to) /\ r = Segment(r.from, r.to)
        /\ s.from \in Int /\ s.to \in Int /\ r.from \in Int /\ r.to \in Int
    BY <1>3
  <2>2. r.from <= s.from /\ s.from <= r.from /\ s.to <= r.to /\ r.to <= s.to
    BY <1>5, <2>1 DEF Consecutive
  <2>3. r.from = s.from /\ r.to = s.to
    BY <2>1, <2>2
  <2> QED
    BY <2>1, <2>3
<1>6. start < end
  BY <1>1 DEF Measured, Sound
<1>7. M # {}
  <2>1. start \in start..(end - 1)
    BY <1>1, <1>6
  <2> QED
    BY <1>4, <2>1
<1> QED
  BY <1>3, <1>4, <1>5, <1>6, <1>7 DEF M

\* What the meter counts between two instants.
LEMMA WhBetween ==
  ASSUME Sound, NEW a \in start..now, NEW b \in start..now, a <= b
  PROVE  /\ WhAt(a) = SumFunctionOnSet(drawn, 1..(a - start))
         /\ WhAt(b) - WhAt(a) = SumFunctionOnSet(drawn, (a - start + 1)..(b - start))
<1>1. /\ start \in Nat /\ Len(drawn) \in Nat /\ now = start + Len(drawn)
      /\ \A i \in 1..Len(drawn) : drawn[i] \in Int
  BY WhFacts DEF now, Sound
<1>2. a \in Int /\ b \in Int /\ start <= a /\ b <= now
  BY <1>1
<1>3. \A t \in start..now : WhAt(t) = SumFunctionOnSet(drawn, 1..(t - start))
  <2> TAKE t \in start..now
  <2> DEFINE n == t - start
             h == [i \in 1..n |-> drawn[i]]
  <2>1. n \in Int
    BY <1>1
  <2>2. WhAt(t) = SumFunctionOnSet(h, 1..n)
    BY DEF WhAt, SumOver
  <2>3. \A i \in 1..n : h[i] = drawn[i]
    OBVIOUS
  <2> HIDE DEF n, h
  <2>4. IsFiniteSet(1..n)
    BY <2>1, FS_Interval
  <2>5. SumFunctionOnSet(h, 1..n) = SumFunctionOnSet(drawn, 1..n)
    BY <2>3, <2>4, SumSame
  <2> QED
    BY <2>2, <2>5 DEF n
<1> DEFINE k == a - start
           n == b - start
           S == 1..k
           T == (k + 1)..n
<1>4. k \in Nat /\ n \in Nat /\ k <= n /\ n <= Len(drawn)
  BY <1>1, <1>2
<1>5. WhAt(a) = SumFunctionOnSet(drawn, 1..k) /\ WhAt(b) = SumFunctionOnSet(drawn, 1..n)
  BY <1>3
<1>6. (a - start + 1)..(b - start) = T
  OBVIOUS
<1> HIDE DEF k, n
<1>7. S \cup T = 1..n /\ S \cap T = {} /\ \A i \in S \cup T : drawn[i] \in Int
  BY <1>1, <1>4, SMTT(60)
<1>8. IsFiniteSet(S) /\ IsFiniteSet(T)
  <2>1. k + 1 \in Int
    BY <1>4
  <2> QED
    BY <1>4, <2>1, FS_Interval
<1> HIDE DEF S, T
<1>9. SumFunctionOnSet(drawn, S \cup T) = SumFunctionOnSet(drawn, S) + SumFunctionOnSet(drawn, T)
  BY <1>7, <1>8, SumUnion
<1>10. SumFunctionOnSet(drawn, S) \in Int /\ SumFunctionOnSet(drawn, T) \in Int
  BY <1>7, <1>8, SumInt
<1>11. WhAt(b) - WhAt(a) = SumFunctionOnSet(drawn, T)
  <2>1. WhAt(a) = SumFunctionOnSet(drawn, S)
    BY <1>5 DEF S
  <2>2. WhAt(b) = SumFunctionOnSet(drawn, S) + SumFunctionOnSet(drawn, T)
    BY <1>5, <1>7, <1>9
  <2> QED
    BY <1>10, <2>1, <2>2
<1>12. WhAt(a) = SumFunctionOnSet(drawn, 1..(a - start))
  BY <1>3
<1> QED
  BY <1>6, <1>11, <1>12

\* The samples up to a point add up to what the meter read there.
LEMMA WhUpTo ==
  ASSUME Sound, NEW end \in start..now, Measured(end), NEW c \in Points(end),
         NEW K, K = {s \in MeasuredSegments(end) : s.to <= c}
  PROVE  SumOver(K, LAMBDA s : s.wh) = WhAt(c)
<1> DEFINE f == [s \in K |-> s.wh]
           part == [s \in K |-> (s.from - start + 1)..(s.to - start)]
<1>1. /\ start \in Nat /\ end \in Nat /\ now \in Nat /\ end <= now
      /\ c \in Int /\ start <= c /\ c <= end
      /\ now = start + Len(drawn) /\ Len(drawn) \in Nat
      /\ \A i \in 1..Len(drawn) : drawn[i] \in Int
  BY PointFacts, WhFacts DEF now, Sound
<1>2. ASSUME NEW s \in K
      PROVE  /\ s \in MeasuredSegments(end) /\ s.from \in Int /\ s.to \in Int
             /\ start <= s.from /\ s.from < s.to /\ s.to <= c
             /\ s = Segment(s.from, s.to)
  BY SegmentsFollow
<1>3. IsFiniteSet(K)
  <2>1. MeterAt(end) \in Meters
    BY MeterAtIsMeter
  <2>2. IsFiniteSet(MeasuredSegments(end))
    BY <2>1, MeterFacts DEF MeterAt
  <2> QED
    BY <2>2, FS_Subset
<1>4. ASSUME NEW s \in K
      PROVE  /\ IsFiniteSet(part[s]) /\ part[s] \subseteq 1..(c - start)
             /\ f[s] = SumFunctionOnSet(drawn, part[s])
  <2> DEFINE a == s.from
             b == s.to
  <2>1. a \in start..now /\ b \in start..now /\ a <= b /\ a \in Int /\ b \in Int
        /\ start <= a /\ b <= c /\ s = Segment(a, b)
    BY <1>1, <1>2
  <2>2. part[s] = (a - start + 1)..(b - start) /\ f[s] = s.wh
    OBVIOUS
  <2> HIDE DEF a, b, part, f
  <2>3. s.wh = WhAt(b) - WhAt(a)
    <3>1. Segment(a, b).wh = WhAt(b) - WhAt(a)
      BY SegmentIs
    <3> QED
      BY <2>1, <3>1
  <2>4. WhAt(b) - WhAt(a) = SumFunctionOnSet(drawn, (a - start + 1)..(b - start))
    BY <2>1, WhBetween
  <2>5. a - start + 1 \in Int /\ b - start \in Int /\ 1 <= a - start + 1 /\ b - start <= c - start
    BY <1>1, <2>1
  <2>6. IsFiniteSet((a - start + 1)..(b - start))
    BY <2>5, FS_Interval
  <2>7. (a - start + 1)..(b - start) \subseteq 1..(c - start)
    BY <1>1, <2>5
  <2> QED
    BY <2>2, <2>3, <2>4, <2>6, <2>7
<1>5. ASSUME NEW r \in K, NEW s \in K, r # s PROVE part[r] \cap part[s] = {}
  <2> SUFFICES ASSUME NEW i, i \in part[r], i \in part[s] PROVE FALSE
    OBVIOUS
  <2>1. r.from \in Int /\ r.to \in Int /\ s.from \in Int /\ s.to \in Int
    BY <1>2
  <2>2. /\ i \in (r.from - start + 1)..(r.to - start)
        /\ i \in (s.from - start + 1)..(s.to - start)
    OBVIOUS
  <2> HIDE DEF part
  <2> DEFINE a == r.from
             b == r.to
             x == s.from
             y == s.to
  <2>3. a < y /\ x < b
    <3>1. /\ a \in Int /\ b \in Int /\ x \in Int /\ y \in Int /\ start \in Int
          /\ i \in (a - start + 1)..(b - start) /\ i \in (x - start + 1)..(y - start)
      BY <1>1, <2>1, <2>2
    <3> HIDE DEF a, b, x, y
    <3>2. i \in Int /\ a - start + 1 <= i /\ i <= b - start /\ x - start + 1 <= i /\ i <= y - start
      BY <3>1
    <3> QED
      BY <3>1, <3>2
  <2> QED
    BY <1>2, <1>5, <2>3, SegmentsFollow
<1>6. UNION {part[s] : s \in K} = 1..(c - start)
  <2>1. ASSUME NEW i \in 1..(c - start) PROVE \E s \in K : i \in part[s]
    <3> DEFINE x == start + i - 1
    <3>1. x \in start..(end - 1) /\ x < c /\ x \in Int /\ i = x - start + 1
      BY <1>1
    <3> HIDE DEF x
    <3>2. PICK s \in MeasuredSegments(end) : At(s, x)
      BY <3>1, SegmentsFollow
    <3>3. /\ s.from \in Int /\ s.to \in Int /\ Consecutive(end, s.from, s.to)
          /\ start <= s.from /\ s.from <= x /\ x < s.to
      BY <3>2, SegmentsFollow DEF At
    <3>4. s.to <= c
      BY <1>1, <3>1, <3>3 DEF Consecutive
    <3>5. s \in K /\ i \in (s.from - start + 1)..(s.to - start)
      BY <1>1, <3>1, <3>3, <3>4, SMTT(60)
    <3> QED
      BY <3>5
  <2> HIDE DEF part
  <2> QED
    BY <1>4, <2>1
<1>7. SumOver(K, LAMBDA s : s.wh) = SumFunctionOnSet(f, K)
  BY DEF SumOver
<1> HIDE DEF f, part
<1>8. \A s \in K : \A i \in part[s] : drawn[i] \in Int
  <2>1. c - start <= Len(drawn) /\ c - start \in Int
    BY <1>1
  <2>2. 1..(c - start) \subseteq 1..Len(drawn)
    BY <1>1, <2>1
  <2> QED
    BY <1>1, <1>4, <2>2
<1>9. SumFunctionOnSet(f, K) = SumFunctionOnSet(drawn, UNION {part[s] : s \in K})
  <2>1. \A s \in K : IsFiniteSet(part[s]) /\ f[s] = SumFunctionOnSet(drawn, part[s])
    BY <1>4
  <2>2. \A r, s \in K : r # s => part[r] \cap part[s] = {}
    BY <1>5
  <2> QED
    BY <1>3, <1>8, <2>1, <2>2, SumParts, SMTT(40)
<1>10. WhAt(c) = SumFunctionOnSet(drawn, 1..(c - start))
  <2>1. c \in start..now /\ c <= c
    BY <1>1
  <2> QED
    BY <2>1, WhBetween
<1> QED
  BY <1>6, <1>7, <1>9, <1>10

\* A charge looked at earlier has the samples up to then.
LEMMA EarlierSamples ==
  ASSUME Sound, NEW end \in start..now, NEW c \in Points(end), start < c
  PROVE  /\ c \in start..now /\ Measured(end) => Measured(c)
         /\ Measured(c) => Measured(end)
         /\ Measured(end) =>
              MeasuredSegments(c) = {s \in MeasuredSegments(end) : s.to <= c}
<1>1. /\ start \in Nat /\ end \in Nat /\ now \in Nat /\ end <= now
      /\ c \in Int /\ c <= end /\ Points(end) \in SUBSET Int
  BY PointFacts
<1>2. c \in start..now
  BY <1>1
<1>3. \A b \in beats : b.at \in Int
  BY <1>1 DEF Sound
<1>4. Measured(end) => Measured(c)
  BY <1>1, <1>3 DEF Measured, Points
<1>5. Measured(c) => Measured(end)
  BY <1>1, <1>3 DEF Measured
<1>6. Points(c) = {v \in Points(end) : v <= c}
  BY <1>1 DEF Points
<1>7. \A t, u : Consecutive(c, t, u) <=> Consecutive(end, t, u) /\ u <= c
  <2> TAKE t, u
  <2>1. Consecutive(c, t, u) => Consecutive(end, t, u) /\ u <= c
    BY <1>1, <1>6 DEF Consecutive
  <2>2. Consecutive(end, t, u) /\ u <= c => Consecutive(c, t, u)
    BY <1>1, <1>6 DEF Consecutive
  <2> QED
    BY <2>1, <2>2
<1>8. ASSUME Measured(end)
      PROVE  MeasuredSegments(c) = {s \in MeasuredSegments(end) : s.to <= c}
  <2> DEFINE M == MeasuredSegments(end)
             N == MeasuredSegments(c)
  <2>1. \A s : s \in M <=>
          \E t, u \in Points(end) : Consecutive(end, t, u) /\ s = Segment(t, u)
    BY <1>8, SegmentsAre
  <2>2. \A s : s \in N <=>
          \E t, u \in Points(c) : Consecutive(c, t, u) /\ s = Segment(t, u)
    BY <1>2, <1>4, <1>8, SegmentsAre
  <2>3. \A t, u : Segment(t, u).to = u
    BY SegmentIs
  <2> HIDE DEF M, N
  <2>4. ASSUME NEW s \in N PROVE s \in M /\ s.to <= c
    <3>1. PICK t \in Points(c), u \in Points(c) : Consecutive(c, t, u) /\ s = Segment(t, u)
      BY <2>2
    <3> QED
      BY <1>6, <1>7, <2>1, <2>3, <3>1
  <2>5. ASSUME NEW s \in M, s.to <= c PROVE s \in N
    <3>1. PICK t \in Points(end), u \in Points(end) : Consecutive(end, t, u) /\ s = Segment(t, u)
      BY <2>1
    <3>2. u <= c
      BY <2>3, <2>5, <3>1
    <3>3. Consecutive(c, t, u)
      BY <1>7, <3>1, <3>2
    <3>4. t \in Points(c) /\ u \in Points(c)
      BY <3>3 DEF Consecutive
    <3> QED
      BY <2>2, <3>1, <3>3, <3>4
  <2>6. N = {s \in M : s.to <= c}
    BY <2>4, <2>5
  <2> QED
    BY <2>6 DEF M, N
<1> QED
  BY <1>2, <1>4, <1>5, <1>8

---------------------------------------------------------------------------
(* The preview of a scheme.                                                 *)

\* A purchase of an amount is settled at what the meter costs, up to its price.
LEMMA AmountSettled ==
  ASSUME Sound, Mode = "amount", NEW m \in Meters
  PROVE  LET fee == SettleSession(scheme, purchase, m)
             raw == PriceActual(Rule, m)
         IN  /\ fee.verdict = "priced" <=> raw.verdict = "priced"
             /\ raw.verdict = "priced" =>
                  /\ Priceable(Rule) /\ Total(raw) \in Nat
                  /\ Total(raw) > Price(purchase) => Total(fee) = Price(purchase)
                  /\ Total(raw) <= Price(purchase) => Total(fee) = Total(raw)
             /\ raw.verdict # "priced" => Total(fee) = 0
<1> DEFINE fee == SettleSession(scheme, purchase, m)
           raw == PriceActual(Rule, m)
           price == Price(purchase)
<1>1. Written(Rule) /\ price \in Nat
  BY PurchaseFacts
<1>2. raw \in Fees
  BY <1>1, WrittenIsFee
<1>3. ASSUME m.doubtful \/ ~ValidSpec(Rule)
      PROVE  fee = raw /\ fee \in {NeedsReview, BadRule}
  BY <1>3 DEF SettleSession, PriceActual, Rule
<1>4. ASSUME ~m.doubtful, ValidSpec(Rule)
      PROVE  fee = IF raw.verdict = "priced" /\ Total(raw) > price
                   THEN SplitFee(raw, price) ELSE raw
  BY <1>4 DEF SettleSession, SettleAmount, Rule, Mode
<1>5. ASSUME ~m.doubtful, ValidSpec(Rule), raw.verdict # "priced" PROVE raw = NeedsReview
  BY <1>4, <1>5 DEF PriceActual, Cost, Priced
<1> HIDE DEF fee, raw, price
<1>6. CASE m.doubtful \/ ~ValidSpec(Rule)
  <2>1. fee = raw /\ fee.verdict # "priced" /\ Total(fee) = 0
    BY <1>3, <1>6 DEF NeedsReview, BadRule, Total
  <2> QED
    BY <2>1 DEF fee, raw, price
<1>7. CASE ~m.doubtful /\ ValidSpec(Rule)
  <2>1. fee = IF raw.verdict = "priced" /\ Total(raw) > price THEN SplitFee(raw, price) ELSE raw
    BY <1>4, <1>7
  <2>2. Priceable(Rule)
    BY <1>1, <1>7 DEF Written, Priceable
  <2>3. Total(raw) \in Nat
    BY <1>2 DEF Fees, Total
  <2>4. SplitFee(raw, price).verdict = "priced" /\ Total(SplitFee(raw, price)) = price
    BY <1>1, <1>2, SplitIsTotal
  <2>5. raw.verdict # "priced" => fee = raw /\ Total(fee) = 0
    BY <1>5, <1>7, <2>1 DEF NeedsReview, Total
  <2>6. Total(raw) <= price => ~(Total(raw) > price)
    BY <1>1, <2>3
  <2>7. /\ fee.verdict = "priced" <=> raw.verdict = "priced"
        /\ raw.verdict = "priced" =>
             /\ Total(raw) > price => Total(fee) = price
             /\ Total(raw) <= price => Total(fee) = Total(raw)
    BY <2>1, <2>4, <2>6
  <2> QED
    BY <2>2, <2>3, <2>5, <2>7 DEF fee, raw, price
<1> QED
  BY <1>6, <1>7

\* So the charge that costs no more is settled at no more.
LEMMA AmountOrder ==
  ASSUME Sound, Mode = "amount", NEW p \in Meters, NEW m \in Meters,
         PriceActual(Rule, m).verdict = "priced",
         PriceActual(Rule, p).verdict = "priced" =>
           Total(PriceActual(Rule, p)) <= Total(PriceActual(Rule, m))
  PROVE  Total(SettleSession(scheme, purchase, p)) <= Total(SettleSession(scheme, purchase, m))
<1> DEFINE a == Total(PriceActual(Rule, p))
           b == Total(PriceActual(Rule, m))
           x == Total(SettleSession(scheme, purchase, p))
           y == Total(SettleSession(scheme, purchase, m))
           price == Price(purchase)
<1>1. /\ b \in Nat /\ price \in Nat
      /\ b > price => y = price
      /\ b <= price => y = b
  BY AmountSettled, PurchaseFacts
<1>2. CASE PriceActual(Rule, p).verdict = "priced"
  <2>1. /\ a \in Nat /\ a <= b
        /\ a > price => x = price
        /\ a <= price => x = a
    BY <1>2, AmountSettled
  <2> HIDE DEF a, b, x, y, price
  <2>2. x <= y
    BY <1>1, <2>1
  <2> QED
    BY <2>2 DEF x, y
<1>3. CASE PriceActual(Rule, p).verdict # "priced"
  <2>1. x = 0
    BY <1>3, AmountSettled
  <2> HIDE DEF a, b, x, y, price
  <2>2. x <= y
    BY <1>1, <2>1
  <2> QED
    BY <2>2 DEF x, y
<1> QED
  BY <1>2, <1>3

\* The part of a meter up to one of its readings.
LEMMA PrefixIsMeter ==
  ASSUME NEW m \in Meters, NEW t \in Int, m.from <= t
  PROVE  /\ Prefix(m, t) \in Meters
         /\ Prefix(m, t).segments = {s \in m.segments : s.to <= t}
         /\ Prefix(m, t).from = m.from /\ Prefix(m, t).to = t
<1> DEFINE K == {s \in m.segments : s.to <= t}
           f == [s \in K |-> s.wh]
           wh == SumOver(K, LAMBDA s : s.wh)
<1>1. /\ m.from \in Int /\ m.segments \subseteq Samples /\ IsFiniteSet(m.segments)
      /\ \A s \in m.segments : s.wh \in Nat
  BY MeterFacts
<1>2. IsFiniteSet(K) /\ K \in SUBSET Samples /\ \A s \in K : f[s] \in Nat
  BY <1>1, FS_Subset
<1>3. wh = SumFunctionOnSet(f, K)
  BY DEF SumOver
<1>4. Prefix(m, t) = [m EXCEPT !.segments = K, !.to = t, !.used = t - m.from, !.wh = wh]
  BY DEF Prefix
<1> HIDE DEF K, f, wh
<1>5. wh \in Nat
  BY <1>2, <1>3, SumNat
<1>6. t - m.from \in Nat
  BY <1>1
<1>7. m \in [from : Int, to : Int, used : Nat, wh : Nat, segments : SUBSET Samples,
             doubtful : BOOLEAN]
  BY DEF Meters
<1>8. /\ Prefix(m, t) \in [from : Int, to : Int, used : Nat, wh : Nat,
                           segments : SUBSET Samples, doubtful : BOOLEAN]
      /\ Prefix(m, t).segments = K /\ Prefix(m, t).from = m.from /\ Prefix(m, t).to = t
  BY <1>2, <1>4, <1>5, <1>6, <1>7
<1> QED
  BY <1>2, <1>8 DEF Meters, K

\* Stopping at the reading which uses the amount up changes no settlement.
LEMMA StoppedIsSettled ==
  ASSUME Sound, Mode = "amount", RisingSpec(Rule), NEW m \in Meters,
         PriceActual(Rule, m).verdict = "priced"
  PROVE  Total(SettleSession(scheme, purchase, PreviewStop(Rule, Price(purchase), m)))
           = Total(SettleSession(scheme, purchase, m))
<1> DEFINE price == Price(purchase)
           D == {s.to : s \in m.segments}
           fees == [t \in D |-> PriceActual(Rule, Prefix(m, t))]
           ending == {t \in D : fees[t].verdict # "priced" \/ Total(fees[t]) >= price}
           first == Min(ending)
           n == PreviewStop(Rule, price, m)
<1>1. n = IF ending = {} \/ fees[first].verdict # "priced" THEN m ELSE Prefix(m, first)
  BY DEF PreviewStop
<1>2. CASE ending = {} \/ fees[first].verdict # "priced"
  BY <1>1, <1>2, ZenonT(60)
<1>3. CASE ending # {} /\ fees[first].verdict = "priced"
  <2>1. first \in ending
    <3> DEFINE to == [s \in m.segments |-> s.to]
    <3>1. IsFiniteSet({to[s] : s \in m.segments})
      <4> HIDE DEF to
      <4> QED
        BY MeterFacts, ImageFinite
    <3>2. IsFiniteSet(D) /\ D \in SUBSET Int
      BY <3>1, MeterFacts, ZenonT(60)
    <3> HIDE DEF D, fees
    <3>3. IsFiniteSet(ending) /\ ending \in SUBSET Int
      BY <3>2, FS_Subset
    <3> HIDE DEF ending
    <3> QED
      BY <1>3, <3>3, MinOf
  <2> DEFINE p == Prefix(m, first)
  <2>2. /\ first \in D /\ PriceActual(Rule, p).verdict = "priced"
        /\ Total(PriceActual(Rule, p)) >= price
    BY <1>3, <2>1, ZenonT(60)
  <2>3. PICK s \in m.segments : s.to = first
    BY <2>2
  <2>4. WellMeasured(Rule, Usage(m)) /\ Usage(m).segments = m.segments
        /\ Usage(m).from = m.from /\ Usage(m).to = m.to
    BY <2>3, PricedIsMeasured, UsageIsMeter DEF Segments
  <2>5. /\ first \in Int /\ m.from <= first /\ first <= m.to
    <3>1. /\ m.from <= s.from /\ s.from <= s.to /\ s.to <= m.to
          /\ m.from \in Int /\ s.from \in Int /\ s.to \in Int
      BY <2>4, MeterFacts DEF WellMeasured, Chained
    <3> QED
      BY <2>3, <3>1
  <2> HIDE DEF first, fees, ending, D
  <2>6. /\ p \in Meters /\ p.segments = {r \in m.segments : r.to <= first}
        /\ p.from = m.from /\ p.to = first
    BY <2>5, PrefixIsMeter
  <2>7. s \in p.segments /\ p.segments \subseteq m.segments
    BY <2>3, <2>5, <2>6
  <2>8. Found(p, m, [r \in p.segments |-> r])
    BY <2>7 DEF Found
  <2>9. Priceable(Rule)
    BY AmountSettled
  <2> HIDE DEF p
  <2>10. Total(PriceActual(Rule, p)) <= Total(PriceActual(Rule, m))
    BY <2>2, <2>5, <2>6, <2>7, <2>8, <2>9, FoundIsCheaper DEF p
  <2>11. /\ Total(SettleSession(scheme, purchase, p)) = price
         /\ Total(SettleSession(scheme, purchase, m)) = price
    <3> DEFINE a == Total(PriceActual(Rule, p))
               b == Total(PriceActual(Rule, m))
               x == Total(SettleSession(scheme, purchase, p))
               y == Total(SettleSession(scheme, purchase, m))
    <3>1. /\ a \in Nat /\ b \in Nat /\ price \in Nat /\ a >= price /\ a <= b
          /\ a > price => x = price
          /\ a <= price => x = a
          /\ b > price => y = price
          /\ b <= price => y = b
      BY <2>2, <2>6, <2>10, AmountSettled, PurchaseFacts DEF p
    <3> HIDE DEF a, b, x, y, price
    <3>2. x = price /\ y = price
      BY <3>1
    <3> QED
      BY <3>2 DEF x, y
  <2>12. n = p
    BY <1>1, <1>3 DEF p
  <2> QED
    BY <2>11, <2>12
<1> QED
  BY <1>2, <1>3

---------------------------------------------------------------------------
(* What a stop and a bill remember.                                         *)

\* A heartbeat is known by its instant; a charge is cut off within its limit; what
\* a budget stop decided still follows from what was recorded by its instant; and
\* a bill is the fee.
Recorded ==
  /\ \A b, c \in beats : b.at = c.at => b = c
  /\ cutoff # NoCutoff /\ Mode = "amount" => cutoff.at <= start + Limit
  /\ cutoff.reason = "budget_exhausted" =>
       /\ Mode = "amount"
       /\ \E t \in start..now :
            /\ cutoff.at = t /\ Seen(t)
            /\ LET plan == BudgetStop(Rule, Price(purchase), MeterAt(t))
               IN  plan.stop /\ cutoff.exact = plan.exact /\ cutoff.fee = plan.fee
  /\ stage = "billed" => bill = Fee /\ bill.verdict = "priced"

\* As long as no heartbeat is added up to an instant, the meter there stays.
SegmentsCut ==
  \A end \in start..now :
    /\ ~Measured(end) => MeasuredSegments(end) = {}
    /\ Measured(end) => \A s :
         s \in MeasuredSegments(end) <=>
           \E t, u \in Points(end) : Consecutive(end, t, u) /\ s = Segment(t, u)

LEMMA SegmentsAreCut == Sound => SegmentsCut
BY SegmentsAre DEF SegmentsCut

LEMMA MeterStays ==
  ASSUME Sound, Sound', NEW t \in start..now, start' = start, t \in (start..now)',
         \A u \in start..t : WhAt(u)' = WhAt(u),
         \A u \in start..t : \A b : b \in beats' /\ b.at = u <=> b \in beats /\ b.at = u,
         \A b, c \in beats : b.at = c.at => b = c
  PROVE  MeterAt(t)' = MeterAt(t)
<1>1. /\ start \in Nat /\ t \in Nat /\ start <= t /\ start \in start..t /\ t \in start..t
  BY PointFacts
<1>2. \A u \in start..t : Seen(u)' <=> Seen(u)
  BY DEF Seen
<1>3. ASSUME NEW u \in start..t, Seen(u) PROVE BeatAt(u)' = BeatAt(u)
  <2>1. BeatAt(u) \in beats /\ BeatAt(u).at = u
    BY <1>3 DEF Seen, BeatAt
  <2>2. BeatAt(u)' \in beats' /\ BeatAt(u)'.at = u
    <3>1. Seen(u)'
      BY <1>2, <1>3
    <3>2. \E b \in beats' : b.at = u
      BY <3>1 DEF Seen
    <3> QED
      BY <3>2 DEF BeatAt
  <2> QED
    BY <2>1, <2>2
<1>4. Points(t)' = Points(t) /\ Points(t) \subseteq start..t
  <2>1. ({b.at : b \in beats} \cap (start..t))' = {b.at : b \in beats} \cap (start..t)
    OBVIOUS
  <2> QED
    BY <1>1, <2>1 DEF Points
<1>5. \A x, u : Consecutive(t, x, u)' <=> Consecutive(t, x, u)
  BY <1>4 DEF Consecutive
<1>6. ASSUME NEW x \in start..t, NEW u \in start..t PROVE Segment(x, u)' = Segment(x, u)
  <2> DEFINE power(y) == IF Seen(y) THEN BeatAt(y).power ELSE 0
             known == Seen(x) /\ u - x <= Minute
  <2>1. power(x)' = power(x) /\ power(u)' = power(u) /\ known' = known
    BY <1>2, <1>3
  <2>2. WhAt(x)' = WhAt(x) /\ WhAt(u)' = WhAt(u)
    OBVIOUS
  <2>3. Segment(x, u) = [from |-> x, to |-> u, wh |-> WhAt(u) - WhAt(x),
                         power |-> IF known THEN power(x) ELSE Unknown,
                         peak |-> IF known THEN Max({power(x), power(u)}) ELSE 0]
    BY DEF Segment
  <2>4. Segment(x, u)' = [from |-> x, to |-> u, wh |-> WhAt(u)' - WhAt(x)',
                          power |-> IF known' THEN power(x)' ELSE Unknown,
                          peak |-> IF known' THEN Max({power(x)', power(u)'}) ELSE 0]
    BY DEF Segment
  <2> HIDE DEF power, known
  <2> QED
    BY <2>1, <2>2, <2>3, <2>4
<1>7. Measured(t)' <=> Measured(t)
  <2>1. \A b \in beats : b.at \in Int /\ b.at \in start..now
    BY <1>1 DEF Sound
  <2>2. \A b \in beats' : b.at \in Int /\ b.at \in (start..now)'
    BY <1>1 DEF Sound
  <2>3. \A b : b \in beats' /\ start < b.at /\ b.at <= t => b \in beats
    BY <1>1, <2>2
  <2>4. \A b : b \in beats /\ start < b.at /\ b.at <= t => b \in beats'
    BY <1>1, <2>1
  <2> QED
    BY <2>3, <2>4 DEF Measured
<1>8. SegmentsCut /\ SegmentsCut'
  <2>1. (Sound => SegmentsCut)'
    BY SegmentsAreCut, PTL
  <2> QED
    BY <2>1, SegmentsAreCut
<1>9. MeasuredSegments(t)' = MeasuredSegments(t)
  <2>1. CASE ~Measured(t)
    BY <1>7, <1>8, <2>1 DEF SegmentsCut
  <2>2. CASE Measured(t)
    <3>1. \A s : s \in MeasuredSegments(t) <=>
            \E x, u \in Points(t) : Consecutive(t, x, u) /\ s = Segment(x, u)
      BY <1>8, <2>2 DEF SegmentsCut
    <3>2. \A s : s \in MeasuredSegments(t)' <=>
            \E x, u \in Points(t)' : Consecutive(t, x, u)' /\ s = Segment(x, u)'
      BY <1>7, <1>8, <2>2 DEF SegmentsCut
    <3>3. \A x, u \in Points(t) : Segment(x, u)' = Segment(x, u)
      BY <1>4, <1>6
    <3>4. \A s : s \in MeasuredSegments(t)' <=> s \in MeasuredSegments(t)
      BY <1>4, <1>5, <3>1, <3>2, <3>3
    <3> QED
      BY <3>4
  <2> QED
    BY <2>1, <2>2
<1>10. WhAt(t)' = WhAt(t)
  BY <1>1
<1> QED
  BY <1>9, <1>10 DEF MeterAt

LEMMA MeterStaysDraw ==
  ASSUME Sound, Sound', Recorded, Draw, NEW t \in start..now
  PROVE  t \in (start..now)' /\ MeterAt(t)' = MeterAt(t)
<1>1. PICK wh \in {0, 1} : drawn' = Append(drawn, wh)
  BY DEF Draw
<1>2. start' = start /\ beats' = beats
  BY DEF Draw, contract
<1>3. /\ start \in Nat /\ Len(drawn) \in Nat /\ drawn \in Seq({0, 1}) /\ now = start + Len(drawn)
  BY WhFacts DEF Sound, now
<1>4. /\ Len(drawn') = Len(drawn) + 1 /\ now' = now + 1
      /\ \A i \in 1..Len(drawn) : drawn'[i] = drawn[i]
  BY <1>1, <1>2, <1>3 DEF now
<1>5. t \in (start..now)'
  BY <1>2, <1>3, <1>4
<1>6. ASSUME NEW u \in start..t PROVE WhAt(u)' = WhAt(u)
  <2> DEFINE n == u - start
             f == [i \in 1..n |-> drawn[i]]
             g == [i \in 1..n |-> drawn'[i]]
  <2>1. n \in Nat /\ n <= Len(drawn)
    BY <1>3
  <2>2. \A i \in 1..n : f[i] = g[i]
    BY <1>3, <1>4, <2>1
  <2>3. WhAt(u) = SumFunctionOnSet(f, 1..n) /\ WhAt(u)' = SumFunctionOnSet(g, 1..n)
    BY <1>2 DEF WhAt, SumOver
  <2> HIDE DEF n, f, g
  <2>4. IsFiniteSet(1..n)
    BY <2>1, FS_Interval
  <2> QED
    BY <2>2, <2>3, <2>4, SumSame
<1>7. \A b, c \in beats : b.at = c.at => b = c
  BY DEF Recorded
<1>8. \A u \in start..t : \A b : b \in beats' /\ b.at = u <=> b \in beats /\ b.at = u
  BY <1>2
<1> QED
  BY <1>2, <1>5, <1>6, <1>7, <1>8, MeterStays

LEMMA MeterStaysBeat ==
  ASSUME Sound, Sound', Recorded, Heartbeat, NEW t \in start..now, Seen(t)
  PROVE  t \in (start..now)' /\ MeterAt(t)' = MeterAt(t)
<1>1. PICK w \in Powers : beats' = beats \cup {[at |-> now, power |-> w]}
  BY DEF Heartbeat
<1>2. start' = start /\ drawn' = drawn /\ now' = now /\ ~Seen(now)
  BY DEF Heartbeat, contract, now
<1>3. start \in Nat /\ now \in Nat /\ t \in Nat /\ t <= now /\ t # now
  BY <1>2, PointFacts
<1>4. \A u \in start..t : \A b : b \in beats' /\ b.at = u <=> b \in beats /\ b.at = u
  <2>1. now \notin start..t
    BY <1>3
  <2>2. [at |-> now, power |-> w].at = now
    OBVIOUS
  <2> QED
    BY <1>1, <2>1, <2>2
<1>5. \A u \in start..t : WhAt(u)' = WhAt(u)
  BY <1>2 DEF WhAt, SumOver
<1>6. \A b, c \in beats : b.at = c.at => b = c
  BY DEF Recorded
<1>7. t \in (start..now)'
  BY <1>2
<1> QED
  BY <1>2, <1>4, <1>5, <1>6, <1>7, MeterStays

\* What a stop remembers is kept by a step that leaves its meter alone.
Decided(t) ==
  /\ cutoff.at = t /\ Seen(t)
  /\ LET plan == BudgetStop(Rule, Price(purchase), MeterAt(t))
     IN  plan.stop /\ cutoff.exact = plan.exact /\ cutoff.fee = plan.fee

LEMMA RecordedKept ==
  ASSUME Recorded, cutoff' = cutoff, scheme' = scheme, purchase' = purchase, start' = start,
         \A b, c \in beats' : b.at = c.at => b = c,
         \A t \in start..now : Decided(t) =>
           t \in (start..now)' /\ Seen(t)' /\ MeterAt(t)' = MeterAt(t),
         stage' = "billed" => bill' = Fee' /\ bill'.verdict = "priced"
  PROVE  Recorded'
<1>1. Rule' = Rule /\ Mode' = Mode /\ Limit' = Limit
  BY DEF Rule, Mode, Limit
<1>2. \A t \in start..now : Decided(t) => t \in (start..now)' /\ Decided(t)'
  BY <1>1 DEF Decided
<1>3. cutoff'.reason = "budget_exhausted" =>
        Mode' = "amount" /\ \E t \in (start..now)' : Decided(t)'
  BY <1>1, <1>2 DEF Recorded, Decided
<1>4. cutoff' # NoCutoff' /\ Mode' = "amount" => cutoff'.at <= start' + Limit'
  BY <1>1 DEF Recorded, NoCutoff
<1> QED
  BY <1>3, <1>4 DEF Recorded, Decided

LEMMA RecordedInit == Init => Recorded
BY DEF Init, Recorded, NoCutoff

LEMMA RecordedDraw == Sound /\ Recorded /\ Draw => Recorded'
<1> SUFFICES ASSUME Sound, Recorded, Draw PROVE Recorded'
  OBVIOUS
<1>1. /\ cutoff' = cutoff /\ scheme' = scheme /\ purchase' = purchase /\ start' = start
      /\ beats' = beats /\ stage' = "charging"
  BY DEF Draw, contract
<1>2. Sound'
  BY SoundDraw
<1>3. \A t \in start..now : Decided(t) =>
        t \in (start..now)' /\ Seen(t)' /\ MeterAt(t)' = MeterAt(t)
  <2> TAKE t \in start..now
  <2>1. t \in (start..now)' /\ MeterAt(t)' = MeterAt(t)
    BY <1>2, MeterStaysDraw
  <2> QED
    BY <1>1, <2>1 DEF Decided, Seen
<1>4. \A b, c \in beats' : b.at = c.at => b = c
  BY <1>1 DEF Recorded
<1> QED
  BY <1>1, <1>3, <1>4, RecordedKept

LEMMA RecordedHeartbeat == Sound /\ Recorded /\ Heartbeat => Recorded'
<1> SUFFICES ASSUME Sound, Recorded, Heartbeat PROVE Recorded'
  OBVIOUS
<1>1. PICK w \in Powers : beats' = beats \cup {[at |-> now, power |-> w]}
  BY DEF Heartbeat
<1>2. /\ cutoff' = cutoff /\ scheme' = scheme /\ purchase' = purchase /\ start' = start
      /\ stage' = "charging" /\ ~Seen(now)
  BY DEF Heartbeat, contract
<1>3. Sound'
  BY SoundHeartbeat
<1>4. \A t \in start..now : Decided(t) =>
        t \in (start..now)' /\ Seen(t)' /\ MeterAt(t)' = MeterAt(t)
  <2> TAKE t \in start..now
  <2>1. Seen(t) => t \in (start..now)' /\ MeterAt(t)' = MeterAt(t)
    BY <1>3, MeterStaysBeat
  <2> QED
    BY <1>1, <2>1 DEF Decided, Seen
<1>5. \A b, c \in beats' : b.at = c.at => b = c
  <2>1. \A b \in beats : b.at # now
    BY <1>2 DEF Seen
  <2>2. [at |-> now, power |-> w].at = now
    OBVIOUS
  <2> QED
    BY <1>1, <2>1, <2>2 DEF Recorded
<1> QED
  BY <1>2, <1>4, <1>5, RecordedKept

\* A step that touches neither the meter nor the heartbeats.
LEMMA MeterSame ==
  ASSUME Sound, Sound', Recorded, start' = start, drawn' = drawn, beats' = beats,
         NEW t \in start..now
  PROVE  t \in (start..now)' /\ MeterAt(t)' = MeterAt(t)
<1>1. t \in (start..now)'
  BY DEF now
<1>2. \A u \in start..t : WhAt(u)' = WhAt(u)
  BY DEF WhAt, SumOver
<1>3. \A b, c \in beats : b.at = c.at => b = c
  BY DEF Recorded
<1> QED
  BY <1>1, <1>2, <1>3, MeterStays

\* The fee, as the meter at some instant has it.
FeeAt(n) ==
  LET frozen == IF cutoff = NoCutoff THEN n ELSE cutoff.at
      until  == Min({n, frozen} \cup IF Mode = "amount" THEN {start + Limit} ELSE {})
      m      == CutoffMeter(Rule, MeterAt(n), until)
  IN  IF FixedFee THEN cutoff.fee
      ELSE SettleSession(scheme, purchase,
             IF evidence = {} THEN m ELSE [m EXCEPT !.segments = evidence])

FeeCut == \A n : n = now => Fee = FeeAt(n)
LEMMA FeeIsAt == FeeCut
BY DEF FeeCut, Fee, BilledMeter, BilledUntil, FeeAt

LEMMA FeeSame ==
  ASSUME Sound, Sound', Recorded, start' = start, drawn' = drawn, beats' = beats,
         scheme' = scheme, purchase' = purchase, cutoff' = cutoff, evidence' = evidence
  PROVE  Fee' = Fee
<1>1. PICK n \in start..now : n = now
  <2>1. start \in Nat /\ Len(drawn) \in Nat
    BY MeteredConstants DEF Sound
  <2> QED
    BY <2>1 DEF now
<1>2. now' = now
  BY DEF now
<1>3. Fee = FeeAt(n)
  BY <1>1, FeeIsAt DEF FeeCut
<1>4. Fee' = FeeAt(n)'
  <2>1. FeeCut'
    BY FeeIsAt, PTL
  <2> QED
    BY <1>1, <1>2, <2>1 DEF FeeCut
<1>5. MeterAt(n)' = MeterAt(n)
  BY <1>1, MeterSame
<1>6. /\ Rule' = Rule /\ Mode' = Mode /\ Limit' = Limit /\ FixedFee' = FixedFee
      /\ NoCutoff' = NoCutoff
  BY DEF Rule, Mode, Limit, FixedFee, NoCutoff
<1>7. FeeAt(n)' = FeeAt(n)
  BY <1>5, <1>6 DEF FeeAt
<1> QED
  BY <1>3, <1>4, <1>7

LEMMA RecordedAutoStop == Sound /\ Recorded /\ AutoStop => Recorded'
<1> SUFFICES ASSUME Sound, Recorded, AutoStop PROVE Recorded'
  OBVIOUS
<1>1. /\ scheme' = scheme /\ purchase' = purchase /\ start' = start
      /\ drawn' = drawn /\ beats' = beats /\ now' = now /\ stage' = "charging"
      /\ Rule' = Rule /\ Mode' = Mode /\ Limit' = Limit
  BY DEF AutoStop, contract, now, Rule, Mode, Limit
<1>2. start \in Nat /\ now \in Nat /\ Limit \in Int
  <2>1. start \in Nat /\ Len(drawn) \in Nat
    BY MeteredConstants DEF Sound
  <2> QED
    BY <2>1, PurchaseFacts DEF now
<1> DEFINE Good == /\ Mode = "amount" => cutoff'.at <= start + Limit
                   /\ cutoff'.reason = "budget_exhausted" =>
                        /\ Mode = "amount"
                        /\ \E t \in start..now :
                             /\ cutoff'.at = t /\ Seen(t)
                             /\ LET plan == BudgetStop(Rule, Price(purchase), MeterAt(t))
                                IN  /\ plan.stop /\ cutoff'.exact = plan.exact
                                    /\ cutoff'.fee = plan.fee
<1>3. Good
  <2>1. ASSUME Freeze(start + Limit, "limit", NoPlan) PROVE Good
    BY <1>2, <2>1 DEF Freeze
  <2>2. ASSUME Freeze(now, "automatic_stop", NoPlan),
               Mode \in {"amount", "duration"} => now < start + Limit
        PROVE  Good
    BY <1>2, <2>2 DEF Freeze
  <2>3. ASSUME Mode = "amount", News, now < start + Limit,
               NEW plan, plan = BudgetStop(Rule, Price(purchase), MeterAt(Latest.at)),
               plan.stop, Freeze(Latest.at, "budget_exhausted", plan)
        PROVE  Good
    <3>1. Latest \in beats /\ Latest.at \in start..now
      BY <2>3, LatestFacts
    <3>2. Seen(Latest.at) /\ Latest.at <= start + Limit
      BY <1>2, <2>3, <3>1 DEF Seen
    <3>3. /\ cutoff'.at = Latest.at /\ cutoff'.reason = "budget_exhausted"
          /\ cutoff'.exact = plan.exact /\ cutoff'.fee = plan.fee
      BY <2>3 DEF Freeze
    <3> HIDE DEF Latest
    <3> QED
      BY <2>3, <3>1, <3>2, <3>3
  <2> HIDE DEF Good
  <2> QED
    BY <2>1, <2>2, <2>3 DEF AutoStop
<1>4. \A t \in start..now : t \in (start..now)' /\ MeterAt(t)' = MeterAt(t)
  BY <1>1, SoundAutoStop, MeterSame
<1>5. \A t : Seen(t)' <=> Seen(t)
  BY <1>1 DEF Seen
<1> QED
  BY <1>1, <1>3, <1>4, <1>5 DEF Recorded

LEMMA RecordedRest ==
  ASSUME Sound, Recorded, End \/ Bill \/ ReviewMeter \/ UNCHANGED vars
  PROVE  Recorded'
<1>1. /\ cutoff' = cutoff /\ scheme' = scheme /\ purchase' = purchase /\ start' = start
      /\ drawn' = drawn /\ beats' = beats /\ now' = now
  BY DEF End, Bill, ReviewMeter, vars, contract, now
<1>0. Sound'
  BY SoundEnd, SoundBill, SoundReview DEF vars, Sound, Within, FixedFee, now
<1>2. \A t \in start..now : Decided(t) =>
        t \in (start..now)' /\ Seen(t)' /\ MeterAt(t)' = MeterAt(t)
  BY <1>0, <1>1, MeterSame DEF Decided, Seen
<1>3. \A b, c \in beats' : b.at = c.at => b = c
  BY <1>1 DEF Recorded
<1>4. stage' = "billed" => bill' = Fee' /\ bill'.verdict = "priced"
  <2>1. CASE Bill
    <3>1. Fee' = Fee
      BY <1>0, <1>1, <2>1, FeeSame DEF Bill
    <3> QED
      BY <2>1, <3>1 DEF Bill
  <2>2. CASE UNCHANGED vars
    <3>1. Fee' = Fee
      BY <1>0, <1>1, <2>2, FeeSame DEF vars
    <3> QED
      BY <2>2, <3>1 DEF Recorded, vars
  <2>3. CASE End \/ ReviewMeter
    BY <2>3 DEF End, ReviewMeter
  <2> QED
    BY <2>1, <2>2, <2>3
<1> QED
  BY <1>1, <1>2, <1>3, <1>4, RecordedKept

(* What the automatic stop has frozen stays what the evidence of that instant *)
(* says, and a bill stays the fee it was priced at: no later tick, heartbeat, *)
(* end or review changes the grounds of either (auto_stop.go:100-143).        *)
THEOREM RecordedInvariance == Spec => []Recorded
<1>1. Sound /\ Recorded /\ [Next]_vars => Recorded'
  <2> SUFFICES ASSUME Sound, Recorded, [Next]_vars PROVE Recorded'
    OBVIOUS
  <2> QED
    BY RecordedDraw, RecordedHeartbeat, RecordedAutoStop, RecordedRest DEF Next
<1> QED
  BY <1>1, RecordedInit, SoundInvariance, PTL DEF Spec

\* Up to which instant a charge is billed.
LEMMA BilledUntilIs ==
  ASSUME Sound
  PROVE  /\ start \in Nat /\ now \in Nat /\ start <= now
         /\ BilledUntil \in Int /\ BilledUntil <= now
         /\ cutoff # NoCutoff => BilledUntil <= cutoff.at
         /\ Mode = "amount" => BilledUntil <= start + Limit
         /\ \/ BilledUntil = now
            \/ cutoff # NoCutoff /\ BilledUntil = cutoff.at
            \/ Mode = "amount" /\ BilledUntil = start + Limit
<1> DEFINE frozen == IF cutoff = NoCutoff THEN now ELSE cutoff.at
           A == {now, frozen}
           B == IF Mode = "amount" THEN {start + Limit} ELSE {}
<1>1. start \in Nat /\ now \in Nat /\ start <= now
  <2>1. start \in Nat /\ Len(drawn) \in Nat
    BY MeteredConstants DEF Sound
  <2> QED
    BY <2>1 DEF now
<1>2. frozen \in Int /\ start + Limit \in Int
  BY <1>1, PurchaseFacts DEF Sound
<1>3. BilledUntil = Min(A \cup B)
  BY DEF BilledUntil
<1>4. IsFiniteSet(A \cup B)
  <2> HIDE DEF frozen
  <2>1. IsFiniteSet({now} \cup {frozen}) /\ IsFiniteSet(B)
    BY FS_Singleton, FS_EmptySet, FS_Union
  <2>2. {now} \cup {frozen} = A
    OBVIOUS
  <2> QED
    BY <2>1, <2>2, FS_Union
<1>5. A \cup B \in SUBSET Int /\ A \cup B # {}
  BY <1>1, <1>2
<1>6. BilledUntil \in A \cup B /\ \A y \in A \cup B : BilledUntil <= y
  BY <1>3, <1>4, <1>5, MinOf
<1>7. BilledUntil \in Int
  BY <1>5, <1>6
<1> HIDE DEF BilledUntil
<1> QED
  BY <1>1, <1>6, <1>7

\* A charge nobody cut short is previewed by the meter it is billed by.
LEMMA PreviewIsBilled ==
  ASSUME Sound, cutoff = NoCutoff, evidence = {}
  PROVE  /\ Mode # "amount" =>
              Preview(scheme, purchase, MeterAt(now))
                = SettleSession(scheme, purchase, BilledMeter)
         /\ Mode = "amount" =>
              Preview(scheme, purchase, MeterAt(now))
                = SettleSession(scheme, purchase,
                    IF BilledMeter.doubtful THEN BilledMeter
                    ELSE PreviewStop(Rule, Price(purchase), BilledMeter))
<1> DEFINE m == MeterAt(now)
           cut == m.from + Rule.limit * Minute
           limited == IF m.to - m.from >= Rule.limit * Minute
                      THEN CutoffMeter(Rule, m, cut) ELSE m
<1>1. /\ start \in Nat /\ now \in Nat /\ start <= now
      /\ BilledUntil \in Int /\ BilledUntil <= now
      /\ Mode = "amount" => BilledUntil <= start + Limit
      /\ BilledUntil = now \/ (Mode = "amount" /\ BilledUntil = start + Limit)
  BY BilledUntilIs
<1>2. m.from = start /\ m.to = now
  BY DEF MeterAt
<1>3. BilledMeter = CutoffMeter(Rule, m, BilledUntil)
  BY DEF BilledMeter
<1>4. BilledUntil = now => BilledMeter = m
  BY <1>1, <1>2, <1>3 DEF CutoffMeter
<1>5. CASE Mode # "amount"
  <2>1. Preview(scheme, purchase, m) = SettleSession(scheme, purchase, m)
    BY <1>5 DEF Preview, Mode
  <2> QED
    BY <1>1, <1>4, <1>5, <2>1
<1>6. CASE Mode = "amount"
  <2>1. Preview(scheme, purchase, m) = SettleSession(scheme, purchase,
          IF limited.doubtful THEN limited ELSE PreviewStop(Rule, Price(purchase), limited))
    BY <1>6 DEF Preview, Rule, Mode
  <2>2. Limit = Rule.limit * Minute /\ Limit \in Int
    BY <1>6, PurchaseFacts DEF Limit
  <2> HIDE DEF m
  <2>3. limited = BilledMeter
    <3>1. CASE now - start >= Limit
      <4>1. BilledUntil = start + Limit
        BY <1>1, <1>6, <2>2, <3>1
      <4> QED
        BY <1>2, <1>3, <2>2, <3>1, <4>1
    <3>2. CASE ~(now - start >= Limit)
      <4>1. BilledUntil = now
        BY <1>1, <2>2, <3>2
      <4> QED
        BY <1>2, <1>4, <2>2, <3>2, <4>1
    <3> QED
      BY <3>1, <3>2
  <2> HIDE DEF limited
  <2>4. Preview(scheme, purchase, m) = SettleSession(scheme, purchase,
          IF BilledMeter.doubtful THEN BilledMeter
          ELSE PreviewStop(Rule, Price(purchase), BilledMeter))
    BY <2>1, <2>3
  <2> QED
    BY <1>6, <2>4 DEF m
<1> QED
  BY <1>5, <1>6

LEMMA PreviewsAgree ==
  ASSUME Sound, Recorded
  PROVE  PreviewAgrees
<1> DEFINE fee == Preview(scheme, purchase, MeterAt(now))
           settled == SettleSession(scheme, purchase, BilledMeter)
<1> SUFFICES ASSUME stage = "billed", cutoff = NoCutoff, evidence = {}, Rising,
                    fee.verdict = "priced"
             PROVE  Total(fee) = Total(bill)
  BY DEF PreviewAgrees
<1>1. bill = settled /\ settled.verdict = "priced"
  BY DEF Recorded, Fee, FixedFee, NoCutoff
<1>2. CASE Mode # "amount"
  BY <1>1, <1>2, PreviewIsBilled
<1>3. CASE Mode = "amount"
  <2>1. BilledMeter \in Meters
    BY BilledMeterIsMeter
  <2>2. PriceActual(Rule, BilledMeter).verdict = "priced"
    BY <1>1, <1>3, <2>1, AmountSettled
  <2>3. ~BilledMeter.doubtful
    BY <2>1, <2>2, PricedIsMeasured
  <2>4. fee = SettleSession(scheme, purchase, PreviewStop(Rule, Price(purchase), BilledMeter))
    BY <1>3, <2>3, PreviewIsBilled
  <2>5. RisingSpec(Rule)
    BY DEF Rising, RisingSpec
  <2> HIDE DEF fee, settled
  <2>6. Total(SettleSession(scheme, purchase, PreviewStop(Rule, Price(purchase), BilledMeter)))
          = Total(settled)
    BY <1>3, <2>1, <2>2, <2>5, StoppedIsSettled DEF settled
  <2> QED
    BY <1>1, <2>4, <2>6
<1> QED
  BY <1>2, <1>3

(* The preview an operator publishes a scheme by charges what the customer    *)
(* will be billed, whatever the scheme, the charge and its heartbeats, if the *)
(* charge is not cut short and needs no review (scheme.go:177).               *)
THEOREM PreviewsHold == Spec => []PreviewAgrees
<1>1. Sound /\ Recorded => PreviewAgrees
  BY PreviewsAgree
<1> QED
  BY <1>1, SoundInvariance, RecordedInvariance, PTL

---------------------------------------------------------------------------
(* What the customer is shown while charging.                               *)

\* A sample has the power read at its start, or none at all.
LEMMA SegmentPower ==
  ASSUME Sound, NEW a, NEW b
  PROVE  LET s == Segment(a, b)
         IN  /\ Unread(s) <=> ~(Seen(a) /\ b - a <= Minute)
             /\ Unread(s) => s.peak = 0
             /\ ~Unread(s) =>
                  /\ s.power = BeatAt(a).power /\ s.power \in Nat
                  /\ s.peak = Max({s.power, IF Seen(b) THEN BeatAt(b).power ELSE 0})
<1> DEFINE known == Seen(a) /\ b - a <= Minute
           x == BeatAt(a).power
           y == IF Seen(b) THEN BeatAt(b).power ELSE 0
           s == Segment(a, b)
<1>1. known => x \in Nat
  BY BeatFacts
<1>2. /\ s.power = IF known THEN x ELSE Unknown
      /\ s.peak = IF known THEN Max({x, y}) ELSE 0
  BY DEF Segment
<1> HIDE DEF x, y, known, s
<1>3. /\ Unread(s) <=> ~known
      /\ Unread(s) => s.peak = 0
      /\ ~Unread(s) => s.power = x /\ s.power \in Nat /\ s.peak = Max({s.power, y})
  BY <1>1, <1>2 DEF Unread, Unknown
<1> QED
  BY <1>3 DEF s, x, y, known

\* It is the meter up to then with some gaps filled, and nothing else changed.
LEMMA LiveMeterIs ==
  ASSUME Sound, NEW b \in beats
  PROVE  \E g :
           /\ LiveMeter(b.at) = [MeterAt(b.at) EXCEPT
                                   !.segments = {g[s] : s \in MeasuredSegments(b.at)}]
           /\ \A s \in MeasuredSegments(b.at) :
                /\ g[s] \in Samples
                /\ g[s].from = s.from /\ g[s].to = s.to /\ g[s].wh = s.wh
                /\ ~Unread(s) => g[s] = s
<1> DEFINE end == b.at
           M == MeasuredSegments(end)
           first == CHOOSE x \in beats : \A c \in beats : x.at <= c.at
           opening(s) == s.from = start /\ Unread(s) /\ s.to - start <= Fresh
           short(s)   == s.to - s.from <= LongGap
           known(s) == \E r \in M :
                         /\ r.to <= s.from
                         /\ ~Unread(r) \/ opening(r)
                         /\ \A q \in M : r.to <= q.from /\ q.to <= s.from => short(q)
           w(s) == BeatAt(s.from).power
           fill(s) ==
             IF opening(s) THEN [s EXCEPT !.power = first.power, !.peak = first.power]
             ELSE IF Unread(s) /\ short(s) /\ known(s)
               THEN [s EXCEPT !.power = w(s), !.peak = Max({w(s), BeatAt(s.to).power})]
             ELSE s
           g == [s \in M |-> fill(s)]
<1>1. LiveMeter(end) = [MeterAt(end) EXCEPT !.segments = {fill(s) : s \in M}]
  <2>1. MeterAt(end).segments = M
    BY DEF MeterAt
  <2> QED
    BY <2>1 DEF LiveMeter
<1>2. end \in start..now /\ start \in Nat /\ end \in Nat
  <2>1. start \in Nat /\ Len(drawn) \in Nat
    BY MeteredConstants DEF Sound
  <2> QED
    BY <2>1 DEF Sound, now
<1>3. first.power \in Int
  <2>1. \E x \in beats : \A c \in beats : x.at <= c.at
    <3> DEFINE at == [x \in beats |-> x.at]
               T == {at[x] : x \in beats}
    <3>1. IsFiniteSet(beats)
      BY DEF Sound
    <3>2. T \in SUBSET Int /\ T # {}
      BY <1>2 DEF Sound
    <3> HIDE DEF at
    <3>3. IsFiniteSet(T)
      BY <3>1, ImageFinite
    <3>4. Min(T) \in T /\ \A y \in T : Min(T) <= y
      BY <3>2, <3>3, MinOf
    <3> QED
      BY <3>4 DEF at
  <2>2. first \in beats
    BY <2>1
  <2>3. \A x \in beats : x.power \in Int
    <3>1. Powers \subseteq Nat
      BY MeteredConstants
    <3>2. \A x \in beats : x.power \in Powers
      BY DEF Sound
    <3>3. \A x \in beats : x.power \in Nat
      BY <3>1, <3>2
    <3> QED
      BY <3>3
  <2> HIDE DEF first
  <2> QED
    BY <2>2, <2>3
<1>4. ASSUME NEW s \in M, known(s)
      PROVE  w(s) \in Int /\ Max({w(s), BeatAt(s.to).power}) \in Int
  <2>1. PICK r \in M : r.to <= s.from
    BY <1>4
  <2>2. Measured(end)
    BY <1>2, SegmentsAre
  <2>3. /\ Consecutive(end, s.from, s.to) /\ s.from \in Int /\ s.to \in Int
        /\ start <= r.from /\ r.from < r.to /\ r.from \in Int /\ r.to \in Int
        /\ s.from < s.to /\ s.to <= end
    BY <1>2, <2>2, SegmentsFollow
  <2>4. start < s.from /\ start < s.to /\ s.from # end
    BY <1>2, <2>1, <2>3
  <2>5. s.from \in Points(end) /\ s.to \in Points(end)
    BY <2>3 DEF Consecutive
  <2>6. ASSUME NEW x \in Points(end), start < x PROVE Seen(x)
    <3>1. x = end \/ \E c \in beats : c.at = x
      BY <1>2, <2>6 DEF Points
    <3> QED
      BY <3>1 DEF Seen
  <2>7. w(s) \in Int /\ BeatAt(s.to).power \in Int
    BY <2>4, <2>5, <2>6, BeatFacts
  <2> QED
    BY <2>7, MaxOfTwo
<1>5. ASSUME NEW s \in M
      PROVE  /\ g[s] \in Samples
             /\ g[s].from = s.from /\ g[s].to = s.to /\ g[s].wh = s.wh
             /\ ~Unread(s) => g[s] = s
  <2>1. s \in Samples
    <3>1. MeterAt(end) \in Meters /\ s \in MeterAt(end).segments
      BY <1>2, MeterAtIsMeter DEF MeterAt
    <3> QED
      BY <3>1, MeterFacts
  <2>2. CASE opening(s)
    <3>1. g[s] = [s EXCEPT !.power = first.power, !.peak = first.power]
      BY <2>2
    <3> HIDE DEF first, g
    <3> QED
      BY <1>3, <2>1, <2>2, <3>1 DEF Samples
  <2>3. CASE ~opening(s) /\ Unread(s) /\ short(s) /\ known(s)
    <3> DEFINE x == w(s)
               y == Max({w(s), BeatAt(s.to).power})
    <3>1. g[s] = [s EXCEPT !.power = x, !.peak = y]
      BY <2>3
    <3>2. x \in Int /\ y \in Int
      BY <1>4, <2>3
    <3> HIDE DEF g, x, y
    <3> QED
      BY <2>1, <2>3, <3>1, <3>2 DEF Samples
  <2>4. CASE ~opening(s) /\ ~(Unread(s) /\ short(s) /\ known(s))
    <3>1. g[s] = s
      BY <2>4
    <3> QED
      BY <2>1, <3>1
  <2> QED
    BY <2>2, <2>3, <2>4
<1>6. {fill(s) : s \in M} = {g[s] : s \in M}
  OBVIOUS
<1>7. LiveMeter(end) = [MeterAt(end) EXCEPT !.segments = {g[s] : s \in M}]
  BY <1>1, <1>6, ZenonT(60)
<1> HIDE DEF g
<1> QED
  BY <1>5, <1>7

\* So it is a meter.
LEMMA LiveIsMeter ==
  ASSUME Sound, NEW b \in beats
  PROVE  /\ LiveMeter(b.at) \in Meters /\ b.at \in start..now
         /\ LiveMeter(b.at).from = start /\ LiveMeter(b.at).to = b.at
         /\ LiveMeter(b.at).used = b.at - start /\ LiveMeter(b.at).wh = WhAt(b.at)
         /\ ~LiveMeter(b.at).doubtful
<1>1. b.at \in start..now
  BY DEF Sound
<1>2. MeterAt(b.at) \in Meters /\ IsFiniteSet(MeasuredSegments(b.at))
  <2>1. MeterAt(b.at) \in Meters
    BY <1>1, MeterAtIsMeter
  <2> QED
    BY <2>1, MeterFacts DEF MeterAt
<1>3. PICK g :
        /\ LiveMeter(b.at) = [MeterAt(b.at) EXCEPT
                                !.segments = {g[s] : s \in MeasuredSegments(b.at)}]
        /\ \A s \in MeasuredSegments(b.at) : g[s] \in Samples
  BY LiveMeterIs
<1>4. LiveMeter(b.at) \in Meters
  <2> DEFINE G == {g[s] : s \in MeasuredSegments(b.at)}
  <2>1. G \in SUBSET Samples /\ IsFiniteSet(G)
    BY <1>2, <1>3, ImageFinite
  <2>2. LiveMeter(b.at) = [MeterAt(b.at) EXCEPT !.segments = G]
    BY <1>3
  <2> HIDE DEF G
  <2> QED
    BY <1>2, <2>1, <2>2 DEF Meters
<1>5. /\ MeterAt(b.at).from = start /\ MeterAt(b.at).to = b.at
      /\ MeterAt(b.at).used = b.at - start /\ MeterAt(b.at).wh = WhAt(b.at)
      /\ ~MeterAt(b.at).doubtful
  BY DEF MeterAt
<1> QED
  BY <1>1, <1>2, <1>3, <1>4, <1>5 DEF Meters

---------------------------------------------------------------------------
(* The meter as it stood at a cutoff.                                       *)

Kept(at) == {s \in MeasuredSegments(now) : s.from < at}
Clip(s, at) == [s EXCEPT !.to = Min({s.to, at})]

CutAs(spec, n, at, K, cut) ==
  LET clean(s) == s.to > at =>
        /\ spec.mode \notin {"energy", "device_energy"}
        /\ s.power # Unknown
        /\ spec.mode = "peak" => s.peak <= s.power
      doubt == (\E s \in K : ~clean(s)) \/ (\A s \in K : s.to < at)
  IN  /\ at >= n.to => cut = n
      /\ ~(at >= n.to) /\ ~(at < n.from) =>
           /\ spec.mode = "device_duration" =>
                cut = [n EXCEPT !.used = Min({n.used, at - n.from}), !.to = at]
           /\ spec.mode # "device_duration" =>
                cut = IF doubt THEN [n EXCEPT !.doubtful = TRUE]
                      ELSE [n EXCEPT !.segments = {Clip(s, at) : s \in K},
                                     !.wh = SumFunctionOnSet([s \in K |-> s.wh], K),
                                     !.to = at, !.used = at - n.from]

LEMMA CutForm ==
  ASSUME NEW spec, NEW n, NEW at, NEW K, K = {s \in n.segments : s.from < at}
  PROVE  CutAs(spec, n, at, K, CutoffMeter(spec, n, at))
<1> DEFINE clean(s) == s.to > at =>
             /\ spec.mode \notin {"energy", "device_energy"}
             /\ s.power # Unknown
             /\ spec.mode = "peak" => s.peak <= s.power
           doubt == (\E s \in K : ~clean(s)) \/ (\A s \in K : s.to < at)
<1>1. CASE at >= n.to
  BY <1>1 DEF CutoffMeter, CutAs
<1>2. CASE ~(at >= n.to) /\ ~(at < n.from) /\ spec.mode = "device_duration"
  BY <1>2 DEF CutoffMeter, CutAs
<1>3. CASE ~(at >= n.to) /\ ~(at < n.from) /\ spec.mode # "device_duration"
  <2>1. CutoffMeter(spec, n, at) =
          IF doubt THEN [n EXCEPT !.doubtful = TRUE]
          ELSE [n EXCEPT !.segments = {Clip(s, at) : s \in K},
                         !.wh = SumFunctionOnSet([s \in K |-> s.wh], K),
                         !.to = at, !.used = at - n.from]
    BY <1>3 DEF CutoffMeter, Clip, SumOver
  <2> QED
    BY <1>3, <2>1 DEF CutAs
<1>4. CASE at < n.from /\ ~(at >= n.to)
  BY <1>4 DEF CutAs
<1> QED
  BY <1>1, <1>2, <1>3, <1>4

\* If it is in no doubt, no sample hides what was drawn by then.
LEMMA CutIs ==
  ASSUME Sound, NEW at \in start..now, NEW m, m = CutoffMeter(Rule, MeterAt(now), at),
         ~m.doubtful
  PROVE  /\ at = now => m = MeterAt(now)
         /\ at < now => m.from = start /\ m.to = at /\ m.used = at - start
         /\ at < now /\ Rule.mode # "device_duration" =>
              /\ m.segments = {Clip(s, at) : s \in Kept(at)}
              /\ m.wh = SumOver(Kept(at), LAMBDA s : s.wh)
              /\ \E s \in Kept(at) : at <= s.to
              /\ \A s \in Kept(at) : s.to > at =>
                   /\ Rule.mode \notin {"energy", "device_energy"} /\ s.power # Unknown
                   /\ Rule.mode = "peak" => s.peak <= s.power
<1> DEFINE n == MeterAt(now)
           K == Kept(at)
           clean(s) == s.to > at =>
             /\ Rule.mode \notin {"energy", "device_energy"}
             /\ s.power # Unknown
             /\ Rule.mode = "peak" => s.peak <= s.power
           doubt == (\E s \in K : ~clean(s)) \/ (\A s \in K : s.to < at)
           clips == {Clip(s, at) : s \in K}
           wh == SumFunctionOnSet([s \in K |-> s.wh], K)
<1>1. start \in Nat /\ now \in Nat /\ at \in Nat /\ start <= at /\ at <= now
  BY PointFacts
<1>2. /\ n.from = start /\ n.to = now /\ n.used = now - start
      /\ n.segments = MeasuredSegments(now)
      /\ n = [from |-> start, to |-> now, used |-> now - start, wh |-> WhAt(now),
              segments |-> MeasuredSegments(now), doubtful |-> FALSE]
  BY DEF MeterAt
<1>3. /\ at >= n.to => m = n
      /\ ~(at >= n.to) /\ ~(at < n.from) =>
           /\ Rule.mode = "device_duration" =>
                m = [n EXCEPT !.used = Min({n.used, at - n.from}), !.to = at]
           /\ Rule.mode # "device_duration" =>
                m = IF doubt THEN [n EXCEPT !.doubtful = TRUE]
                    ELSE [n EXCEPT !.segments = clips, !.wh = wh, !.to = at, !.used = at - n.from]
  <2> DEFINE L == {s \in n.segments : s.from < at}
  <2>1. L = K
    BY <1>2 DEF Kept
  <2>2. m = CutoffMeter(Rule, n, at)
    OBVIOUS
  <2> HIDE DEF n, K
  <2>3. CutAs(Rule, n, at, K, m)
    BY <2>1, <2>2, CutForm
  <2> QED
    BY <2>3 DEF CutAs
<1>7. wh = SumOver(K, LAMBDA s : s.wh)
  BY DEF SumOver
<1> HIDE DEF n, doubt, clips, wh
<1>4. CASE at = now
  BY <1>1, <1>2, <1>3, <1>4 DEF n
<1>5. CASE at < now /\ Rule.mode = "device_duration"
  <2>1. m = [n EXCEPT !.used = Min({n.used, at - n.from}), !.to = at]
    BY <1>1, <1>2, <1>3, <1>5
  <2>2. Min({n.used, at - n.from}) = at - start
    <3> DEFINE x == now - start
               y == at - start
    <3>1. x \in Int /\ y \in Int /\ y < x
      BY <1>1, <1>5
    <3> HIDE DEF x, y
    <3>3. Min({x, y}) \in {x, y} /\ Min({x, y}) <= y
      BY <3>1, MinOfTwo
    <3>2. Min({x, y}) = y
      BY <3>1, <3>3
    <3> QED
      BY <1>2, <3>2 DEF x, y
  <2> QED
    BY <1>2, <1>5, <2>1, <2>2
<1>6. CASE at < now /\ Rule.mode # "device_duration"
  <2>1. m = IF doubt THEN [n EXCEPT !.doubtful = TRUE]
            ELSE [n EXCEPT !.segments = clips, !.wh = wh, !.to = at, !.used = at - n.from]
    BY <1>1, <1>2, <1>3, <1>6
  <2>2. ~doubt
    BY <1>2, <2>1
  <2>3. /\ m.segments = clips /\ m.wh = wh /\ m.to = at /\ m.used = at - start
        /\ m.from = start
    BY <1>2, <2>1, <2>2
  <2>4. \A s \in K : clean(s)
    BY <2>2 DEF doubt
  <2>5. \E s \in K : at <= s.to
    <3>1. PICK s \in K : ~(s.to < at)
      BY <2>2 DEF doubt
    <3>2. n \in Meters
      <4>1. now \in start..now
        BY <1>1
      <4> QED
        BY <4>1, MeterAtIsMeter DEF n
    <3>3. s.to \in Int
      BY <1>2, <3>1, <3>2, MeterFacts DEF Kept
    <3> QED
      BY <1>1, <3>1, <3>3
  <2> QED
    BY <1>6, <1>7, <2>3, <2>4, <2>5 DEF clips
<1> QED
  BY <1>1, <1>4, <1>5, <1>6

\* A sample that ends by then is kept as it is.
LEMMA ClipFacts ==
  ASSUME Sound, NEW at \in start..now, NEW s \in MeasuredSegments(now)
  PROVE  /\ s.to <= at => s \in Kept(at) /\ Clip(s, at) = s
         /\ s.to > at => Clip(s, at) = [s EXCEPT !.to = at]
         /\ Clip(s, at).from = s.from
<1>1. start \in Nat /\ now \in Nat /\ at \in Int /\ now \in start..now
  BY PointFacts, WhFacts
<1>2. Measured(now)
  BY <1>1, SegmentsAre
<1>3. s.from \in Int /\ s.to \in Int /\ s.from < s.to
  BY <1>1, <1>2, SegmentsFollow
<1>4. s \in Samples
  <2>1. MeterAt(now) \in Meters /\ s \in MeterAt(now).segments
    BY <1>1, MeterAtIsMeter DEF MeterAt
  <2> QED
    BY <2>1, MeterFacts
<1>5. /\ Min({s.to, at}) \in {s.to, at} /\ Min({s.to, at}) <= s.to /\ Min({s.to, at}) <= at
  BY <1>1, <1>3, MinOfTwo
<1> DEFINE x == Min({s.to, at})
<1>6. (s.to <= at => x = s.to) /\ (s.to > at => x = at)
  BY <1>1, <1>3, <1>5
<1>7. Clip(s, at) = [s EXCEPT !.to = x]
  BY DEF Clip
<1> HIDE DEF x
<1>8. Clip(s, at).from = s.from /\ (x = s.to => Clip(s, at) = s)
  BY <1>4, <1>7 DEF Samples
<1>9. s.to <= at => s \in Kept(at)
  BY <1>1, <1>3 DEF Kept
<1> QED
  BY <1>6, <1>7, <1>8, <1>9

\* Without a sample across that instant, it is the meter of that instant.
LEMMA CutIsMeterAt ==
  ASSUME Sound, NEW at \in start..now, start < at, at < now,
         NEW m, m = CutoffMeter(Rule, MeterAt(now), at),
         ~m.doubtful, Rule.mode # "device_duration", \A s \in Kept(at) : s.to <= at
  PROVE  m.wh = WhAt(at) /\ m.segments = MeasuredSegments(at)
<1>1. /\ start \in Nat /\ now \in Nat /\ at \in Nat /\ now \in start..now
  BY PointFacts, WhFacts
<1>2. /\ m.segments = {Clip(s, at) : s \in Kept(at)}
      /\ m.wh = SumOver(Kept(at), LAMBDA s : s.wh)
  BY CutIs
<1>3. PICK s \in Kept(at) : at <= s.to
  BY CutIs
<1>4. s \in MeasuredSegments(now)
  BY DEF Kept
<1>5. Measured(now)
  BY <1>1, <1>4, SegmentsAre
<1>6. s.to \in Int /\ Consecutive(now, s.from, s.to)
  BY <1>1, <1>4, <1>5, SegmentsFollow
<1>7. s.to = at
  BY <1>1, <1>3, <1>6
<1>8. at \in Points(now)
  BY <1>6, <1>7 DEF Consecutive
<1> DEFINE K == {r \in MeasuredSegments(now) : r.to <= at}
<1>9. Kept(at) = K
  <2>1. \A r \in K : r \in Kept(at)
    BY ClipFacts
  <2> QED
    BY <2>1 DEF Kept
<1>10. m.wh = WhAt(at)
  BY <1>1, <1>2, <1>5, <1>8, <1>9, WhUpTo
<1>11. MeasuredSegments(at) = K
  BY <1>1, <1>5, <1>8, EarlierSamples
<1>12. {Clip(r, at) : r \in K} = K
  <2>1. \A r \in K : Clip(r, at) = r
    BY ClipFacts
  <2> QED
    BY <2>1
<1> QED
  BY <1>2, <1>9, <1>10, <1>11, <1>12

---------------------------------------------------------------------------
(* The bill and the fees that were shown before it.                         *)

\* A purchase by time costs no more for less of it, nor one by energy.
LEMMA DurationOrder ==
  ASSUME NEW plan \in Published, NEW q \in Purchases(plan), q.package.mode = "duration",
         NEW p \in Meters, NEW m \in Meters, p.used <= m.used
  PROVE  Total(SettleDuration(q, p)) <= Total(SettleDuration(q, m))
<1> DEFINE limit == q.package.minutes * q.count
           price == Price(q)
           a == p.used \div Minute
           b == m.used \div Minute
           x == (price * a) \div limit
           y == (price * b) \div limit
<1>1. /\ ValidPackage(plan, q.package) /\ q.count \in Nat \ {0} /\ price \in Nat \ {0}
  BY PackageFacts
<1>2. limit \in Nat \ {0}
  <2>1. q.package.minutes \in 1..MaxMinutes
    BY <1>1 DEF ValidPackage
  <2> QED
    BY <1>1, <2>1
<1>3. a \in Nat /\ b \in Nat
  BY MeterFacts, QuotientNat, Sizes
<1>4. a <= b
  BY MeterFacts, QuotientOrder, Sizes
<1>5. /\ Total(SettleDuration(q, p)) = 0 + (IF a < limit THEN x ELSE price)
      /\ Total(SettleDuration(q, m)) = 0 + (IF b < limit THEN y ELSE price)
  BY DEF SettleDuration, Priced, Total
<1> HIDE DEF a, b, limit, price
<1>6. a < limit => x \in Nat /\ x <= price
  BY <1>1, <1>2, <1>3, ShareWithin
<1>7. x <= y /\ x \in Int /\ y \in Int
  <2>1. price * a \in Nat /\ price * b \in Nat /\ price * a <= price * b
    BY <1>1, <1>3, <1>4
  <2>2. price * a \in Int /\ price * b \in Int
    BY <2>1
  <2> QED
    BY <1>2, <2>1, <2>2, QuotientOrder, QuotientNat
<1> HIDE DEF x, y
<1> QED
  BY <1>1, <1>2, <1>3, <1>4, <1>5, <1>6, <1>7

LEMMA EnergyOrder ==
  ASSUME NEW plan \in Published, NEW q \in Purchases(plan), q.package.mode = "energy",
         NEW p \in Meters, NEW m \in Meters, p.wh <= m.wh
  PROVE  Total(SettleEnergy(plan, q, p)) <= Total(SettleEnergy(plan, q, m))
<1> DEFINE rate == plan.energy.electric + plan.energy.service
           price == Price(q)
           worth(n) == (n.wh * rate) \div KWh
           amount(n) == Min({worth(n), price})
           electric(n) == (amount(n) * plan.energy.electric) \div rate
<1>1. ValidPackage(plan, q.package) /\ price \in Nat \ {0}
  BY PackageFacts
<1>2. plan.energy # NoMode /\ plan \in SchemeRecords /\ ValidScheme(plan)
  BY <1>1 DEF ValidPackage, Published
<1>3. plan.energy.electric \in Nat /\ plan.energy.service \in Nat /\ rate > 0
  BY <1>2, Sizes DEF ValidScheme, InRange
<1>4. rate \in Nat \ {0} /\ plan.energy.electric <= rate
  BY <1>3
<1>5. \A n \in {p, m} : Total(SettleEnergy(plan, q, n)) = electric(n) + (amount(n) - electric(n))
  BY DEF SettleEnergy, Priced, Total
<1> HIDE DEF rate, price
<1>6. ASSUME NEW n \in {p, m}
      PROVE  /\ n.wh * rate \in Nat /\ worth(n) \in Nat
             /\ amount(n) \in {worth(n), price} /\ amount(n) <= worth(n) /\ amount(n) <= price
             /\ amount(n) \in Nat /\ electric(n) \in Nat
  <2>1. n.wh * rate \in Nat
    BY <1>4, MeterFacts
  <2> DEFINE w == worth(n)
             k == amount(n)
  <2>2. w \in Nat
    BY <2>1, QuotientNat, Sizes
  <2> HIDE DEF w
  <2>3. Min({w, price}) \in {w, price} /\ Min({w, price}) <= w /\ Min({w, price}) <= price
    <3>1. w \in Int /\ price \in Int
      BY <1>1, <2>2
    <3> QED
      BY <3>1, MinOfTwo
  <2>4. k = Min({w, price})
    BY DEF w
  <2> HIDE DEF k
  <2>5. k \in {w, price} /\ k <= w /\ k <= price /\ k \in Nat
    BY <1>1, <2>2, <2>3, <2>4
  <2>6. (k * plan.energy.electric) \div rate \in Nat
    BY <1>3, <1>4, <2>5, ShareWithin
  <2> QED
    BY <2>1, <2>2, <2>5, <2>6 DEF w, k
<1>7. worth(p) <= worth(m)
  <2>1. p.wh * rate <= m.wh * rate
    BY <1>4, MeterFacts
  <2>2. p.wh * rate \in Int /\ m.wh * rate \in Int
    BY <1>6
  <2> QED
    BY <2>1, <2>2, QuotientOrder, Sizes
<1> DEFINE a == amount(p)
           b == amount(m)
           v == worth(p)
           w == worth(m)
           x == electric(p)
           y == electric(m)
<1>8. /\ v \in Nat /\ w \in Nat /\ a \in Nat /\ b \in Nat /\ x \in Nat /\ y \in Nat
      /\ a <= v /\ a <= price /\ b \in {w, price} /\ v <= w
  BY <1>6, <1>7
<1>9. /\ Total(SettleEnergy(plan, q, p)) = x + (a - x)
      /\ Total(SettleEnergy(plan, q, m)) = y + (b - y)
  BY <1>5
<1> HIDE DEF a, b, v, w, x, y
<1>10. a <= b /\ x + (a - x) = a /\ y + (b - y) = b
  BY <1>1, <1>8
<1> QED
  BY <1>9, <1>10

\* A purchase that is not of an amount is settled as its package says.
LEMMA OtherSettled ==
  ASSUME Sound, Mode # "amount", NEW m, SettleSession(scheme, purchase, m).verdict = "priced"
  PROVE  /\ ~m.doubtful /\ ValidSpec(Rule)
         /\ Rule.mode \notin ServerModes
         /\ Mode = "duration" \/ Mode = "energy"
         /\ \A n : ~n.doubtful =>
              SettleSession(scheme, purchase, n) =
                IF Mode = "duration" THEN SettleDuration(purchase, n)
                ELSE SettleEnergy(scheme, purchase, n)
<1>1. ~m.doubtful /\ ValidSpec(Rule)
  BY DEF SettleSession, NeedsReview, BadRule, Rule
<1>2. Mode \in {"amount", "duration", "energy"}
  BY PackageFacts DEF Sound, Mode
<1>3. Rule.mode \notin ServerModes
  BY <1>2 DEF Rule, SpecFor, Mode, ServerModes
<1>4. \A n : ~n.doubtful =>
        SettleSession(scheme, purchase, n) =
          IF Mode = "duration" THEN SettleDuration(purchase, n)
          ELSE SettleEnergy(scheme, purchase, n)
  BY <1>1, <1>2 DEF SettleSession, Rule, Mode
<1> QED
  BY <1>1, <1>2, <1>3, <1>4

\* By then the meter that is billed has counted all that a reading had.
LEMMA CutCounts ==
  ASSUME Sound, NEW at \in start..now, NEW m, m = CutoffMeter(Rule, MeterAt(now), at),
         ~m.doubtful, Rule.mode # "device_duration", NEW b \in beats, b.at <= at
  PROVE  WhAt(b.at) <= m.wh
<1> DEFINE e == b.at
<1>1. /\ start \in Nat /\ now \in Nat /\ at \in Nat /\ e \in Nat
      /\ start <= e /\ at <= now /\ e \in start..now /\ now \in start..now
  <2>1. e \in start..now
    BY DEF Sound
  <2> QED
    BY <2>1, PointFacts, WhFacts
<1>2. CASE at = now
  <2>1. m = MeterAt(now) /\ m.wh = WhAt(now)
    <3>1. m = MeterAt(now)
      BY <1>2, CutIs
    <3>2. MeterAt(now).wh = WhAt(now)
      BY DEF MeterAt
    <3> QED
      BY <3>1, <3>2
  <2> QED
    BY <1>1, <1>2, <2>1, WhFacts
<1>3. CASE at # now
  <2> DEFINE K == {s \in MeasuredSegments(now) : s.to <= e}
             f == [s \in Kept(at) |-> s.wh]
             h == [s \in K |-> s.wh]
  <2>1. at < now
    BY <1>1, <1>3
  <2>2. m.wh = SumOver(Kept(at), LAMBDA s : s.wh)
    BY <2>1, CutIs
  <2>3. PICK s \in Kept(at) : at <= s.to
    BY <2>1, CutIs
  <2>4. s \in MeasuredSegments(now)
    BY DEF Kept
  <2>5. Measured(now)
    BY <1>1, <2>4, SegmentsAre
  <2>6. e \in Points(now)
    BY <1>1 DEF Points
  <2>7. SumOver(K, LAMBDA r : r.wh) = WhAt(e)
    BY <1>1, <2>5, <2>6, WhUpTo
  <2>8. IsFiniteSet(Kept(at)) /\ \A r \in Kept(at) : r.wh \in Nat
    <3>1. MeterAt(now) \in Meters /\ MeterAt(now).segments = MeasuredSegments(now)
      BY <1>1, MeterAtIsMeter DEF MeterAt
    <3>2. IsFiniteSet(MeasuredSegments(now)) /\ \A r \in MeasuredSegments(now) : r.wh \in Nat
      BY <3>1, MeterFacts
    <3> QED
      BY <3>2, FS_Subset DEF Kept
  <2>9. K \in SUBSET Kept(at)
    <3>1. \A r \in MeasuredSegments(now) : r.to \in Int
      BY <1>1, <2>5, SegmentsFollow
    <3>2. \A r \in K : r.to <= at
      BY <1>1, <3>1
    <3> QED
      BY <3>2, ClipFacts
  <2>10. /\ m.wh = SumFunctionOnSet(f, Kept(at))
         /\ WhAt(e) = SumFunctionOnSet(h, K)
    BY <2>2, <2>7 DEF SumOver
  <2>11. (\A r \in Kept(at) : f[r] \in Nat) /\ (\A r \in K : h[r] \in Nat /\ h[r] <= f[r])
    BY <2>8, <2>9
  <2> HIDE DEF K, f, h
  <2> QED
    BY <2>8, <2>9, <2>10, <2>11, SumLess
<1> QED
  BY <1>2, <1>3

\* A tariff never asked more for a charge while it was going on than it does for
\* what is billed of it.
LEMMA LiveCostsLess ==
  ASSUME Sound, Mode = "amount", RisingSpec(Rule), NEW at \in start..now,
         NEW m, m = CutoffMeter(Rule, MeterAt(now), at),
         PriceActual(Rule, m).verdict = "priced",
         NEW b \in beats, b.at <= at,
         PriceActual(Rule, LiveMeter(b.at)).verdict = "priced"
  PROVE  Total(PriceActual(Rule, LiveMeter(b.at))) <= Total(PriceActual(Rule, m))
<1> DEFINE e == b.at
           p == LiveMeter(e)
           Ne == MeasuredSegments(e)
           N == MeasuredSegments(now)
<1>1. /\ start \in Nat /\ now \in Nat /\ at \in Nat /\ e \in Nat
      /\ start <= e /\ at <= now /\ e \in start..now /\ now \in start..now
  <2>1. e \in start..now
    BY DEF Sound
  <2> QED
    BY <2>1, PointFacts, WhFacts
<1>2. /\ p \in Meters /\ p.from = start /\ p.to = e /\ p.wh = WhAt(e)
  BY LiveIsMeter
<1>3. m \in Meters
  <2>1. MeterAt(now) \in Meters /\ at \in Int
    BY <1>1, MeterAtIsMeter
  <2> QED
    BY <2>1, CutoffIsMeter
<1>4. Priceable(Rule) /\ Total(PriceActual(Rule, m)) \in Nat
  BY <1>3, AmountSettled
<1>5. Rule.mode \in ServerModes /\ Rule.mode # "device_duration" /\ Rule.mode # "device_energy"
  BY <1>4 DEF Priceable, ServerModes
<1>6. ~m.doubtful /\ WellMeasured(Rule, Usage(m))
  BY <1>3, PricedIsMeasured
<1>7. CASE e = start
  <2>1. WhAt(start) = 0
    <3>1. start \in start..now /\ start <= start
      BY <1>1
    <3>2. WhAt(start) = SumFunctionOnSet(drawn, 1..(start - start))
      BY <3>1, WhBetween
    <3>3. 1..(start - start) = {}
      BY <1>1
    <3> QED
      BY <3>2, <3>3, SumEmpty
  <2>2. IsFree(Rule, p)
    BY <1>2, <1>7, <2>1 DEF IsFree
  <2>3. Total(PriceActual(Rule, p)) = 0
    BY <1>2, <2>2, FreeCostsNothing
  <2> HIDE DEF p
  <2> QED
    BY <1>4, <2>3 DEF p
<1>8. CASE e # start
  <2>1. start < e /\ Measured(e) /\ Measured(now) /\ e \in Points(now)
    BY <1>1, <1>8 DEF Measured, Points
  <2>2. Ne = {s \in N : s.to <= e}
    BY <1>1, <2>1, EarlierSamples
  <2>3. Ne \subseteq m.segments
    <3>1. CASE at = now
      <4>1. m = MeterAt(now)
        BY <1>6, <3>1, CutIs
      <4>2. m.segments = N
        BY <4>1 DEF MeterAt
      <4> QED
        BY <2>2, <4>2
    <3>2. CASE at # now
      <4>1. at < now
        BY <1>1, <3>2
      <4>2. m.segments = {Clip(s, at) : s \in Kept(at)}
        BY <1>5, <1>6, <4>1, CutIs
      <4>3. ASSUME NEW s \in Ne PROVE s \in m.segments
        <5>1. s \in N /\ s.to <= e
          BY <2>2
        <5>2. s.to \in Int
          BY <1>1, <2>1, <5>1, SegmentsFollow
        <5>3. s.to <= at
          BY <1>1, <5>1, <5>2
        <5>4. s \in Kept(at) /\ Clip(s, at) = s
          BY <5>1, <5>3, ClipFacts
        <5> QED
          BY <4>2, <5>4
      <4> QED
        BY <4>3
    <3> QED
      BY <3>1, <3>2
  <2>4. Ne # {} /\ \A s \in Ne : s = Segment(s.from, s.to)
    BY <1>1, <2>1, SegmentsFollow
  <2>5. PICK g : /\ LiveMeter(b.at) = [MeterAt(b.at) EXCEPT
                                         !.segments = {g[s] : s \in MeasuredSegments(b.at)}]
                 /\ \A s \in MeasuredSegments(b.at) :
                      /\ g[s].from = s.from /\ g[s].to = s.to /\ g[s].wh = s.wh
                      /\ ~Unread(s) => g[s] = s
    BY LiveMeterIs, ZenonT(60)
  <2>6. p.segments = {g[s] : s \in Ne}
    <3>1. MeterAt(e) = [MeterAt(e) EXCEPT !.segments = @] /\ "segments" \in DOMAIN MeterAt(e)
      BY DEF MeterAt
    <3> QED
      BY <2>5, <3>1
  <2>7. \A s \in Ne : /\ g[s].from = s.from /\ g[s].to = s.to /\ g[s].wh = s.wh
                      /\ ~Unread(s) => g[s] = s
    BY <2>5
  <2> DEFINE h == [x \in p.segments |-> CHOOSE s \in Ne : g[s] = x]
  <2>8. Found(p, m, h)
    <3>1. ASSUME NEW x \in p.segments PROVE h[x] \in Ne /\ g[h[x]] = x
      <4>1. \E s \in Ne : g[s] = x
        BY <2>6
      <4> QED
        BY <4>1
    <3> HIDE DEF h, p, Ne
    <3>2. \A x \in p.segments : /\ h[x] \in m.segments
                                /\ h[x].from = x.from /\ h[x].to = x.to /\ h[x].wh = x.wh
      BY <2>3, <2>7, <3>1
    <3>3. \A r, s \in p.segments : h[r] = h[s] => r = s
      BY <3>1
    <3> QED
      BY <3>2, <3>3 DEF Found
  <2>9. p.segments # {} /\ m.segments # {}
    BY <2>3, <2>4, <2>6
  <2>10. ASSUME Rule.mode \in ByPower, m.wh > 0
         PROVE  p.segments \subseteq m.segments
    <3>1. Usage(m).segments = m.segments /\ Usage(m).wh = m.wh
      BY <1>3, <2>9, UsageIsMeter DEF Segments
    <3>2. ASSUME NEW s \in Ne PROVE ~Unread(s)
      <4>1. s \in m.segments
        BY <2>3
      <4>2. CASE Rule.mode = "realtime"
        <5>1. s.power # Unknown
          BY <1>6, <3>1, <4>1, <4>2 DEF WellMeasured
        <5> QED
          BY <5>1 DEF Unread
      <4>3. CASE Rule.mode = "peak"
        <5>1. s.peak # 0 \/ s.power # Unknown
          BY <1>6, <2>10, <3>1, <4>1, <4>3 DEF WellMeasured
        <5>2. s = Segment(s.from, s.to)
          BY <2>4
        <5>4. Unread(Segment(s.from, s.to)) => Segment(s.from, s.to).peak = 0
          BY SegmentPower
        <5>3. Unread(s) => s.peak = 0
          BY <5>2, <5>4
        <5> QED
          BY <5>1, <5>3 DEF Unread
      <4> QED
        BY <2>10, <4>2, <4>3 DEF ByPower
    <3>3. \A s \in Ne : g[s] = s
      BY <2>7, <3>2
    <3> HIDE DEF p, Ne
    <3> QED
      BY <2>3, <2>6, <3>3
  <2>11. m.from = start /\ e <= m.to
    <3>1. CASE at = now
      <4>1. m = MeterAt(now)
        BY <1>6, <3>1, CutIs
      <4>2. m.from = start /\ m.to = now
        BY <4>1 DEF MeterAt
      <4> QED
        BY <1>1, <4>2
    <3>2. CASE at # now
      <4>1. at < now
        BY <1>1, <3>2
      <4>2. m.from = start /\ m.to = at
        BY <1>6, <4>1, CutIs
      <4> QED
        BY <4>2
    <3> QED
      BY <3>1, <3>2
  <2> HIDE DEF h, p, Ne, N
  <2>12. Total(PriceActual(Rule, p)) <= Total(PriceActual(Rule, m))
    <3>1. PriceActual(Rule, p).verdict = "priced"
      BY DEF p
    <3> HIDE DEF e
    <3> QED
      BY <1>2, <1>3, <1>4, <2>8, <2>9, <2>10, <2>11, <3>1, FoundIsCheaper
  <2> QED
    BY <2>12 DEF p
<1> QED
  BY <1>7, <1>8

\* So no fee that was shown for an instant that is billed exceeds the bill.
LEMMA ShownIsBilled ==
  ASSUME Sound, Recorded, stage = "billed", evidence = {}, Rising,
         NEW b \in beats, b.at <= BilledUntil
  PROVE  Total(LiveFee(b)) <= Total(bill)
<1> DEFINE p == LiveMeter(b.at)
           m == BilledMeter
<1>1. /\ p \in Meters /\ b.at \in start..now
      /\ p.used = b.at - start /\ p.wh = WhAt(b.at) /\ ~p.doubtful
  BY LiveIsMeter
<1>2. scheme \in Published /\ purchase \in Purchases(scheme)
  BY DEF Sound
<1>3. LiveFee(b) = SettleSession(scheme, purchase, p)
  BY DEF LiveFee
<1>4. bill = Fee /\ bill.verdict = "priced"
  BY DEF Recorded
<1>5. CASE FixedFee
  <2>1. bill = cutoff.fee
    BY <1>4, <1>5 DEF Fee
  <2>2. Total(cutoff.fee) = Price(purchase)
    <3>1. Mode = "amount" /\ \E t \in start..now : Decided(t)
      BY <1>5 DEF Recorded, FixedFee, Decided
    <3>2. PICK t \in start..now : cutoff.fee = BudgetStop(Rule, Price(purchase), MeterAt(t)).fee
      BY <3>1 DEF Decided
    <3>3. MeterAt(t) \in Meters
      BY MeterAtIsMeter
    <3> QED
      BY <3>1, <3>2, <3>3, PurchaseFacts, StopFeeIsPrice
  <2>3. Total(SettleSession(scheme, purchase, p)) <= Price(purchase)
    BY <1>1, <1>2, SettledWithinPrice
  <2> HIDE DEF p
  <2> QED
    BY <1>3, <2>1, <2>2, <2>3
<1>6. CASE ~FixedFee
  <2>1. bill = SettleSession(scheme, purchase, m) /\ m \in Meters
    BY <1>4, <1>6, BilledMeterIsMeter DEF Fee
  <2>2. m = CutoffMeter(Rule, MeterAt(now), BilledUntil)
    BY DEF BilledMeter
  <2>3. BilledUntil \in start..now
    <3>1. /\ start \in Nat /\ now \in Nat /\ BilledUntil \in Int /\ BilledUntil <= now
      BY BilledUntilIs
    <3>2. b.at \in Int /\ start <= b.at
      BY <1>1, <3>1
    <3> HIDE DEF BilledUntil
    <3> QED
      BY <3>1, <3>2
  <2>4. CASE Mode = "amount"
    <3>1. PriceActual(Rule, m).verdict = "priced"
      BY <1>4, <2>1, <2>4, AmountSettled
    <3>2. RisingSpec(Rule)
      BY DEF Rising, RisingSpec
    <3>3. PriceActual(Rule, p).verdict = "priced" =>
            Total(PriceActual(Rule, p)) <= Total(PriceActual(Rule, m))
      BY <2>2, <2>3, <2>4, <3>1, <3>2, LiveCostsLess
    <3>4. Total(SettleSession(scheme, purchase, p)) <= Total(SettleSession(scheme, purchase, m))
      BY <1>1, <2>1, <2>4, <3>1, <3>3, AmountOrder
    <3> QED
      BY <1>3, <2>1, <3>4
  <2>5. CASE Mode # "amount"
    <3>1. /\ ~m.doubtful /\ Rule.mode \notin ServerModes
          /\ Mode = "duration" \/ Mode = "energy"
          /\ \A n : ~n.doubtful =>
               SettleSession(scheme, purchase, n) =
                 IF Mode = "duration" THEN SettleDuration(purchase, n)
                 ELSE SettleEnergy(scheme, purchase, n)
      BY <1>4, <2>1, <2>5, OtherSettled
    <3>2. CASE Mode = "duration"
      <4>1. p.used <= m.used
        <5>1. m.used = BilledUntil - start
          <6>1. CASE BilledUntil = now
            <7>1. m = MeterAt(now)
              BY <2>2, <2>3, <3>1, <6>1, CutIs
            <7> QED
              BY <6>1, <7>1 DEF MeterAt
          <6>2. CASE BilledUntil # now
            <7>1. BilledUntil < now
              BY <6>2, BilledUntilIs
            <7> QED
              BY <2>2, <2>3, <3>1, <7>1, CutIs
          <6> QED
            BY <6>1, <6>2
        <5>2. BilledUntil \in Int /\ b.at \in Int /\ start \in Int
          BY <1>1, BilledUntilIs
        <5> HIDE DEF p, m, BilledUntil
        <5> QED
          BY <1>1, <5>1, <5>2
      <4>2. /\ SettleSession(scheme, purchase, p) = SettleDuration(purchase, p)
            /\ SettleSession(scheme, purchase, m) = SettleDuration(purchase, m)
        BY <1>1, <3>1, <3>2
      <4> HIDE DEF p, m
      <4> QED
        BY <1>1, <1>2, <1>3, <2>1, <3>2, <4>1, <4>2, DurationOrder DEF Mode
    <3>3. CASE Mode = "energy"
      <4>1. Rule.mode # "device_duration"
        BY <3>3 DEF Rule, SpecFor, Mode
      <4>2. p.wh <= m.wh
        BY <1>1, <2>2, <2>3, <3>1, <4>1, CutCounts
      <4>3. /\ SettleSession(scheme, purchase, p) = SettleEnergy(scheme, purchase, p)
            /\ SettleSession(scheme, purchase, m) = SettleEnergy(scheme, purchase, m)
        BY <1>1, <3>1, <3>3
      <4> HIDE DEF p, m
      <4> QED
        BY <1>1, <1>2, <1>3, <2>1, <3>3, <4>2, <4>3, EnergyOrder DEF Mode
    <3> QED
      BY <3>1, <3>2, <3>3
  <2> QED
    BY <2>4, <2>5
<1> QED
  BY <1>5, <1>6

\* A sample that reaches past an instant at which nothing was read, and a sample
\* that ends there, have the same power.
LEMMA CutKeepsPower ==
  ASSUME Sound, NEW at \in start..now, Rule.mode \in ByPower, NEW s \in Kept(at),
         s.to > at, s.power # Unknown, Rule.mode = "peak" => s.peak <= s.power
  PROVE  /\ Consecutive(at, s.from, at)
         /\ Watts(Rule, Segment(s.from, at)) = Watts(Rule, s)
         /\ Segment(s.from, at).power # Unknown
<1>1. /\ start \in Nat /\ now \in Nat /\ at \in Nat /\ start <= at /\ at <= now
      /\ now \in start..now /\ Points(now) \in SUBSET Int
  BY PointFacts, WhFacts
<1>2. s \in MeasuredSegments(now) /\ s.from < at
  BY DEF Kept
<1>3. Measured(now)
  BY <1>1, <1>2, SegmentsAre
<1> DEFINE a == s.from
           b == s.to
           q == Segment(a, at)
<1>4. Consecutive(now, a, b) /\ s = Segment(a, b) /\ a \in Int /\ b \in Int /\ start <= a
  BY <1>1, <1>2, <1>3, SegmentsFollow
<1>5. a < at /\ at < b
  BY <1>1, <1>2, <1>4
<1> HIDE DEF a, b, q
<1>6. Points(at) = {v \in Points(now) : v <= at} \cup {at}
  <2>1. \A v : v \in Points(now) <=> v \in {start, now} \/ (v \in start..now /\ \E x \in beats : x.at = v)
    BY DEF Points
  <2>2. \A v : v \in Points(at) <=> v \in {start, at} \/ (v \in start..at /\ \E x \in beats : x.at = v)
    BY DEF Points
  <2>3. \A v : v \in start..at <=> v \in start..now /\ v <= at
    BY <1>1
  <2> QED
    BY <1>1, <2>1, <2>2, <2>3
<1>7. Consecutive(at, a, at)
  <2>1. \A v \in Points(now) : v <= a \/ b <= v
    BY <1>4 DEF Consecutive
  <2>2. a \in Points(now) /\ a \in Points(at) /\ at \in Points(at)
    BY <1>4, <1>5, <1>6 DEF Consecutive
  <2>3. \A v \in Points(at) : v <= a \/ at <= v
    BY <1>1, <1>4, <1>5, <1>6, <2>1
  <2> QED
    BY <1>5, <2>2, <2>3 DEF Consecutive
<1>8. ~Seen(at)
  <2> SUFFICES ASSUME Seen(at) PROVE FALSE
    OBVIOUS
  <2>1. at \in Points(now)
    BY <1>1 DEF Seen, Points
  <2> QED
    BY <1>1, <1>4, <1>5, <2>1 DEF Consecutive
<1>9. ~Unread(Segment(a, b))
  BY <1>4 DEF Unread
<1>10. Seen(a) /\ b - a <= Minute
  BY <1>9, SegmentPower
<1>11. Seen(a) /\ at - a <= Minute
  BY <1>1, <1>4, <1>5, <1>10, Sizes
<1>12. /\ Segment(a, b).power = BeatAt(a).power /\ Segment(a, b).power \in Nat
       /\ Segment(a, b).peak = Max({Segment(a, b).power, IF Seen(b) THEN BeatAt(b).power ELSE 0})
  BY <1>9, SegmentPower
<1>13. /\ ~Unread(Segment(a, at))
       /\ Segment(a, at).power = BeatAt(a).power
       /\ Segment(a, at).peak = Max({Segment(a, at).power,
                                     IF Seen(at) THEN BeatAt(at).power ELSE 0})
  BY <1>11, SegmentPower
<1>14. s.power = q.power /\ s.power \in Nat
  BY <1>4, <1>12, <1>13 DEF q
<1>15. q.peak = s.power
  <2>1. q.peak = Max({s.power, 0})
    BY <1>8, <1>13, <1>14 DEF q
  <2>2. Max({s.power, 0}) \in {s.power, 0} /\ s.power <= Max({s.power, 0})
    <3>1. s.power \in Int /\ 0 \in Int
      BY <1>14
    <3> QED
      BY <3>1, MaxOfTwo
  <2> QED
    BY <1>14, <2>1, <2>2
<1>16. Rule.mode = "peak" => s.peak = s.power
  <2> SUFFICES ASSUME Rule.mode = "peak" PROVE s.peak = s.power
    OBVIOUS
  <2> DEFINE y == IF Seen(b) THEN BeatAt(b).power ELSE 0
             x == s.power
  <2>1. s.peak = Max({x, y})
    BY <1>4, <1>12
  <2>2. y \in Int /\ x \in Int
    <3>1. Seen(b) => BeatAt(b).power \in Int
      BY BeatFacts
    <3> QED
      BY <1>14, <3>1
  <2> HIDE DEF x, y
  <2>3. Max({x, y}) \in {x, y} /\ x <= Max({x, y})
    BY <2>2, MaxOfTwo
  <2>4. s.peak \in Int /\ s.peak <= x /\ x <= s.peak
    BY <2>1, <2>2, <2>3 DEF x
  <2> QED
    BY <2>2, <2>4 DEF x
<1>17. q.power # Unknown
  BY <1>13 DEF Unread, q
<1>18. Watts(Rule, q) = Watts(Rule, s)
  BY <1>14, <1>15, <1>16 DEF Watts, ByPower
<1> QED
  BY <1>7, <1>17, <1>18 DEF a, q

\* What was billed of a charge that went on costs no more than it would have cost
\* had it ended at the cutoff.
LEMMA CutCostsNoMore ==
  ASSUME Sound, Mode = "amount", RisingSpec(Rule),
         NEW at \in start..now, start < at, at < now, WhAt(at) > 0,
         NEW m, m = CutoffMeter(Rule, MeterAt(now), at),
         PriceActual(Rule, m).verdict = "priced",
         PriceActual(Rule, MeterAt(at)).verdict = "priced"
  PROVE  Total(PriceActual(Rule, m)) <= Total(PriceActual(Rule, MeterAt(at)))
<1> DEFINE n == MeterAt(at)
<1>1. /\ start \in Nat /\ now \in Nat /\ at \in Nat /\ now \in start..now
  BY PointFacts, WhFacts
<1>2. /\ n \in Meters /\ n.from = start /\ n.to = at /\ n.used = at - start
      /\ n.wh = WhAt(at) /\ n.segments = MeasuredSegments(at) /\ ~n.doubtful
  BY MeterAtIsMeter DEF MeterAt
<1>3. m \in Meters
  <2>1. MeterAt(now) \in Meters /\ at \in Int
    BY <1>1, MeterAtIsMeter
  <2> QED
    BY <2>1, CutoffIsMeter
<1>4. Priceable(Rule) /\ Total(PriceActual(Rule, m)) \in Nat
  BY <1>3, AmountSettled
<1>5. Rule.mode \in ServerModes /\ Rule.mode # "device_duration"
  BY <1>4 DEF Priceable, ServerModes
<1>6. ~m.doubtful /\ WellMeasured(Rule, Usage(m))
  BY <1>3, PricedIsMeasured
<1>7. /\ m.from = start /\ m.to = at /\ m.used = at - start
      /\ m.segments = {Clip(s, at) : s \in Kept(at)}
      /\ \A s \in Kept(at) : s.to > at =>
           /\ Rule.mode # "energy" /\ s.power # Unknown
           /\ Rule.mode = "peak" => s.peak <= s.power
      /\ \E s \in Kept(at) : at <= s.to
  BY <1>5, <1>6, CutIs
<1>8. CASE \A s \in Kept(at) : s.to <= at
  <2>1. m.wh = WhAt(at) /\ m.segments = MeasuredSegments(at)
    BY <1>5, <1>6, <1>8, CutIsMeterAt
  <2>2. m = n
    <3>1. \A k \in Meters :
            k = [from |-> k.from, to |-> k.to, used |-> k.used, wh |-> k.wh,
                 segments |-> k.segments, doubtful |-> k.doubtful] /\ k.doubtful \in BOOLEAN
      BY DEF Meters
    <3> HIDE DEF n
    <3>2. m.doubtful = n.doubtful
      BY <1>2, <1>3, <1>6, <3>1
    <3> QED
      BY <1>2, <1>3, <1>7, <2>1, <3>1, <3>2
  <2> QED
    BY <1>4, <2>2
<1>9. CASE \E s \in Kept(at) : ~(s.to <= at)
  <2>0. PICK c \in Kept(at) : ~(c.to <= at)
    BY <1>9
  <2>1. c \in MeasuredSegments(now) /\ Measured(now)
    BY <1>1, <2>0, SegmentsAre DEF Kept
  <2>2. \A s \in Kept(at) : /\ s \in MeasuredSegments(now) /\ s.from < at
                            /\ s.from \in Int /\ s.to \in Int /\ start <= s.from
                            /\ Consecutive(now, s.from, s.to) /\ s = Segment(s.from, s.to)
    BY <1>1, <2>1, SegmentsFollow DEF Kept
  <2>3. c.to > at /\ Rule.mode \in ByPower
    BY <1>1, <1>5, <1>7, <2>0, <2>2 DEF ServerModes, ByPower
  <2>4. WellMeasured(Rule, Usage(n)) /\ n.wh > 0
    <3>1. PriceActual(Rule, n).verdict = "priced"
      OBVIOUS
    <3> HIDE DEF n
    <3> QED
      BY <1>2, <3>1, PricedIsMeasured
  <2>5. Measured(at)
    <3> SUFFICES ASSUME ~Measured(at) PROVE FALSE
      OBVIOUS
    <3>1. n.segments = {}
      BY <1>2, SegmentsAre
    <3> DEFINE s == [from |-> n.from, to |-> n.to, wh |-> n.wh, power |-> Unknown, peak |-> 0]
    <3>2. Usage(n).segments = {s} /\ Usage(n).wh = n.wh
      <4> HIDE DEF n
      <4> QED
        BY <1>2, <3>1, UsageIsMeter DEF Segments
    <3>3. s.power = Unknown /\ s.peak = 0 /\ s \in Usage(n).segments
      BY <3>2
    <3> HIDE DEF s, n
    <3> QED
      BY <2>3, <2>4, <3>2, <3>3 DEF WellMeasured, ByPower
  <2>6. \A s : s \in MeasuredSegments(at) <=>
          \E t, u \in Points(at) : Consecutive(at, t, u) /\ s = Segment(t, u)
    BY <2>5, SegmentsAre
  <2>7. Usage(m).segments = m.segments /\ Usage(n).segments = n.segments
        /\ Usage(m) \in Meters /\ Usage(n) \in Meters
    <3>1. m.segments # {}
      BY <1>7
    <3>2. n.segments # {}
      BY <1>2, <2>5, SegmentsFollow
    <3> HIDE DEF n
    <3> QED
      BY <1>2, <1>3, <3>1, <3>2, UsageIsMeter DEF Segments
  <2>8. Followed(Usage(m)) /\ Followed(Usage(n))
    BY <1>6, <2>4, <2>7 DEF WellMeasured, Followed
  <2>9. ASSUME NEW s \in Kept(at)
        PROVE  \E q \in MeasuredSegments(at) :
                 q.from = s.from /\ q.to = Clip(s, at).to /\ Watts(Rule, q) = Watts(Rule, Clip(s, at))
    <3>1. /\ s \in MeasuredSegments(now) /\ s.from < at
          /\ s.from \in Int /\ s.to \in Int /\ start <= s.from
          /\ Consecutive(now, s.from, s.to) /\ s = Segment(s.from, s.to)
      BY <2>2
    <3>2. CASE s.to <= at
      <4>1. Clip(s, at) = s
        BY <3>1, <3>2, ClipFacts
      <4>2. s.to \in Points(now) /\ start < s.to /\ s.to > s.from
        BY <1>1, <3>1 DEF Consecutive
      <4>3. Consecutive(at, s.from, s.to)
        <5>1. \A v : v \in Points(now) <=> v \in {start, now} \/ (v \in start..now /\ \E x \in beats : x.at = v)
          BY DEF Points
        <5>2. \A v : v \in Points(at) <=> v \in {start, at} \/ (v \in start..at /\ \E x \in beats : x.at = v)
          BY DEF Points
        <5>3. s.from \in Points(at) /\ s.to \in Points(at)
          BY <1>1, <3>1, <3>2, <5>1, <5>2 DEF Consecutive
        <5>4. \A v \in Points(at) : v \in Points(now) \/ v = at
          BY <1>1, <5>1, <5>2
        <5>5. \A v \in Points(at) : v <= s.from \/ s.to <= v
          BY <3>1, <3>2, <5>4 DEF Consecutive
        <5> QED
          BY <4>2, <5>3, <5>5 DEF Consecutive
      <4>4. s \in MeasuredSegments(at)
        BY <2>6, <3>1, <4>3 DEF Consecutive
      <4> QED
        BY <4>1, <4>4
    <3>3. CASE ~(s.to <= at)
      <4>1. s.to > at
        BY <1>1, <3>1, <3>3
      <4>2. /\ Consecutive(at, s.from, at)
            /\ Watts(Rule, Segment(s.from, at)) = Watts(Rule, s)
        BY <1>7, <2>3, <4>1, CutKeepsPower
      <4> DEFINE q == Segment(s.from, at)
      <4>3. q \in MeasuredSegments(at)
        BY <2>6, <4>2 DEF Consecutive
      <4>4. q.from = s.from /\ q.to = at
        BY SegmentIs
      <4>5. Clip(s, at) = [s EXCEPT !.to = at]
        BY <3>1, <4>1, ClipFacts
      <4>6. s \in Samples
        <5>1. MeterAt(now) \in Meters /\ MeterAt(now).segments = MeasuredSegments(now)
          BY <1>1, MeterAtIsMeter DEF MeterAt
        <5> QED
          BY <3>1, <5>1, MeterFacts
      <4>7. /\ Clip(s, at).to = at
            /\ Clip(s, at).power = s.power /\ Clip(s, at).peak = s.peak
        BY <4>5, <4>6 DEF Samples
      <4>8. Watts(Rule, Clip(s, at)) = Watts(Rule, s)
        BY <4>7 DEF Watts
      <4> QED
        BY <4>2, <4>3, <4>4, <4>7, <4>8
    <3> QED
      BY <3>2, <3>3
  <2>10. Matched(Rule, Usage(m), Rule, Usage(n), Same)
    <3> DEFINE u == Usage(m)
               v == Usage(n)
    <3> SUFFICES ASSUME NEW r \in u.segments
                 PROVE  \E q \in v.segments : /\ q.from = r.from /\ r.to <= q.to
                                              /\ <<Watts(Rule, r), Watts(Rule, q)>> \in Same
      BY DEF Matched
    <3>1. r \in m.segments
      BY <2>7
    <3>2. PICK s \in Kept(at) : r = Clip(s, at)
      BY <1>7, <3>1
    <3>3. r.from = s.from
      BY <2>2, <3>2, ClipFacts
    <3>4. PICK q \in MeasuredSegments(at) :
            q.from = s.from /\ q.to = r.to /\ Watts(Rule, q) = Watts(Rule, r)
      BY <2>9, <3>2
    <3>5. q \in v.segments
      BY <1>2, <2>7
    <3>6. r.to \in Int /\ r.power \in Int /\ r.peak \in Int
      BY <1>3, <3>1, MeterFacts
    <3>7. r.to <= q.to /\ <<Watts(Rule, r), Watts(Rule, q)>> \in Same
      BY <3>4, <3>6 DEF Watts, Same
    <3> HIDE DEF u, v
    <3> QED
      BY <3>3, <3>4, <3>5, <3>7
  <2>11. Rule.mode # "energy"
    BY <2>3 DEF ByPower
  <2>12. Total(PriceActual(Rule, m)) <= Total(PriceActual(Rule, n))
    <3>1. PriceActual(Rule, n).verdict = "priced"
      OBVIOUS
    <3>2. m.from = n.from /\ m.to <= n.to
      BY <1>1, <1>2, <1>7
    <3> HIDE DEF n
    <3> QED
      BY <1>2, <1>3, <1>4, <2>4, <2>10, <2>11, <3>1, <3>2, ShorterCostsLess
  <2> QED
    BY <2>12
<1> QED
  BY <1>8, <1>9

\* So the bill is no more than the fee at the cutoff.
LEMMA BilledAtCutoff ==
  ASSUME Sound, Recorded, stage = "billed", evidence = {}, Rising,
         cutoff # NoCutoff, ~FixedFee, cutoff.at < now, WhAt(cutoff.at) > 0,
         SettleSession(scheme, purchase, MeterAt(cutoff.at)).verdict = "priced"
  PROVE  Total(bill) <= Total(SettleSession(scheme, purchase, MeterAt(cutoff.at)))
<1> DEFINE at == cutoff.at
           m == BilledMeter
           n == MeterAt(at)
<1>1. /\ start \in Nat /\ now \in Nat /\ at \in Int
      /\ BilledUntil \in Int /\ BilledUntil <= at
      /\ \/ BilledUntil = now
         \/ cutoff # NoCutoff /\ BilledUntil = at
         \/ Mode = "amount" /\ BilledUntil = start + Limit
  BY BilledUntilIs DEF Sound
<1>2. BilledUntil = at
  <2>1. Mode = "amount" => at <= start + Limit
    BY DEF Recorded
  <2> HIDE DEF BilledUntil
  <2> QED
    BY <1>1, <2>1
<1>3. start < at /\ at \in start..now
  <2>1. ASSUME at <= start PROVE FALSE
    <3>1. 1..(at - start) = {}
      BY <1>1, <2>1
    <3>2. WhAt(at) = 0
      BY <3>1, SumEmpty DEF WhAt, SumOver
    <3> QED
      BY <3>2
  <2> QED
    BY <1>1, <2>1
<1>4. bill = SettleSession(scheme, purchase, m) /\ bill.verdict = "priced"
      /\ m = CutoffMeter(Rule, MeterAt(now), at) /\ m \in Meters
  BY <1>2, BilledMeterIsMeter DEF Recorded, Fee, BilledMeter
<1>5. /\ n \in Meters /\ n.used = at - start /\ n.wh = WhAt(at) /\ ~n.doubtful
  BY <1>3, MeterAtIsMeter DEF MeterAt
<1> HIDE DEF m, at
<1>6. CASE Mode = "amount"
  <2>1. PriceActual(Rule, m).verdict = "priced" /\ PriceActual(Rule, n).verdict = "priced"
    <3>1. SettleSession(scheme, purchase, n).verdict = "priced"
      BY DEF at
    <3> HIDE DEF n
    <3> QED
      BY <1>4, <1>5, <1>6, <3>1, AmountSettled
  <2>2. RisingSpec(Rule)
    BY DEF Rising, RisingSpec
  <2>3. at < now /\ WhAt(at) > 0
    BY DEF at
  <2>4. Total(PriceActual(Rule, m)) <= Total(PriceActual(Rule, n))
    BY <1>3, <1>4, <1>6, <2>1, <2>2, <2>3, CutCostsNoMore
  <2> HIDE DEF n
  <2>5. Total(SettleSession(scheme, purchase, m)) <= Total(SettleSession(scheme, purchase, n))
    BY <1>4, <1>5, <1>6, <2>1, <2>4, AmountOrder
  <2> QED
    BY <1>4, <2>5 DEF n, at
<1>7. CASE Mode # "amount"
  <2>1. /\ ~m.doubtful /\ Rule.mode \notin ServerModes
        /\ Mode = "duration" \/ Mode = "energy"
        /\ \A k : ~k.doubtful =>
             SettleSession(scheme, purchase, k) =
               IF Mode = "duration" THEN SettleDuration(purchase, k)
               ELSE SettleEnergy(scheme, purchase, k)
    BY <1>4, <1>7, OtherSettled
  <2>2. at < now /\ scheme \in Published /\ purchase \in Purchases(scheme)
    BY DEF at, Sound
  <2>3. CASE Mode = "duration"
    <3>1. m.used = at - start
      BY <1>3, <1>4, <2>1, <2>2, CutIs
    <3>2. m.used <= n.used
      <4>1. m.used \in Int /\ n.used = m.used
        BY <1>4, <1>5, <3>1, MeterFacts
      <4> QED
        BY <4>1
    <3>3. /\ SettleSession(scheme, purchase, m) = SettleDuration(purchase, m)
          /\ SettleSession(scheme, purchase, n) = SettleDuration(purchase, n)
      BY <1>5, <2>1, <2>3
    <3> HIDE DEF n
    <3>4. Total(SettleSession(scheme, purchase, m)) <= Total(SettleSession(scheme, purchase, n))
      BY <1>4, <1>5, <2>2, <2>3, <3>2, <3>3, DurationOrder DEF Mode
    <3> QED
      BY <1>4, <3>4 DEF n, at
  <2>4. CASE Mode = "energy"
    <3>1. Rule.mode = "device_energy"
      BY <2>4 DEF Rule, SpecFor, Mode
    <3>2. \A s \in Kept(at) : ~(s.to > at)
      BY <1>3, <1>4, <2>1, <2>2, <3>1, CutIs
    <3>3. \A s \in Kept(at) : s.to <= at
      <4>1. now \in start..now
        BY <1>1, <1>3
      <4>2. MeterAt(now) \in Meters /\ MeterAt(now).segments = MeasuredSegments(now)
        BY <4>1, MeterAtIsMeter DEF MeterAt
      <4>3. \A s \in MeasuredSegments(now) : s.to \in Int
        BY <4>2, MeterFacts
      <4> QED
        BY <1>1, <3>2, <4>3 DEF Kept
    <3>4. m.wh = WhAt(at)
      BY <1>3, <1>4, <2>1, <2>2, <3>1, <3>3, CutIsMeterAt
    <3>5. m.wh <= n.wh
      <4>1. m.wh \in Int /\ n.wh = m.wh
        BY <1>4, <1>5, <3>4, MeterFacts
      <4> QED
        BY <4>1
    <3>6. /\ SettleSession(scheme, purchase, m) = SettleEnergy(scheme, purchase, m)
          /\ SettleSession(scheme, purchase, n) = SettleEnergy(scheme, purchase, n)
      BY <1>5, <2>1, <2>4
    <3> HIDE DEF n
    <3>7. Total(SettleSession(scheme, purchase, m)) <= Total(SettleSession(scheme, purchase, n))
      BY <1>4, <1>5, <2>2, <2>4, <3>5, <3>6, EnergyOrder DEF Mode
    <3> QED
      BY <1>4, <3>7 DEF n, at
  <2> QED
    BY <2>1, <2>3, <2>4
<1> QED
  BY <1>6, <1>7

(* The bill lies between what the customer was shown while charging and what  *)
(* the charge would have cost had it ended at its cutoff, whatever the scheme, *)
(* the charge and the heartbeats that were missed, if no peak tariff asks less *)
(* for a higher power (live_meter.go:36-37, scheme_cost.go:123-124).          *)
THEOREM BillsBracketed == Spec => []BillIsBracketed
<1>1. Sound /\ Recorded => BillIsBracketed
  BY ShownIsBilled, BilledAtCutoff DEF BillIsBracketed
<1> QED
  BY <1>1, SoundInvariance, RecordedInvariance, PTL

---------------------------------------------------------------------------
(* What the bounds of a tariff promise.                                     *)

Beyond(upper, x, y) == IF upper THEN y <= x ELSE x <= y

\* A bound is one of the prices it bounds, and lies beyond them all.
LEMMA BoundPrice ==
  ASSUME NEW entry, NEW others, IsFiniteSet(others), NEW upper \in BOOLEAN,
         entry.electric \in Int, entry.service \in Int, Parts \subseteq DOMAIN entry,
         \A o \in others : o.electric \in Int /\ o.service \in Int,
         NEW part \in Parts
  PROVE  /\ \E o \in {entry} \cup others : BoundOf(entry, others, upper)[part] = o[part]
         /\ \A o \in {entry} \cup others :
              Beyond(upper, BoundOf(entry, others, upper)[part], o[part])
<1> DEFINE pick(S) == IF upper THEN Max(S) ELSE Min(S)
           E == {entry.electric} \cup {o.electric : o \in others}
           V == {entry.service} \cup {o.service : o \in others}
           all == {entry} \cup others
           bound == BoundOf(entry, others, upper)
<1>1. IsFiniteSet(all)
  BY FS_Singleton, FS_Union
<1>2. bound = Repriced(entry, pick(E), pick(V))
  BY DEF BoundOf, Repriced
<1>3. E = {o.electric : o \in all} /\ V = {o.service : o \in all}
  OBVIOUS
<1> HIDE DEF E, V, bound
<1>4. bound.electric = pick(E) /\ bound.service = pick(V)
  BY <1>2 DEF Repriced, Parts
<1> DEFINE f == [o \in all |-> o[part]]
           S == {f[o] : o \in all}
<1>5. bound[part] = pick(S)
  <2>1. S = {o[part] : o \in all}
    OBVIOUS
  <2>2. CASE part = "electric"
    BY <1>3, <1>4, <2>1, <2>2
  <2>3. CASE part = "service"
    BY <1>3, <1>4, <2>1, <2>3
  <2> QED
    BY <2>2, <2>3 DEF Parts
<1>6. \A o \in all : f[o] = o[part] /\ o[part] \in Int
  BY DEF Parts
<1> HIDE DEF f
<1>7. IsFiniteSet(S) /\ S \in SUBSET Int /\ S # {}
  BY <1>1, <1>6, ImageFinite
<1>8. pick(S) \in S /\ \A y \in S : Beyond(upper, pick(S), y)
  BY <1>7, MinOf, MaxOf DEF Beyond
<1> HIDE DEF pick
<1>9. \E o \in all : bound[part] = o[part]
  BY <1>5, <1>6, <1>8
<1>10. \A o \in all : Beyond(upper, bound[part], o[part])
  BY <1>5, <1>6, <1>8
<1> QED
  BY <1>9, <1>10 DEF bound

\* An entry and the bound in its place differ in nothing but the prices.
LEMMA BoundKeeps ==
  ASSUME NEW entry, NEW others, NEW upper, NEW name \in DOMAIN entry, name \notin Parts
  PROVE  BoundOf(entry, others, upper)[name] = entry[name]
<1> DEFINE pick(S) == IF upper THEN Max(S) ELSE Min(S)
           E == {entry.electric} \cup {o.electric : o \in others}
           V == {entry.service} \cup {o.service : o \in others}
<1>1. BoundOf(entry, others, upper) = Repriced(entry, pick(E), pick(V))
  BY DEF BoundOf, Repriced
<1> HIDE DEF E, V, pick
<1> QED
  BY <1>1 DEF Repriced, Parts

\* What a written tariff is made of.
LEMMA WrittenFacts ==
  ASSUME NEW spec, Written(spec), NEW i \in DOMAIN spec.periods
  PROVE  LET p == spec.periods[i]
         IN  /\ Len(spec.periods) \in Nat /\ DOMAIN spec.periods = 1..Len(spec.periods)
             /\ p \in [end : Int, electric : Int, service : Int, tiers : Tiers]
             /\ IsFiniteSet(Range(spec.periods))
             /\ Range(spec.periods) = {spec.periods[k] : k \in 1..Len(spec.periods)}
             /\ Len(p.tiers) \in Nat /\ DOMAIN p.tiers = 1..Len(p.tiers)
             /\ IsFiniteSet(Range(p.tiers))
             /\ Range(p.tiers) = {p.tiers[k] : k \in 1..Len(p.tiers)}
             /\ \A j \in 1..Len(p.tiers) :
                  p.tiers[j] \in [max : Int, electric : Int, service : Int]
<1> DEFINE Tier == [max : Int, electric : Int, service : Int]
           Period == [end : Int, electric : Int, service : Int, tiers : Tiers]
           p == spec.periods[i]
<1>1. spec.periods \in Seq(Period) /\ Tiers = Seq(Tier)
  BY DEF Written, Periods, Tiers
<1>2. \A q \in Period : q.tiers \in Tiers
  OBVIOUS
<1> HIDE DEF Tier, Period
<1>3. /\ Len(spec.periods) \in Nat /\ DOMAIN spec.periods = 1..Len(spec.periods)
      /\ \A k \in 1..Len(spec.periods) : spec.periods[k] \in Period
      /\ IsFiniteSet(Range(spec.periods))
      /\ Range(spec.periods) = {spec.periods[k] : k \in 1..Len(spec.periods)}
  BY <1>1, SeqFacts, RangeFacts DEF Range
<1>4. p \in Period
  BY <1>3
<1>5. p.tiers \in Seq(Tier)
  BY <1>1, <1>2, <1>4
<1> HIDE DEF p
<1>6. /\ Len(p.tiers) \in Nat /\ DOMAIN p.tiers = 1..Len(p.tiers)
      /\ \A k \in 1..Len(p.tiers) : p.tiers[k] \in Tier
      /\ IsFiniteSet(Range(p.tiers))
  BY <1>5, SeqFacts, RangeFacts
<1>7. Range(p.tiers) = {p.tiers[k] : k \in 1..Len(p.tiers)}
  BY <1>6 DEF Range
<1> QED
  BY <1>3, <1>4, <1>6, <1>7 DEF p, Tier, Period

\* The entries a tier may stand for, and what a bound makes of a period.
TiersFrom(spec, upper, i, j) ==
  IF upper \/ j = 1 THEN Range(spec.periods[i].tiers)
  ELSE IF spec.mode = "realtime" THEN {}
  ELSE {spec.periods[i].tiers[k] : k \in j..Len(spec.periods[i].tiers)}
BoundTiers(spec, upper, i) ==
  [j \in DOMAIN spec.periods[i].tiers |->
     BoundOf(spec.periods[i].tiers[j], TiersFrom(spec, upper, i, j), upper)]
BoundPeriod(spec, upper, i) ==
  IF spec.mode = "energy" THEN BoundOf(spec.periods[i], Range(spec.periods), upper)
  ELSE [spec.periods[i] EXCEPT !.tiers = BoundTiers(spec, upper, i)]

\* A bound keeps everything of a tariff but its prices.
LEMMA BoundShape ==
  ASSUME NEW spec, Written(spec), NEW upper \in BOOLEAN
  PROVE  LET b == BoundSpec(spec, upper)
         IN  /\ Written(b) /\ b.mode = spec.mode /\ b.free = spec.free
             /\ b.minElectric = spec.minElectric
             /\ Len(b.periods) = Len(spec.periods)
             /\ \A i \in 1..Len(spec.periods) :
                  /\ b.periods[i] = BoundPeriod(spec, upper, i)
                  /\ b.periods[i].end = spec.periods[i].end
<1> DEFINE b == BoundSpec(spec, upper)
           n == Len(spec.periods)
           f == [i \in 1..n |-> BoundPeriod(spec, upper, i)]
           Period == [end : Int, electric : Int, service : Int, tiers : Tiers]
<1>1. Written(b)
  BY BoundIsWritten
<1>2. /\ n \in Nat /\ DOMAIN spec.periods = 1..n
      /\ \A i \in 1..n : spec.periods[i] \in Period
  <2>1. spec.periods \in Seq(Period)
    BY DEF Written, Periods
  <2> HIDE DEF Period
  <2> QED
    BY <2>1, SeqFacts
<1>3. /\ b.mode = spec.mode /\ b.free = spec.free /\ b.minElectric = spec.minElectric
      /\ b.periods = f
  <2>1. b = [spec EXCEPT !.periods = f]
    BY <1>2 DEF BoundSpec, BoundPeriod, BoundTiers, TiersFrom
  <2> HIDE DEF b, f
  <2> QED
    BY <2>1
<1>4. Len(b.periods) = n
  <2>1. b.periods \in Seq(Period)
    BY <1>1 DEF Written, Periods
  <2> HIDE DEF Period
  <2>2. Len(b.periods) \in Nat /\ DOMAIN b.periods = 1..Len(b.periods)
    BY <2>1, SeqFacts
  <2>3. DOMAIN b.periods = 1..n
    BY <1>3
  <2> HIDE DEF b, f, n
  <2> DEFINE l == Len(b.periods)
  <2>4. l \in Nat /\ n \in Nat /\ 1..l = 1..n
    BY <1>2, <2>2, <2>3
  <2> HIDE DEF l
  <2>5. \A x \in Int : 1 <= x /\ x <= l <=> 1 <= x /\ x <= n
    BY <2>4
  <2>6. l = n
    BY <2>4, <2>5
  <2> QED
    BY <2>6 DEF l
<1>5. ASSUME NEW i \in 1..n PROVE BoundPeriod(spec, upper, i).end = spec.periods[i].end
  <2> DEFINE p == spec.periods[i]
  <2>1. p \in Period
    BY <1>2
  <2>2. "end" \in DOMAIN p /\ "end" \notin Parts
    BY <2>1 DEF Parts
  <2>3. CASE spec.mode = "energy"
    <3>1. BoundOf(p, Range(spec.periods), upper)["end"] = p["end"]
      <4> HIDE DEF p, Period
      <4> QED
        BY <2>2, BoundKeeps
    <3> QED
      BY <2>3, <3>1 DEF BoundPeriod
  <2>4. CASE spec.mode # "energy"
    BY <2>1, <2>4 DEF BoundPeriod
  <2> QED
    BY <2>3, <2>4
<1>6. \A i \in 1..n : b.periods[i] = BoundPeriod(spec, upper, i)
  BY <1>3
<1> HIDE DEF b, f
<1>7. \A i \in 1..n : b.periods[i].end = spec.periods[i].end
  BY <1>5, <1>6
<1> QED
  BY <1>1, <1>3, <1>4, <1>6, <1>7 DEF b

\* Sequences of one domain have one length.
LEMMA SameLength ==
  ASSUME NEW X, NEW Y, NEW s \in Seq(X), NEW r \in Seq(Y), DOMAIN s = DOMAIN r
  PROVE  Len(s) = Len(r)
<1> DEFINE l == Len(s)
           n == Len(r)
<1>1. l \in Nat /\ n \in Nat /\ 1..l = 1..n
  BY SeqFacts
<1> HIDE DEF l, n
<1>2. \A x \in Int : 1 <= x /\ x <= l <=> 1 <= x /\ x <= n
  BY <1>1
<1>3. l = n
  BY <1>1, <1>2
<1> QED
  BY <1>3 DEF l, n

\* The bound of one tier lies beyond every tier the power may in truth be of.
LEMMA BoundTier ==
  ASSUME NEW spec, Written(spec), spec.mode \in ByPower, NEW upper \in BOOLEAN,
         NEW i \in 1..Len(spec.periods)
  PROVE  LET row == BoundSpec(spec, upper).periods[i].tiers
             tiers == spec.periods[i].tiers
         IN  /\ Len(tiers) \in Nat /\ Len(row) = Len(tiers)
             /\ \A j \in 1..Len(tiers) :
                  row[j].max = tiers[j].max /\ tiers[j].max \in Int
             /\ \A j, k \in 1..Len(tiers) :
                  upper \/ j = 1 \/ j = k \/ (spec.mode = "peak" /\ j <= k) =>
                    \A part \in Parts : Beyond(upper, row[j][part], tiers[k][part])
<1> DEFINE b == BoundSpec(spec, upper)
           row == b.periods[i].tiers
           tiers == spec.periods[i].tiers
           Tier == [max : Int, electric : Int, service : Int]
<1>1. /\ Written(b) /\ Len(b.periods) = Len(spec.periods)
      /\ b.periods[i] = BoundPeriod(spec, upper, i)
  BY BoundShape
<1>2. /\ Len(spec.periods) \in Nat /\ DOMAIN spec.periods = 1..Len(spec.periods)
  <2>1. spec.periods \in Seq([end : Int, electric : Int, service : Int, tiers : Tiers])
    BY DEF Written, Periods
  <2> QED
    BY <2>1, SeqFacts
<1>3. /\ spec.periods[i] \in [end : Int, electric : Int, service : Int, tiers : Tiers]
      /\ Len(tiers) \in Nat /\ DOMAIN tiers = 1..Len(tiers)
      /\ IsFiniteSet(Range(tiers)) /\ Range(tiers) = {tiers[k] : k \in 1..Len(tiers)}
      /\ \A j \in 1..Len(tiers) : tiers[j] \in Tier
  <2>1. i \in DOMAIN spec.periods
    BY <1>2
  <2>2. /\ spec.periods[i] \in [end : Int, electric : Int, service : Int, tiers : Tiers]
        /\ Len(tiers) \in Nat /\ DOMAIN tiers = 1..Len(tiers)
    BY <2>1, WrittenFacts, Zenon
  <2>3. Range(tiers) = {tiers[k] : k \in 1..Len(tiers)}
    BY <2>2 DEF Range
  <2>4. /\ IsFiniteSet(Range(tiers))
        /\ \A j \in 1..Len(tiers) : tiers[j] \in Tier
    BY <2>1, WrittenFacts, Zenon
  <2> QED
    BY <2>2, <2>3, <2>4
<1>4. row = BoundTiers(spec, upper, i)
  <2>1. spec.mode # "energy"
    BY DEF ByPower
  <2> HIDE DEF b
  <2>2. b.periods[i] = [spec.periods[i] EXCEPT !.tiers = BoundTiers(spec, upper, i)]
    BY <1>1, <2>1 DEF BoundPeriod
  <2> QED
    BY <1>3, <2>2
<1>5. Len(row) = Len(tiers)
  <2>1. row \in Tiers
    <3>1. /\ Len(b.periods) \in Nat /\ DOMAIN b.periods = 1..Len(b.periods)
      <4>1. b.periods \in Seq([end : Int, electric : Int, service : Int, tiers : Tiers])
        BY <1>1 DEF Written, Periods
      <4> HIDE DEF b
      <4> QED
        BY <4>1, SeqFacts
    <3>2. i \in DOMAIN b.periods
      BY <1>1, <3>1
    <3> HIDE DEF b
    <3>3. b.periods[i] \in [end : Int, electric : Int, service : Int, tiers : Tiers]
      BY <1>1, <3>2, WrittenFacts
    <3> QED
      BY <3>3
  <2>2. tiers \in Tiers
    BY <1>3
  <2>3. DOMAIN row = DOMAIN tiers
    BY <1>4 DEF BoundTiers
  <2> HIDE DEF row, tiers
  <2> QED
    BY <2>1, <2>2, <2>3, SameLength DEF Tiers
<1> HIDE DEF row
<1>6. ASSUME NEW j \in 1..Len(tiers)
      PROVE  /\ row[j] = BoundOf(tiers[j], TiersFrom(spec, upper, i, j), upper)
             /\ IsFiniteSet(TiersFrom(spec, upper, i, j))
             /\ TiersFrom(spec, upper, i, j) \subseteq Tier
  <2>1. row[j] = BoundOf(tiers[j], TiersFrom(spec, upper, i, j), upper)
    BY <1>3, <1>4 DEF BoundTiers
  <2> DEFINE T == {tiers[k] : k \in j..Len(tiers)}
  <2>2. T \subseteq Range(tiers)
    BY <1>3
  <2>3. TiersFrom(spec, upper, i, j) \in {Range(tiers), {}, T}
    BY DEF TiersFrom
  <2>4. Range(tiers) \subseteq Tier
    BY <1>3
  <2> HIDE DEF T, tiers, Tier
  <2>5. IsFiniteSet(T)
    BY <1>3, <2>2, FS_Subset
  <2> QED
    BY <1>3, <2>1, <2>2, <2>3, <2>4, <2>5, FS_EmptySet
<1>7. ASSUME NEW j \in 1..Len(tiers) PROVE row[j].max = tiers[j].max /\ tiers[j].max \in Int
  <2> DEFINE x == tiers[j]
             S == TiersFrom(spec, upper, i, j)
  <2>1. x \in Tier
    BY <1>3
  <2>2. "max" \in DOMAIN x /\ "max" \notin Parts /\ x.max \in Int
    BY <2>1 DEF Parts
  <2>3. row[j] = BoundOf(x, S, upper)
    BY <1>6
  <2> HIDE DEF x, S, Tier
  <2>4. BoundOf(x, S, upper)["max"] = x["max"]
    BY <2>2, BoundKeeps
  <2>5. row[j].max = x.max
    BY <2>3, <2>4
  <2> QED
    BY <2>2, <2>5 DEF x
<1>8. ASSUME NEW j \in 1..Len(tiers), NEW k \in 1..Len(tiers), NEW part \in Parts,
             upper \/ j = 1 \/ j = k \/ (spec.mode = "peak" /\ j <= k)
      PROVE  Beyond(upper, row[j][part], tiers[k][part])
  <2> DEFINE x == tiers[j]
             S == TiersFrom(spec, upper, i, j)
  <2>1. row[j] = BoundOf(x, S, upper) /\ IsFiniteSet(S) /\ S \subseteq Tier /\ x \in Tier
    BY <1>3, <1>6
  <2>2. tiers[k] \in {x} \cup S
    <3>1. CASE upper \/ j = 1
      BY <1>3, <3>1 DEF TiersFrom
    <3>2. CASE j = k
      BY <3>2
    <3>3. CASE ~(upper \/ j = 1) /\ spec.mode = "peak" /\ j <= k
      <4>1. k \in j..Len(tiers)
        BY <1>3, <3>3
      <4>2. S = {tiers[l] : l \in j..Len(tiers)}
        BY <3>3 DEF TiersFrom
      <4> HIDE DEF S, tiers
      <4> QED
        BY <4>1, <4>2
    <3> QED
      BY <1>8, <3>1, <3>2, <3>3
  <2>3. /\ x.electric \in Int /\ x.service \in Int /\ Parts \subseteq DOMAIN x
        /\ \A o \in S : o.electric \in Int /\ o.service \in Int
    <3> HIDE DEF x, S
    <3>1. \A o \in Tier : o.electric \in Int /\ o.service \in Int /\ Parts \subseteq DOMAIN o
      BY DEF Parts
    <3> HIDE DEF Tier
    <3> QED
      BY <2>1, <3>1
  <2> HIDE DEF x, S, Tier
  <2>4. \A o \in {x} \cup S : Beyond(upper, BoundOf(x, S, upper)[part], o[part])
    BY <2>1, <2>3, BoundPrice
  <2> QED
    BY <2>1, <2>2, <2>4
<1> HIDE DEF b
<1> QED
  BY <1>3, <1>5, <1>7, <1>8 DEF row, b

\* The bounds of a tariff by energy are one price, beyond that of every period.
LEMMA BoundEnergy ==
  ASSUME NEW spec, Written(spec), spec.mode = "energy", NEW upper \in BOOLEAN,
         NEW part \in Parts, NEW i \in 1..Len(spec.periods), NEW k \in 1..Len(spec.periods)
  PROVE  LET b == BoundSpec(spec, upper)
         IN  /\ b.periods[i][part] = b.periods[k][part]
             /\ Beyond(upper, b.periods[i][part], spec.periods[k][part])
<1> DEFINE b == BoundSpec(spec, upper)
           n == Len(spec.periods)
           all == Range(spec.periods)
           Period == [end : Int, electric : Int, service : Int, tiers : Tiers]
<1>1. \A l \in 1..n : b.periods[l] = BoundOf(spec.periods[l], all, upper)
  BY BoundShape, ZenonT(60) DEF BoundPeriod
<1>2. n \in Nat /\ DOMAIN spec.periods = 1..n
  <2>1. spec.periods \in Seq(Period)
    BY DEF Written, Periods
  <2> HIDE DEF Period
  <2> QED
    BY <2>1, SeqFacts
<1>3. /\ IsFiniteSet(all) /\ all = {spec.periods[l] : l \in 1..n}
  BY <1>2, WrittenFacts
<1>4. \A l \in 1..n : spec.periods[l] \in Period
  BY <1>2, WrittenFacts
<1>5. \A o \in Period : o.electric \in Int /\ o.service \in Int /\ Parts \subseteq DOMAIN o /\ o[part] \in Int
  BY DEF Parts
<1> HIDE DEF Period, b, all, n
<1>6. \A o \in all : o \in Period
  BY <1>3, <1>4
<1>7. ASSUME NEW l \in 1..n
      PROVE  /\ \E o \in all : b.periods[l][part] = o[part]
             /\ \A o \in all : Beyond(upper, b.periods[l][part], o[part])
  <2> DEFINE p == spec.periods[l]
  <2>1. p \in all /\ p \in Period
    BY <1>3, <1>4
  <2>2. /\ p.electric \in Int /\ p.service \in Int /\ Parts \subseteq DOMAIN p
        /\ \A o \in all : o.electric \in Int /\ o.service \in Int
    BY <1>5, <1>6, <2>1
  <2> HIDE DEF p
  <2> DEFINE c == BoundOf(p, all, upper)[part]
  <2>3. (\E o \in {p} \cup all : c = o[part]) /\ (\A o \in {p} \cup all : Beyond(upper, c, o[part]))
    <3>1. IsFiniteSet(all)
      BY <1>3
    <3> QED
      BY <2>2, <3>1, BoundPrice
  <2>4. {p} \cup all = all
    BY <2>1
  <2>5. b.periods[l] = BoundOf(p, all, upper)
    BY <1>1 DEF p
  <2> QED
    BY <2>3, <2>4, <2>5
<1>8. i \in 1..n /\ k \in 1..n
  BY DEF n
<1>9. spec.periods[k] \in all
  BY <1>3, <1>8
<1> DEFINE x == b.periods[i][part]
           y == b.periods[k][part]
<1>10. PICK o \in all : x = o[part]
  BY <1>7, <1>8
<1>11. PICK q \in all : y = q[part]
  BY <1>7, <1>8
<1>12. x \in Int /\ y \in Int /\ Beyond(upper, x, y) /\ Beyond(upper, y, x)
  BY <1>5, <1>6, <1>7, <1>8, <1>10, <1>11
<1>13. Beyond(upper, x, spec.periods[k][part])
  BY <1>7, <1>8, <1>9
<1> HIDE DEF x, y
<1>14. x = y
  BY <1>12 DEF Beyond
<1> QED
  BY <1>13, <1>14 DEF x, y, b

\* Tariffs whose periods end alike have the same period at every instant.
LEMMA SamePeriods ==
  ASSUME NEW a, Priceable(a), NEW b, Priceable(b), Len(a.periods) = Len(b.periods),
         \A i \in 1..Len(a.periods) : a.periods[i].end = b.periods[i].end,
         NEW t \in Int
  PROVE  PeriodAt(a, t) = PeriodAt(b, t)
<1> DEFINE i == PeriodAt(a, t)
           j == PeriodAt(b, t)
           n == Len(a.periods)
<1>1. /\ i \in 1..n /\ MinuteOfDay(t) < a.periods[i].end
      /\ \A k \in 1..n : MinuteOfDay(t) < a.periods[k].end => i <= k
  BY PeriodFacts
<1>2. /\ j \in 1..n /\ MinuteOfDay(t) < b.periods[j].end
      /\ \A k \in 1..n : MinuteOfDay(t) < b.periods[k].end => j <= k
  BY PeriodFacts
<1>3. n \in Nat
  BY EndsWithinDay
<1> HIDE DEF i, j, n
<1>4. i <= j /\ j <= i
  <2>1. a.periods[i].end = b.periods[i].end /\ a.periods[j].end = b.periods[j].end
    BY <1>1, <1>2 DEF n
  <2> QED
    BY <1>1, <1>2, <2>1
<1>5. i = j
  BY <1>1, <1>2, <1>3, <1>4
<1> QED
  BY <1>5 DEF i, j

\* What was seen of a power is what it was, or nothing, or less than its peak.
Seeing(mode) ==
  {e \in Int \X Int : IF mode = "realtime" THEN e[1] = e[2] \/ e[1] = 0 ELSE e[1] <= e[2]}

\* The same samples, of which one charge shows no more than the other.
SeenLess(spec, p, m) ==
  /\ Matched(spec, p, spec, m, Seeing(spec.mode))
  /\ Matched(spec, m, spec, p, Int \X Int)

\* An hour at the bound of a tariff lies beyond the hour it stands for.
LEMMA BoundHour ==
  ASSUME NEW spec, Priceable(spec), spec.mode \in ByPower, NEW upper \in BOOLEAN,
         NEW b, b = BoundSpec(spec, upper), Priceable(b), NEW i \in 1..Len(spec.periods),
         NEW w \in Int, NEW v \in Int,
         spec.mode = "realtime" => w = v \/ w = 0, spec.mode = "peak" => w <= v,
         NEW part \in Parts
  PROVE  Beyond(upper, TierFor(b.periods[i], w)[part], TierFor(spec.periods[i], v)[part])
<1> DEFINE row == b.periods[i].tiers
           tiers == spec.periods[i].tiers
           n == Len(tiers)
<1>1. Written(spec)
  BY DEF Priceable, Written
<1>2. /\ n \in Nat /\ Len(row) = n
      /\ \A j \in 1..n : row[j].max = tiers[j].max /\ tiers[j].max \in Int
      /\ \A j, k \in 1..n :
           upper \/ j = 1 \/ j = k \/ (spec.mode = "peak" /\ j <= k) =>
             Beyond(upper, row[j][part], tiers[k][part])
  <2> DEFINE given == BoundSpec(spec, upper).periods[i].tiers
  <2>0. /\ Len(tiers) \in Nat /\ Len(given) = Len(tiers)
        /\ \A j \in 1..Len(tiers) : given[j].max = tiers[j].max /\ tiers[j].max \in Int
        /\ \A j, k \in 1..Len(tiers) :
             upper \/ j = 1 \/ j = k \/ (spec.mode = "peak" /\ j <= k) =>
               \A q \in Parts : Beyond(upper, given[j][q], tiers[k][q])
    BY <1>1, BoundTier
  <2>00. given = row
    OBVIOUS
  <2> HIDE DEF given, row, tiers
  <2>1. /\ n \in Nat /\ Len(row) = n
        /\ \A j \in 1..n : row[j].max = tiers[j].max /\ tiers[j].max \in Int
        /\ \A j, k \in 1..n :
             upper \/ j = 1 \/ j = k \/ (spec.mode = "peak" /\ j <= k) =>
               \A q \in Parts : Beyond(upper, row[j][q], tiers[k][q])
    BY <2>0, <2>00
  <2> HIDE DEF row, tiers, n
  <2> QED
    BY <2>1
<1>3. b.mode = spec.mode /\ i \in 1..Len(b.periods)
  BY <1>1, BoundShape
<1>4. PICK j \in 1..n : Picks(row, w, j) /\ TierFor(b.periods[i], w) = row[j]
  <2>1. \E j \in 1..Len(row) : Picks(row, w, j) /\ TierFor(b.periods[i], w) = row[j]
    BY <1>3, TierIs
  <2> HIDE DEF row, n
  <2> QED
    BY <1>2, <2>1
<1>5. PICK k \in 1..n : Picks(tiers, v, k) /\ TierFor(spec.periods[i], v) = tiers[k]
  BY TierIs
<1>6. tiers[1].max \in Int /\ -1 < tiers[1].max /\ n # 0
  <2>1. i \in DOMAIN spec.periods
    BY <1>1, EndsWithinDay
  <2>2. ValidTiers(spec.mode, spec.periods[i]) /\ spec.mode # "energy"
    BY <2>1 DEF Priceable, ValidSpec, ByPower
  <2>3. Len(tiers) \in Nat \ {0} /\ DOMAIN tiers = 1..Len(tiers) /\ 1 \in 1..Len(tiers)
    BY TierFacts
  <2>4. -1 < tiers[1].max
    BY <2>2, <2>3 DEF ValidTiers
  <2> HIDE DEF tiers
  <2> QED
    BY <1>2, <2>3, <2>4
<1> HIDE DEF row, tiers, n
<1>7. upper \/ j = 1 \/ j = k \/ (spec.mode = "peak" /\ j <= k)
  <2>1. \A x \in 1..n : row[x].max \in Int /\ tiers[x].max = row[x].max
                        /\ tiers[x].max \in Int /\ row[x].max = tiers[x].max
    BY <1>2
  <2>2. Len(row) = n /\ Len(tiers) = n /\ n \in Nat
    BY <1>2 DEF n
  <2>3. w <= v => j <= k
    BY <1>4, <1>5, <2>1, <2>2, TierOrder
  <2>4. v <= w => k <= j
    BY <1>4, <1>5, <2>1, <2>2, TierOrder
  <2>5. w = 0 => j = 1
    <3> SUFFICES ASSUME w = 0, j # 1 PROVE FALSE
      OBVIOUS
    <3>1. 1 \in 1..(j - 1) /\ 1 \in 1..n
      BY <1>4, <1>6, <2>2
    <3>2. row[1].max < w
      BY <1>4, <3>1 DEF Picks
    <3> QED
      BY <1>6, <2>1, <3>1, <3>2
  <2>6. spec.mode = "realtime" \/ spec.mode = "peak"
    BY DEF ByPower
  <2> QED
    BY <2>2, <2>3, <2>4, <2>5, <2>6
<1> QED
  BY <1>2, <1>4, <1>5, <1>7

\* Sums and cents keep to the side of a bound.
LEMMA BeyondSum ==
  ASSUME NEW S, IsFiniteSet(S), NEW upper \in BOOLEAN, NEW f, NEW g,
         \A x \in S : f[x] \in Nat /\ g[x] \in Nat /\ Beyond(upper, f[x], g[x]),
         NEW unit \in Nat \ {0}
  PROVE  Beyond(upper, Rounded(SumFunctionOnSet(f, S), unit),
                       Rounded(SumFunctionOnSet(g, S), unit))
<1> DEFINE a == SumFunctionOnSet(f, S)
           c == SumFunctionOnSet(g, S)
<1>1. a \in Nat /\ c \in Nat
  BY SumNat
<1>2. Beyond(upper, a, c)
  BY SumMonotone DEF Beyond
<1> HIDE DEF a, c
<1>3. Beyond(upper, Rounded(a, unit), Rounded(c, unit))
  BY <1>1, <1>2, RoundedOrder DEF Beyond
<1> QED
  BY <1>3 DEF a, c

\* The minutes of a charge, priced at the bound, lie beyond what they cost.
LEMMA BoundPower ==
  ASSUME NEW spec, Priceable(spec), spec.mode \in ByPower, NEW upper \in BOOLEAN,
         NEW b, b = BoundSpec(spec, upper), Priceable(b),
         NEW p, Followed(p), NEW m, Followed(m), EndOf(p) = EndOf(m),
         SeenLess(spec, p, m), NEW part \in Parts
  PROVE  Beyond(upper, PowerCost(Slices(b, p), b, part), PowerCost(Slices(spec, m), spec, part))
<1> DEFINE S == Slices(b, p)
           T == Slices(spec, m)
           u(x) == PriceOf(Piece(b, S, PieceOf(b, x)), part)
           v(y) == PriceOf(Piece(spec, T, PieceOf(spec, y)), part)
<1>1. Written(spec)
  BY DEF Priceable, Written
<1>2. /\ b.mode = spec.mode /\ Len(b.periods) = Len(spec.periods)
      /\ \A i \in 1..Len(spec.periods) : b.periods[i].end = spec.periods[i].end
  BY <1>1, BoundShape
<1>3. ASSUME NEW t \in Int
      PROVE  /\ PeriodAt(spec, t) \in 1..Len(spec.periods)
             /\ RateAt(spec, t) = spec.periods[PeriodAt(spec, t)]
             /\ RateAt(b, t) = b.periods[PeriodAt(spec, t)]
             /\ Boundary(b, t) = Boundary(spec, t)
  <2>1. PeriodAt(b, t) = PeriodAt(spec, t)
    BY <1>2, SamePeriods
  <2>2. /\ PeriodAt(spec, t) \in 1..Len(spec.periods)
        /\ RateAt(spec, t) = spec.periods[PeriodAt(spec, t)]
    BY PeriodFacts
  <2>3. RateAt(b, t) = b.periods[PeriodAt(spec, t)]
    BY <2>1 DEF RateAt
  <2>4. RateAt(b, t).end = RateAt(spec, t).end
    BY <1>2, <2>2, <2>3
  <2> QED
    BY <2>2, <2>3, <2>4 DEF Boundary
<1>4. SameEnds(b, spec) /\ SameEnds(spec, b)
  BY <1>3 DEF SameEnds
<1>5. /\ Matched(b, p, spec, m, Seeing(spec.mode))
      /\ Matched(spec, m, b, p, Int \X Int)
  <2>1. ASSUME NEW r \in p.segments
        PROVE  \E s \in m.segments : /\ s.from = r.from /\ r.to <= s.to
                                     /\ <<Watts(b, r), Watts(spec, s)>> \in Seeing(spec.mode)
    <3>1. Watts(b, r) = Watts(spec, r)
      BY <1>2 DEF Watts
    <3> QED
      BY <3>1 DEF SeenLess, Matched
  <2>2. ASSUME NEW r \in m.segments
        PROVE  \E s \in p.segments : /\ s.from = r.from /\ r.to <= s.to
                                     /\ <<Watts(spec, r), Watts(b, s)>> \in Int \X Int
    <3>1. PICK s \in p.segments : /\ s.from = r.from /\ r.to <= s.to
                                  /\ <<Watts(spec, r), Watts(spec, s)>> \in Int \X Int
      BY DEF SeenLess, Matched
    <3>2. Watts(b, s) = Watts(spec, s)
      BY <1>2 DEF Watts
    <3> QED
      BY <3>1, <3>2
  <2> QED
    BY <2>1, <2>2 DEF Matched
<1>6. EndOf(p) <= EndOf(m) /\ EndOf(m) <= EndOf(p)
  <2>1. EndOf(m) \in Int
    BY EndFacts
  <2> QED
    BY <2>1
<1>7. Reached(b, p, spec, m, Seeing(spec.mode))
  BY <1>4, <1>5, <1>6, SlicesMatch
<1>8. Reached(spec, m, b, p, Int \X Int)
  BY <1>4, <1>5, <1>6, SlicesMatch
<1>9. ASSUME NEW x \in S, NEW y \in T, y.from = x.from
      PROVE  Beyond(upper, u(x), v(y))
  <2> DEFINE P == Piece(b, S, PieceOf(b, x))
             Q == Piece(spec, T, PieceOf(spec, y))
             i == PeriodAt(spec, x.from)
  <2>1. x \in P /\ y \in Q
    BY DEF Piece
  <2>2. x.from \in Int
    BY SliceFacts DEF Followed
  <2>3. i \in 1..Len(spec.periods) /\ RateAt(b, x.from) = b.periods[i]
        /\ RateAt(spec, y.from) = spec.periods[i]
    BY <1>3, <1>9, <2>2
  <2>4. u(x) = TierFor(RateAt(b, x.from), Top(P))[part]
    BY <1>2, <2>1, PiecePrice
  <2>5. v(y) = TierFor(RateAt(spec, y.from), Top(Q))[part]
    BY <2>1, PiecePrice
  <2>6. /\ Top(P) \in Int /\ Top(Q) \in Int
        /\ spec.mode = "realtime" => <<Top(P), Top(Q)>> \in Seeing(spec.mode)
        /\ spec.mode = "peak" => Top(P) <= Top(Q)
    <3>1. spec.mode = "peak" => \A e \in Seeing(spec.mode) : e[1] <= e[2]
      BY DEF Seeing
    <3> QED
      BY <1>2, <1>4, <1>7, <1>9, <3>1, TopsMatch
  <2> HIDE DEF P, Q, u, v, i
  <2>7. spec.mode = "realtime" => Top(P) = Top(Q) \/ Top(P) = 0
    <3>1. ASSUME NEW c, NEW d, <<c, d>> \in Seeing("realtime") PROVE c = d \/ c = 0
      BY <3>1 DEF Seeing
    <3> QED
      BY <2>6, <3>1
  <2>8. Beyond(upper, TierFor(b.periods[i], Top(P))[part], TierFor(spec.periods[i], Top(Q))[part])
    BY <2>3, <2>6, <2>7, BoundHour
  <2> QED
    BY <2>3, <2>4, <2>5, <2>8
<1>10. CASE upper
  <2>1. \A y \in T : \A x \in S : x.from = y.from => v(y) <= u(x)
    BY <1>9, <1>10 DEF Beyond
  <2>2. PowerCost(T, spec, part) <= PowerCost(S, b, part)
    BY <1>2, <1>4, <1>8, <2>1, PowerOrder
  <2> QED
    BY <1>10, <2>2 DEF Beyond
<1>11. CASE ~upper
  <2>1. \A x \in S : \A y \in T : y.from = x.from => u(x) <= v(y)
    BY <1>9, <1>11 DEF Beyond
  <2>2. PowerCost(S, b, part) <= PowerCost(T, spec, part)
    BY <1>2, <1>4, <1>7, <2>1, PowerOrder
  <2> QED
    BY <1>11, <2>2 DEF Beyond
<1> QED
  BY <1>10, <1>11

\* Energy at the bound of a tariff costs no less, or no more, than it did.
LEMMA BoundDrawn ==
  ASSUME NEW spec, Priceable(spec), spec.mode = "energy", NEW upper \in BOOLEAN,
         NEW b, b = BoundSpec(spec, upper), Priceable(b),
         NEW p \in Meters, NEW m \in Meters, Drawn(p) = Drawn(m), NEW part \in Parts
  PROVE  Beyond(upper, EnergyCost(p, b, part), EnergyCost(m, spec, part))
<1> DEFINE n == Len(spec.periods)
           k == b.periods[1][part]
           wh(q) == [s \in q.segments |-> s.wh]
           f == [s \in p.segments |-> s.wh * RateAt(b, s.from)[part]]
           g == [s \in m.segments |-> s.wh * RateAt(spec, s.from)[part]]
           h == [s \in m.segments |-> k * s.wh]
           T == m.segments
<1>1. Written(spec)
  BY DEF Priceable, Written
<1>2. b.mode = spec.mode /\ Len(b.periods) = n /\ n \in Nat \ {0} /\ 1 \in 1..n
  BY <1>1, BoundShape, EndsWithinDay
<1>3. k \in Nat
  BY <1>2, EnergyPrice
<1>4. ASSUME NEW t \in Int
      PROVE  /\ RateAt(b, t)[part] = k
             /\ RateAt(spec, t)[part] \in Nat /\ Beyond(upper, k, RateAt(spec, t)[part])
  <2> DEFINE i == PeriodAt(b, t)
             j == PeriodAt(spec, t)
  <2>1. i \in 1..n /\ RateAt(b, t) = b.periods[i]
    BY <1>2, PeriodFacts
  <2>2. j \in 1..n /\ RateAt(spec, t) = spec.periods[j]
    BY PeriodFacts
  <2> HIDE DEF i, j
  <2>3. b.periods[i][part] = k
    BY <1>1, <1>2, <2>1, BoundEnergy
  <2>4. Beyond(upper, k, spec.periods[j][part])
    BY <1>1, <1>2, <2>2, BoundEnergy
  <2>5. spec.periods[j][part] \in Nat
    BY <2>2, EnergyPrice
  <2> QED
    BY <2>1, <2>2, <2>3, <2>4, <2>5
<1>5. /\ IsFiniteSet(p.segments) /\ \A s \in p.segments : s.from \in Int /\ s.wh \in Nat
      /\ IsFiniteSet(T) /\ \A s \in T : s.from \in Int /\ s.wh \in Nat
  BY MeterFacts
<1>6. SumFunctionOnSet(f, p.segments) = k * SumFunctionOnSet(wh(p), p.segments)
  <2>1. \A s \in p.segments : wh(p)[s] \in Int /\ f[s] = k * wh(p)[s]
    <3> TAKE s \in p.segments
    <3>1. s.wh \in Nat /\ RateAt(b, s.from)[part] = k
      BY <1>4, <1>5
    <3> DEFINE r == RateAt(b, s.from)[part]
    <3>2. f[s] = s.wh * r /\ r = k
      BY <3>1
    <3> HIDE DEF r, k, f
    <3> QED
      BY <1>3, <3>1, <3>2
  <2> HIDE DEF f, wh, k
  <2> QED
    BY <1>3, <1>5, <2>1, SumScaled
<1>7. SumFunctionOnSet(h, T) = k * SumFunctionOnSet(wh(m), T)
  <2>1. \A s \in T : wh(m)[s] \in Int /\ h[s] = k * wh(m)[s]
    BY <1>5
  <2> HIDE DEF h, wh, k
  <2> QED
    BY <1>3, <1>5, <2>1, SumScaled
<1>8. SumFunctionOnSet(f, p.segments) = SumFunctionOnSet(h, T)
  BY <1>6, <1>7 DEF Drawn, SumOver
<1>9. ASSUME NEW s \in T
      PROVE  h[s] \in Nat /\ g[s] \in Nat /\ Beyond(upper, h[s], g[s])
  <2> DEFINE r == RateAt(spec, s.from)[part]
  <2>1. s.wh \in Nat /\ r \in Nat /\ Beyond(upper, k, r)
    BY <1>4, <1>5
  <2>2. h[s] = k * s.wh /\ g[s] = s.wh * r
    OBVIOUS
  <2> HIDE DEF r, k, h, g
  <2>3. h[s] = s.wh * k /\ h[s] \in Nat /\ g[s] \in Nat
    BY <1>3, <2>1, <2>2
  <2>4. Beyond(upper, s.wh * k, s.wh * r)
    BY <1>3, <2>1, TimesOrder DEF Beyond
  <2> QED
    BY <2>2, <2>3, <2>4
<1>10. KWh \in Nat \ {0}
  BY Sizes
<1>11. /\ EnergyCost(p, b, part) = Rounded(SumFunctionOnSet(f, p.segments), KWh)
       /\ EnergyCost(m, spec, part) = Rounded(SumFunctionOnSet(g, T), KWh)
  BY DEF EnergyCost, SumOver
<1> HIDE DEF f, g, h, T
<1>12. Beyond(upper, Rounded(SumFunctionOnSet(h, T), KWh), Rounded(SumFunctionOnSet(g, T), KWh))
  BY <1>5, <1>9, <1>10, BeyondSum
<1> QED
  BY <1>8, <1>11, <1>12

\* A fee at the bound of a tariff lies beyond the fee it stands for.
LEMMA BoundFee ==
  ASSUME NEW spec, Priceable(spec), NEW upper \in BOOLEAN,
         NEW b, b = BoundSpec(spec, upper), NEW p \in Meters, NEW m \in Meters,
         PriceActual(b, p).verdict = "priced", PriceActual(spec, m).verdict = "priced",
         p.from = m.from, p.to = m.to, p.wh = m.wh,
         spec.mode = "energy" => Drawn(Usage(p)) = Drawn(Usage(m)),
         spec.mode \in ByPower /\ ~IsFree(spec, m) => SeenLess(spec, Usage(p), Usage(m))
  PROVE  LET low == PriceActual(b, p)
             fee == PriceActual(spec, m)
         IN  /\ low \in Fees /\ fee \in Fees /\ low.verdict = "priced" /\ fee.verdict = "priced"
             /\ Beyond(upper, low.electric, fee.electric)
             /\ Beyond(upper, low.service, fee.service)
<1> DEFINE low == PriceActual(b, p)
           fee == PriceActual(spec, m)
           u == Usage(p)
           v == Usage(m)
<1>1. Written(spec)
  BY DEF Priceable, Written
<1>2. /\ Written(b) /\ b.mode = spec.mode /\ b.free = spec.free
      /\ b.minElectric = spec.minElectric
  BY <1>1, BoundShape
<1>3. Priceable(b)
  BY <1>2, PricedIsMeasured DEF Written, Priceable
<1>4. low \in Fees /\ fee \in Fees
  BY <1>3, PriceIsFee
<1>5. WholeMinutes(p) = WholeMinutes(m) /\ EndOf(p) = EndOf(m)
  BY DEF WholeMinutes, EndOf
<1>6. IsFree(b, p) <=> IsFree(spec, m)
  BY <1>2, <1>5 DEF IsFree
<1>7. CASE IsFree(spec, m)
  <2>1. low = Priced(0, 0) /\ fee = Priced(0, 0)
    BY <1>6, <1>7, FreeCostsNothing
  <2>2. /\ Beyond(upper, low.electric, fee.electric)
        /\ Beyond(upper, low.service, fee.service)
    BY <2>1 DEF Priced, Beyond
  <2> QED
    BY <1>4, <2>2
<1>8. CASE ~IsFree(spec, m)
  <2> DEFINE e == CostOf(b, u, "electric")
             f == CostOf(spec, v, "electric")
             s == CostOf(b, u, "service")
             r == CostOf(spec, v, "service")
             l == Lowest(b, u)
             o == Lowest(spec, v)
  <2>1. low = Priced(Max({e, l}), s) /\ e \in Nat /\ s \in Nat /\ l \in Nat
        /\ u \in Meters /\ Followed(u)
    BY <1>3, <1>6, <1>8, PricedIsCost
  <2>2. fee = Priced(Max({f, o}), r) /\ f \in Nat /\ r \in Nat /\ o \in Nat
        /\ v \in Meters /\ Followed(v)
    BY <1>8, PricedIsCost
  <2>3. /\ WholeMinutes(u) = WholeMinutes(v) /\ EndOf(u) = EndOf(v) /\ u.from = v.from
    BY <1>5, UsageIsMeter
  <2>4. l = o
    BY <1>2, <2>3 DEF Lowest
  <2>5. ASSUME NEW part \in Parts
        PROVE  Beyond(upper, CostOf(b, u, part), CostOf(spec, v, part))
    <3>1. CASE spec.mode = "energy"
      <4>1. Drawn(u) = Drawn(v)
        BY <3>1
      <4> HIDE DEF u, v
      <4>2. Beyond(upper, EnergyCost(u, b, part), EnergyCost(v, spec, part))
        BY <1>3, <2>1, <2>2, <3>1, <4>1, BoundDrawn
      <4> QED
        BY <1>2, <3>1, <4>2 DEF CostOf
    <3>2. CASE spec.mode # "energy"
      <4>1. spec.mode \in ByPower
        BY <3>2 DEF Priceable, ServerModes, ByPower
      <4>2. SeenLess(spec, u, v)
        BY <1>8, <4>1
      <4> HIDE DEF u, v
      <4>3. EndOf(u) = EndOf(v)
        BY <2>3
      <4>4. Beyond(upper, PowerCost(Slices(b, u), b, part), PowerCost(Slices(spec, v), spec, part))
        BY <1>3, <2>1, <2>2, <4>1, <4>2, <4>3, BoundPower
      <4> QED
        BY <1>2, <3>2, <4>4 DEF CostOf
    <3> QED
      BY <3>1, <3>2
  <2>6. Beyond(upper, e, f) /\ Beyond(upper, s, r)
    BY <2>5 DEF Parts
  <2> HIDE DEF e, f, s, r, l, o, u, v, low, fee
  <2>7. e \in Int /\ l \in Int /\ f \in Int /\ o \in Int
    BY <2>1, <2>2
  <2>8. /\ Max({e, l}) \in {e, l} /\ e <= Max({e, l}) /\ l <= Max({e, l})
        /\ Max({f, o}) \in {f, o} /\ f <= Max({f, o}) /\ o <= Max({f, o})
    BY <2>7, MaxOfTwo
  <2>9. Beyond(upper, Max({e, l}), Max({f, o}))
    BY <2>4, <2>6, <2>7, <2>8 DEF Beyond
  <2>10. low.electric = Max({e, l}) /\ low.service = s
         /\ fee.electric = Max({f, o}) /\ fee.service = r
    BY <2>1, <2>2 DEF Priced
  <2> QED
    BY <1>4, <2>6, <2>9, <2>10 DEF low, fee
<1> QED
  BY <1>7, <1>8

---------------------------------------------------------------------------
(* What may have happened in the gaps of the evidence.                      *)

Filled(s, f) == IF Unread(s) THEN [s EXCEPT !.power = f[s], !.peak = f[s]] ELSE s

\* The readings of a stretch are its ticks.
LEMMA ReadingsAreSamples ==
  ASSUME Sound, NEW t \in start..now
  PROVE  /\ Readings(MeterAt(t), 0) \subseteq Samples
         /\ IsFiniteSet(Readings(MeterAt(t), 0))
         /\ \A x \in start..(t - 1) : \E r \in Readings(MeterAt(t), 0) : At(r, x)
         /\ \A r \in Readings(MeterAt(t), 0) :
              /\ r.from \in start..(t - 1) /\ r.to = r.from + 1
              /\ r.wh = drawn[r.from - start + 1]
<1> DEFINE ticks == start..(t - 1)
           reading == [x \in ticks |-> [from |-> x, to |-> x + 1,
                         wh |-> drawn[x - start + 1], power |-> 0, peak |-> 0]]
           R == Readings(MeterAt(t), 0)
<1>1. /\ start \in Int /\ now = start + Len(drawn) /\ Len(drawn) \in Nat
      /\ \A i \in 1..Len(drawn) : drawn[i] \in {0, 1}
      /\ t \in Int /\ t <= now
  <2>1. start \in Nat /\ now \in Nat /\ t \in Nat
    BY PointFacts
  <2> QED
    BY <2>1 DEF Sound, now
<1>2. R = {reading[x] : x \in ticks}
  BY DEF Readings, MeterAt
<1>3. \A x \in ticks : reading[x] \in Samples
  <2> TAKE x \in ticks
  <2>1. x \in Int /\ x - start + 1 \in 1..Len(drawn)
    BY <1>1
  <2>2. drawn[x - start + 1] \in Nat
    BY <1>1, <2>1
  <2> QED
    BY <2>1, <2>2 DEF Samples
<1>4. \A x \in ticks : /\ reading[x].from = x /\ reading[x].to = x + 1
                       /\ reading[x].wh = drawn[x - start + 1] /\ x \in Int
  BY <1>1
<1>5. IsFiniteSet(ticks)
  BY <1>1, FS_Interval
<1> HIDE DEF reading
<1>6. R \subseteq Samples
  BY <1>2, <1>3
<1>7. \A r \in R : /\ r.from \in ticks /\ r.to = r.from + 1
                   /\ r.wh = drawn[r.from - start + 1]
  BY <1>2, <1>4
<1>8. ASSUME NEW x \in ticks PROVE \E r \in R : At(r, x)
  <2>1. reading[x] \in R
    BY <1>2
  <2>2. At(reading[x], x)
    BY <1>4 DEF At
  <2> QED
    BY <2>1, <2>2
<1>9. IsFiniteSet(R)
  <2> HIDE DEF R, ticks
  <2> QED
    BY <1>2, <1>5, ImageFinite
<1> QED
  BY <1>6, <1>7, <1>8, <1>9

\* What happened in truth is a meter of the same stretch and the same reading.
LEMMA CompletionIs ==
  ASSUME Sound, NEW t \in start..now, NEW m \in Completions(MeterAt(t))
  PROVE  /\ m \in Meters /\ m.from = start /\ m.to = t /\ m.wh = WhAt(t)
         /\ Rule.mode = "energy" => m.segments = Readings(MeterAt(t), 0)
         /\ Rule.mode # "energy" => \E f \in [MeasuredSegments(t) -> Powers] :
              /\ m = [MeterAt(t) EXCEPT !.segments = {Filled(s, f) : s \in MeasuredSegments(t)}]
              /\ m.segments = {Filled(s, f) : s \in MeasuredSegments(t)}
<1> DEFINE M == MeterAt(t)
           N == MeasuredSegments(t)
<1>1. /\ M \in Meters /\ M.from = start /\ M.to = t /\ M.wh = WhAt(t) /\ M.segments = N
  BY MeterAtIsMeter DEF MeterAt
<1>2. ASSUME NEW S \in SUBSET Samples, IsFiniteSet(S), m = [M EXCEPT !.segments = S]
      PROVE  /\ m \in Meters /\ m.from = start /\ m.to = t /\ m.wh = WhAt(t)
             /\ m.segments = S
  <2> HIDE DEF M
  <2>1. m \in Meters /\ m.segments = S /\ m.from = M.from /\ m.to = M.to /\ m.wh = M.wh
    BY <1>1, <1>2 DEF Meters
  <2> QED
    BY <1>1, <2>1
<1>3. CASE Rule.mode = "energy"
  <2> DEFINE R == Readings(M, 0)
  <2>1. m = [M EXCEPT !.segments = R]
    BY <1>3 DEF Completions
  <2>2. R \in SUBSET Samples /\ IsFiniteSet(R)
    BY ReadingsAreSamples
  <2> HIDE DEF M, R
  <2>3. /\ m \in Meters /\ m.from = start /\ m.to = t /\ m.wh = WhAt(t) /\ m.segments = R
    BY <1>2, <2>1, <2>2
  <2> QED
    BY <1>3, <2>3 DEF R, M
<1>4. CASE Rule.mode # "energy"
  <2>1. PICK f \in [N -> Powers] : m = [M EXCEPT !.segments = {Filled(s, f) : s \in N}]
    <3>1. m \in {[M EXCEPT !.segments = {Filled(s, f) : s \in M.segments}] :
                   f \in [M.segments -> Powers]}
      BY <1>4, Zenon DEF Completions, Filled
    <3> HIDE DEF N, M
    <3>2. PICK f \in [M.segments -> Powers] :
            m = [M EXCEPT !.segments = {Filled(s, f) : s \in M.segments}]
      BY <3>1
    <3>3. M.segments = N
      BY <1>1
    <3>4. {Filled(s, f) : s \in M.segments} = {Filled(s, f) : s \in N}
      BY <3>3
    <3> QED
      BY <3>2, <3>3, <3>4
  <2> DEFINE g == [s \in N |-> Filled(s, f)]
             S == {g[s] : s \in N}
  <2>2. S = {Filled(s, f) : s \in N}
    OBVIOUS
  <2>3. IsFiniteSet(N) /\ N \subseteq Samples
    BY <1>1, MeterFacts
  <2>4. ASSUME NEW s \in N PROVE g[s] \in Samples
    <3>1. f[s] \in Powers
      OBVIOUS
    <3>2. f[s] \in Nat
      BY <3>1, MeteredConstants
    <3>3. f[s] \in Int /\ s \in Samples
      BY <2>3, <3>2
    <3> QED
      BY <3>3 DEF Filled, Samples
  <2> HIDE DEF N, M, g
  <2>5. S \in SUBSET Samples
    BY <2>4
  <2>6. IsFiniteSet(S)
    BY <2>3, ImageFinite
  <2>7. m = [M EXCEPT !.segments = S]
    BY <2>1, <2>2
  <2> HIDE DEF S
  <2>8. /\ m \in Meters /\ m.from = start /\ m.to = t /\ m.wh = WhAt(t) /\ m.segments = S
    BY <1>2, <2>5, <2>6, <2>7
  <2> QED
    BY <1>4, <2>1, <2>2, <2>8 DEF M, N
<1> QED
  BY <1>3, <1>4

\* A sample without its gap, and the same sample as it may have been.
GapFilled(s) ==
  IF s.power = Unknown /\ (Rule.mode = "realtime" \/ s.peak = 0)
  THEN [s EXCEPT !.power = 0] ELSE s

\* A gap is seen as no power, which is no more than it may have had.
LEMMA FilledIsMore ==
  ASSUME Sound, NEW t \in start..now, NEW s \in MeasuredSegments(t),
         NEW f \in [MeasuredSegments(t) -> Powers], Measured(t)
  PROVE  LET w == GapFilled(s)
             r == Filled(s, f)
         IN  /\ w.from = s.from /\ w.to = s.to /\ r.from = s.from /\ r.to = s.to
             /\ Rule.mode = "realtime" => w.power = r.power \/ w.power = 0
             /\ Rule.mode = "peak" => w.peak <= r.peak
<1>1. s = Segment(s.from, s.to)
  BY SegmentsFollow
<1>2. Unread(s) => s.peak = 0
  <2>1. Unread(Segment(s.from, s.to)) => Segment(s.from, s.to).peak = 0
    BY SegmentPower
  <2> QED
    BY <1>1, <2>1
<1>3. s \in Samples
  BY MeterAtIsMeter, MeterFacts DEF MeterAt
<1>4. f[s] \in Nat
  <2>1. f[s] \in Powers
    OBVIOUS
  <2> QED
    BY <2>1, MeteredConstants
<1>5. CASE Unread(s)
  BY <1>2, <1>3, <1>4, <1>5 DEF GapFilled, Filled, Unread, Samples
<1>6. CASE ~Unread(s)
  BY <1>3, <1>6 DEF GapFilled, Filled, Unread, Samples
<1> QED
  BY <1>5, <1>6

\* What is seen of the gaps of the evidence is no more than what they may hide.
LEMMA CompletionSeen ==
  ASSUME Sound, NEW t \in start..now, Measured(t), Rule.mode \in ByPower,
         NEW m \in Completions(MeterAt(t)), m \in Meters,
         NEW p, p = WithoutGaps(Rule, MeterAt(t)), p \in Meters
  PROVE  SeenLess(Rule, p, m)
<1> DEFINE N == MeasuredSegments(t)
<1>1. PICK f \in [N -> Powers] : m.segments = {Filled(s, f) : s \in N}
  BY CompletionIs DEF ByPower
<1>2. p.segments = {GapFilled(s) : s \in N}
  BY DEF WithoutGaps, GapFilled, MeterAt
<1> HIDE DEF N
<1>3. ASSUME NEW s \in N
      PROVE  LET w == GapFilled(s)
                 r == Filled(s, f)
             IN  /\ w \in p.segments /\ r \in m.segments
                 /\ w.from = r.from /\ w.to <= r.to /\ r.to <= w.to
                 /\ <<Watts(Rule, w), Watts(Rule, r)>> \in Seeing(Rule.mode)
                 /\ <<Watts(Rule, r), Watts(Rule, w)>> \in Int \X Int
  <2> DEFINE w == GapFilled(s)
             r == Filled(s, f)
  <2>1. w \in p.segments /\ r \in m.segments
    BY <1>1, <1>2
  <2>2. /\ w.from = s.from /\ w.to = s.to /\ r.from = s.from /\ r.to = s.to
        /\ Rule.mode = "realtime" => w.power = r.power \/ w.power = 0
        /\ Rule.mode = "peak" => w.peak <= r.peak
    BY FilledIsMore DEF N
  <2>3. /\ w.to \in Int /\ w.power \in Int /\ w.peak \in Int
        /\ r.to \in Int /\ r.power \in Int /\ r.peak \in Int
    BY <2>1, MeterFacts
  <2> HIDE DEF w, r
  <2>4. w.to <= r.to /\ r.to <= w.to
    BY <2>2, <2>3
  <2>5. /\ <<Watts(Rule, w), Watts(Rule, r)>> \in Seeing(Rule.mode)
        /\ <<Watts(Rule, r), Watts(Rule, w)>> \in Int \X Int
    BY <2>2, <2>3 DEF Watts, Seeing, ByPower
  <2> QED
    BY <2>1, <2>2, <2>4, <2>5 DEF w, r
<1>4. Matched(Rule, p, Rule, m, Seeing(Rule.mode))
  BY <1>2, <1>3 DEF Matched
<1>5. Matched(Rule, m, Rule, p, Int \X Int)
  BY <1>1, <1>3 DEF Matched
<1> QED
  BY <1>4, <1>5 DEF SeenLess

\* The fee a stop was judged by lies beyond the fee of whatever happened.
LEMMA CompletionBound ==
  ASSUME Sound, NEW t \in start..now, MeterAt(t).segments # {}, Mode = "amount",
         NEW m \in Completions(MeterAt(t)), PriceActual(Rule, m).verdict = "priced",
         NEW upper \in BOOLEAN, BudgetBound(Rule, MeterAt(t), upper).verdict = "priced"
  PROVE  LET low == BudgetBound(Rule, MeterAt(t), upper)
             fee == PriceActual(Rule, m)
         IN  /\ low \in Fees /\ fee \in Fees /\ low.verdict = "priced" /\ fee.verdict = "priced"
             /\ Beyond(upper, low.electric, fee.electric)
             /\ Beyond(upper, low.service, fee.service)
<1> DEFINE M == MeterAt(t)
           N == MeasuredSegments(t)
           p == WithoutGaps(Rule, M)
           b == BoundSpec(Rule, upper)
<1>1. /\ M \in Meters /\ p \in Meters /\ N # {} /\ M.segments = N
      /\ p.from = start /\ p.to = t /\ p.wh = WhAt(t)
      /\ p.segments = {GapFilled(s) : s \in N}
  <2>1. M \in Meters
    BY MeterAtIsMeter
  <2>2. p \in Meters
    BY <2>1, WithoutGapsIsMeter
  <2>3. N # {} /\ M.segments = N
    BY DEF MeterAt
  <2>4. /\ p.from = start /\ p.to = t /\ p.wh = WhAt(t)
        /\ p.segments = {GapFilled(s) : s \in N}
    BY DEF MeterAt, WithoutGaps, GapFilled
  <2> QED
    BY <2>1, <2>2, <2>3, <2>4
<1>2. Measured(t)
  BY <1>1, SegmentsAre
<1>3. m \in Meters /\ m.from = start /\ m.to = t /\ m.wh = WhAt(t)
  BY CompletionIs
<1>4. Written(Rule)
  BY PurchaseFacts
<1>5. Priceable(Rule)
  BY <1>3, <1>4, PricedIsMeasured DEF Written, Priceable
<1>6. PriceActual(b, p).verdict = "priced"
  BY DEF BudgetBound
<1>7. /\ Written(b) /\ b.mode = Rule.mode
  BY <1>4, BoundShape
<1>8. m.segments # {}
  <2>1. CASE Rule.mode = "energy"
    <3>1. start < t /\ start \in Int /\ t \in Int
      BY <1>2, SegmentsFollow, PointFacts
    <3>2. start \in start..(t - 1)
      BY <3>1
    <3>3. Readings(M, 0) # {}
      BY <3>2, ReadingsAreSamples
    <3>4. m.segments = Readings(M, 0)
      BY <2>1, CompletionIs
    <3> QED
      BY <3>3, <3>4
  <2>2. CASE Rule.mode # "energy"
    <3>1. \E f \in [N -> Powers] : m.segments = {Filled(s, f) : s \in N}
      BY <2>2, CompletionIs
    <3> QED
      BY <1>1, <3>1
  <2> QED
    BY <2>1, <2>2
<1>9. p.segments # {}
  BY <1>1
<1>10. Usage(p).segments = p.segments /\ Usage(m).segments = m.segments
       /\ Usage(p).wh = p.wh /\ Usage(m).wh = m.wh
  BY <1>1, <1>3, <1>8, <1>9, UsageIsMeter DEF Segments
<1>11. WellMeasured(b, Usage(p)) /\ WellMeasured(Rule, Usage(m))
  BY <1>1, <1>3, <1>6, PricedIsMeasured
<1>12. Rule.mode = "energy" => Drawn(Usage(p)) = Drawn(Usage(m))
  <2>1. Drawn(Usage(p)) = p.wh /\ Drawn(Usage(m)) = m.wh
    BY <1>10, <1>11 DEF WellMeasured, Drawn
  <2> QED
    BY <1>1, <1>3, <2>1
<1>13. ASSUME Rule.mode \in ByPower PROVE SeenLess(Rule, Usage(p), Usage(m))
  <2>1. Usage(p) = p /\ Usage(m) = m
    BY <1>1, <1>3, <1>8, <1>9 DEF Usage, Segments, Meters
  <2> HIDE DEF p
  <2>2. SeenLess(Rule, p, m)
    BY <1>1, <1>2, <1>3, <1>13, CompletionSeen DEF p
  <2> QED
    BY <2>1, <2>2
<1>14. p.from = m.from /\ p.to = m.to /\ p.wh = m.wh
  BY <1>1, <1>3
<1> DEFINE low == PriceActual(b, p)
           fee == PriceActual(Rule, m)
<1>15. /\ low \in Fees /\ fee \in Fees /\ low.verdict = "priced" /\ fee.verdict = "priced"
       /\ Beyond(upper, low.electric, fee.electric)
       /\ Beyond(upper, low.service, fee.service)
  <2> HIDE DEF p
  <2> QED
    BY <1>1, <1>3, <1>5, <1>6, <1>12, <1>13, <1>14, BoundFee
<1> QED
  BY <1>15 DEF BudgetBound

\* A meter whose powers can be priced has no gap that could be filled.
LEMMA PricedHasNoGap ==
  ASSUME Sound, NEW t \in start..now, Priceable(Rule), Rule.mode \in ByPower,
         PriceActual(Rule, MeterAt(t)).verdict = "priced", ~IsFree(Rule, MeterAt(t)),
         NEW m \in Completions(MeterAt(t))
  PROVE  m = MeterAt(t)
<1> DEFINE M == MeterAt(t)
           N == MeasuredSegments(t)
           u == Usage(M)
<1>1. M \in Meters /\ M.segments = N /\ "segments" \in DOMAIN M /\ M = [M EXCEPT !.segments = N]
  <2>1. M \in Meters
    BY MeterAtIsMeter
  <2>2. M.segments = N /\ "segments" \in DOMAIN M
    BY DEF MeterAt
  <2>3. M = [M EXCEPT !.segments = N]
    <3> HIDE DEF M
    <3> QED
      BY <2>1, <2>2 DEF Meters
  <2> QED
    BY <2>1, <2>2, <2>3
<1>2. PICK f \in [N -> Powers] : m = [M EXCEPT !.segments = {Filled(s, f) : s \in N}]
  BY CompletionIs DEF ByPower
<1>3. ASSUME NEW s \in N PROVE ~Unread(s)
  <2>1. u.segments = N
    <3>1. u.segments = Segments(M)
      BY <1>1, UsageIsMeter
    <3> QED
      BY <1>1, <1>3, <3>1 DEF Segments
  <2>2. /\ Measured(t) /\ s = Segment(s.from, s.to)
    BY <1>3, SegmentsAre, SegmentsFollow
  <2>3. Unread(Segment(s.from, s.to)) => Segment(s.from, s.to).peak = 0
    BY SegmentPower
  <2>4. Unread(s) => s.peak = 0
    BY <2>2, <2>3
  <2>5. IF Rule.mode = "energy" THEN Uniform(Rule, s.from, s.to - 1)
        ELSE ~(Watts(Rule, s) = 0 /\ s.power = Unknown)
    <3> HIDE DEF M
    <3>1. \A r \in u.segments :
            IF Rule.mode = "energy" THEN Uniform(Rule, r.from, r.to - 1)
            ELSE ~(Watts(Rule, r) = 0 /\ r.power = Unknown)
      BY <1>1, PricedIsCost DEF M
    <3> QED
      BY <2>1, <3>1
  <2>6. Rule.mode = "realtime" => s.power # Unknown
    <3>1. WellMeasured(Rule, u)
      BY <1>1, PricedIsMeasured
    <3> HIDE DEF u
    <3> QED
      BY <2>1, <3>1 DEF WellMeasured
  <2> QED
    BY <2>4, <2>5, <2>6 DEF ByPower, Watts, Unread
<1>4. \A s \in N : Filled(s, f) = s
  BY <1>3 DEF Filled
<1> HIDE DEF M, N
<1>5. {Filled(s, f) : s \in N} = N
  BY <1>4
<1> QED
  BY <1>1, <1>2, <1>5 DEF M

\* What the energy of a stretch costs, tick by tick.
TickPrice(part, i) == drawn[i] * RateAt(Rule, start + i - 1)[part]
TickCost(t, part) ==
  Rounded(SumFunctionOnSet([i \in 1..(t - start) |-> TickPrice(part, i)], 1..(t - start)), KWh)

\* A sample that lies in one rate costs the sum of its ticks.
LEMMA SampleByTick ==
  ASSUME Sound, NEW t \in start..now, Priceable(Rule), Rule.mode = "energy",
         NEW a \in start..t, NEW b \in start..t, a <= b, Uniform(Rule, a, b - 1),
         NEW part \in Parts
  PROVE  (WhAt(b) - WhAt(a)) * RateAt(Rule, a)[part]
           = SumFunctionOnSet([i \in 1..(t - start) |-> TickPrice(part, i)],
                              (a - start + 1)..(b - start))
<1> DEFINE I == (a - start + 1)..(b - start)
           g == [i \in 1..(t - start) |-> TickPrice(part, i)]
           k == RateAt(Rule, a)[part]
<1>1. /\ start \in Nat /\ now \in Nat /\ t \in Nat /\ t <= now /\ a \in Nat /\ b \in Nat
      /\ start <= a /\ b <= t /\ a \in start..now /\ b \in start..now
      /\ now = start + Len(drawn) /\ Len(drawn) \in Nat
      /\ \A i \in 1..Len(drawn) : drawn[i] \in {0, 1}
  <2>1. start \in Nat /\ now \in Nat /\ t \in Nat /\ t <= now
    BY PointFacts
  <2>2. now = start + Len(drawn) /\ Len(drawn) \in Nat
        /\ \A i \in 1..Len(drawn) : drawn[i] \in {0, 1}
    BY DEF Sound, now
  <2> HIDE DEF now
  <2> QED
    BY <2>1, <2>2
<1>2. IsFiniteSet(I) /\ I \subseteq 1..(t - start) /\ I \subseteq 1..Len(drawn)
  <2>1. a - start + 1 \in Int /\ b - start \in Int
    BY <1>1
  <2>2. IsFiniteSet(I)
    BY <2>1, FS_Interval
  <2> QED
    BY <1>1, <2>2
<1>3. k \in Nat
  <2> DEFINE j == PeriodAt(Rule, a)
  <2>1. a \in Int
    BY <1>1
  <2>2. j \in 1..Len(Rule.periods) /\ RateAt(Rule, a) = Rule.periods[j]
    BY <2>1, PeriodFacts
  <2> HIDE DEF j
  <2> QED
    BY <2>2, EnergyPrice
<1>4. ASSUME NEW i \in I PROVE drawn[i] \in Int /\ g[i] = k * drawn[i]
  <2>1. start + i - 1 \in a..(b - 1) /\ i \in 1..(t - start) /\ drawn[i] \in {0, 1}
    BY <1>1, <1>2
  <2>2. SameRate(RateAt(Rule, a), RateAt(Rule, start + i - 1))
    BY <2>1 DEF Uniform
  <2>3. RateAt(Rule, start + i - 1)[part] = k
    BY <2>2 DEF SameRate, Parts
  <2>4. g[i] = drawn[i] * RateAt(Rule, start + i - 1)[part]
    BY <2>1 DEF TickPrice
  <2> HIDE DEF k, g
  <2> QED
    BY <1>3, <2>1, <2>3, <2>4
<1>5. SumFunctionOnSet(g, I) = k * SumFunctionOnSet(drawn, I)
  <2>1. \A i \in I : drawn[i] \in Int /\ g[i] = k * drawn[i]
    BY <1>4
  <2> HIDE DEF g, k, I
  <2>2. IsFiniteSet(I) /\ k \in Int
    BY <1>2, <1>3
  <2> QED
    BY <2>1, <2>2, SumScaled
<1>6. WhAt(b) - WhAt(a) = SumFunctionOnSet(drawn, I)
  BY <1>1, WhBetween
<1>7. SumFunctionOnSet(drawn, I) \in Int
  <2> HIDE DEF I, g
  <2> QED
    BY <1>2, <1>4, SumInt
<1> HIDE DEF I, g, k
<1>8. (WhAt(b) - WhAt(a)) * k = SumFunctionOnSet(g, I)
  BY <1>3, <1>5, <1>6, <1>7
<1> QED
  BY <1>8 DEF I, g, k

\* However the energy of a charge is cut into samples, it costs what its ticks do.
LEMMA EnergyByTick ==
  ASSUME Sound, NEW t \in start..now, Priceable(Rule), Rule.mode = "energy",
         NEW u, Followed(u), u.from = start, u.to = t,
         \A s \in u.segments : /\ s.from <= s.to /\ s.wh = WhAt(s.to) - WhAt(s.from)
                               /\ Uniform(Rule, s.from, s.to - 1),
         NEW part \in Parts
  PROVE  EnergyCost(u, Rule, part) = TickCost(t, part)
<1> DEFINE S == u.segments
           I == 1..(t - start)
           g == [i \in I |-> TickPrice(part, i)]
           f == [s \in S |-> s.wh * RateAt(Rule, s.from)[part]]
           piece == [s \in S |-> (s.from - start + 1)..(s.to - start)]
<1>1. /\ start \in Nat /\ now \in Nat /\ t \in Nat /\ start <= t /\ t <= now
  BY PointFacts
<1>2. /\ IsFiniteSet(S)
      /\ \A s \in S : /\ s.from \in Int /\ s.to \in Int /\ s.from <= s.to
                      /\ start <= s.from /\ s.to <= t
      /\ \A x \in start..(t - 1) : \E s \in S : At(s, x)
      /\ \A r, s \in S : r.from < s.to /\ s.from < r.to => r = s
  <2>1. u \in Meters /\ Chained(u)
    BY DEF Followed
  <2>2. IsFiniteSet(S) /\ \A s \in S : s.from \in Int /\ s.to \in Int
    BY <2>1, MeterFacts
  <2> QED
    BY <2>1, <2>2 DEF Chained
<1>3. \A s \in S : IsFiniteSet(piece[s])
  <2> TAKE s \in S
  <2> DEFINE a == s.from - start + 1
             b == s.to - start
  <2>1. a \in Int /\ b \in Int /\ piece[s] = a..b
    BY <1>1, <1>2
  <2> HIDE DEF a, b, piece
  <2>2. IsFiniteSet(a..b)
    BY <2>1, FS_Interval
  <2> QED
    BY <2>1, <2>2
<1>4. \A r, s \in S : r # s => piece[r] \cap piece[s] = {}
  <2> SUFFICES ASSUME NEW r \in S, NEW s \in S, NEW i \in piece[r] \cap piece[s]
               PROVE  r = s
    OBVIOUS
  <2>1. /\ i \in (r.from - start + 1)..(r.to - start)
        /\ i \in (s.from - start + 1)..(s.to - start)
    OBVIOUS
  <2>2. /\ r.from \in Int /\ r.to \in Int /\ s.from \in Int /\ s.to \in Int
    BY <1>2
  <2> DEFINE a == r.from
             b == r.to
             c == s.from
             d == s.to
  <2>3. r.from < s.to /\ s.from < r.to
    <3>1. /\ i \in (a - start + 1)..(b - start) /\ i \in (c - start + 1)..(d - start)
          /\ a \in Int /\ b \in Int /\ c \in Int /\ d \in Int /\ start \in Int
      BY <1>1, <2>1, <2>2
    <3> HIDE DEF a, b, c, d, piece, S
    <3>2. a < d /\ c < b
      BY <3>1
    <3> QED
      BY <3>2 DEF a, b, c, d
  <2> QED
    BY <1>2, <2>3
<1>5. UNION {piece[s] : s \in S} = I
  <2>1. ASSUME NEW s \in S, NEW i \in piece[s] PROVE i \in I
    BY <1>1, <1>2
  <2>2. ASSUME NEW i \in I PROVE \E s \in S : i \in piece[s]
    <3>1. start + i - 1 \in start..(t - 1) /\ i \in Int
      BY <1>1
    <3>2. PICK s \in S : At(s, start + i - 1)
      BY <1>2, <3>1
    <3>3. s.from \in Int /\ s.to \in Int /\ s.from <= start + i - 1 /\ start + i - 1 < s.to
      BY <1>2, <3>2 DEF At
    <3>4. i \in piece[s]
      BY <1>1, <3>1, <3>3
    <3> QED
      BY <3>4
  <2> HIDE DEF piece, I
  <2> QED
    BY <2>1, <2>2
<1>6. \A i \in I : g[i] \in Int
  <2> TAKE i \in I
  <2>1. i \in 1..Len(drawn) /\ start + i - 1 \in Int
    BY <1>1 DEF now
  <2>2. drawn[i] \in {0, 1}
    BY <2>1 DEF Sound
  <2>3. RateAt(Rule, start + i - 1)[part] \in Nat
    BY <2>1, PeriodFacts, EnergyPrice
  <2>4. drawn[i] * RateAt(Rule, start + i - 1)[part] \in Int
    BY <2>2, <2>3
  <2> QED
    BY <2>4 DEF TickPrice
<1>7. \A s \in S : f[s] = SumFunctionOnSet(g, piece[s])
  <2> TAKE s \in S
  <2> DEFINE a == s.from
             b == s.to
  <2>1. a \in start..t /\ b \in start..t /\ a <= b /\ Uniform(Rule, a, b - 1)
    BY <1>1, <1>2
  <2>2. f[s] = (WhAt(b) - WhAt(a)) * RateAt(Rule, a)[part]
    OBVIOUS
  <2>3. piece[s] = (a - start + 1)..(b - start)
    OBVIOUS
  <2> HIDE DEF a, b, f, piece
  <2>4. (WhAt(b) - WhAt(a)) * RateAt(Rule, a)[part]
          = SumFunctionOnSet(g, (a - start + 1)..(b - start))
    BY <2>1, SampleByTick
  <2> QED
    BY <2>2, <2>3, <2>4
<1>8. EnergyCost(u, Rule, part) = Rounded(SumFunctionOnSet(f, S), KWh)
  BY DEF EnergyCost, SumOver
<1>9. TickCost(t, part) = Rounded(SumFunctionOnSet(g, I), KWh)
  BY DEF TickCost
<1>10. \A s \in S : \A i \in piece[s] : g[i] \in Int
  BY <1>5, <1>6
<1> HIDE DEF f, g, S, I, piece
<1>11. SumFunctionOnSet(f, S) = SumFunctionOnSet(g, UNION {piece[s] : s \in S})
  <2>1. IsFiniteSet(S)
    BY <1>2
  <2>2. \A x \in S : \A i \in piece[x] : g[i] \in Int
    BY <1>10
  <2> QED
    BY <2>1, <1>3, <1>4, <1>7, <2>2, SumParts, SMTT(40)
<1> QED
  BY <1>5, <1>8, <1>9, <1>11

\* The meter starts at nothing and grows by what each tick draws.
LEMMA WhTicks ==
  ASSUME Sound
  PROVE  /\ WhAt(start) = 0
         /\ \A x \in start..(now - 1) : WhAt(x + 1) - WhAt(x) = drawn[x - start + 1]
<1>1. /\ start \in Nat /\ now \in Nat /\ Len(drawn) \in Nat /\ now = start + Len(drawn)
      /\ \A i \in 1..Len(drawn) : drawn[i] \in {0, 1}
  <2>1. start \in Nat
    BY MeteredConstants DEF Sound
  <2> QED
    BY <2>1 DEF Sound, now
<1>2. WhAt(start) = 0
  <2>1. start \in start..now /\ start <= start
    BY <1>1
  <2>2. WhAt(start) = SumFunctionOnSet(drawn, 1..(start - start))
    BY <2>1, WhBetween
  <2>3. 1..(start - start) = {}
    BY <1>1
  <2> QED
    BY <2>2, <2>3, SumEmpty
<1>3. ASSUME NEW x \in start..(now - 1)
      PROVE  WhAt(x + 1) - WhAt(x) = drawn[x - start + 1]
  <2> DEFINE i == x - start + 1
             y == x + 1
  <2>1. /\ x \in start..now /\ y \in start..now /\ x <= y /\ i \in 1..Len(drawn)
        /\ y - start = i
    BY <1>1
  <2> HIDE DEF y
  <2>2. WhAt(y) - WhAt(x) = SumFunctionOnSet(drawn, i..(y - start))
    BY <2>1, WhBetween
  <2> HIDE DEF i
  <2>3. i..(y - start) = {i} /\ drawn[i] \in Int
    BY <1>1, <2>1
  <2>4. SumFunctionOnSet(drawn, {i}) = drawn[i]
    <3>1. IsFiniteSet({}) /\ i \notin {} /\ {} \cup {i} = {i}
      BY FS_EmptySet
    <3>2. SumFunctionOnSet(drawn, {} \cup {i}) = drawn[i] + SumFunctionOnSet(drawn, {})
      BY <2>3, <3>1, SumAdd
    <3>3. SumFunctionOnSet(drawn, {}) = 0
      BY SumEmpty
    <3> DEFINE a == SumFunctionOnSet(drawn, {i})
               d == drawn[i]
    <3>4. a = d + 0 /\ d \in Int
      BY <2>3, <3>1, <3>2, <3>3
    <3> HIDE DEF a, d
    <3>5. a = d
      BY <3>4
    <3> QED
      BY <3>5 DEF a, d
  <2>5. i..(y - start) = {i}
    BY <2>3
  <2>6. WhAt(y) - WhAt(x) = drawn[i]
    <3> DEFINE e == WhAt(y) - WhAt(x)
    <3>1. e = SumFunctionOnSet(drawn, {i})
      BY <2>2, <2>5
    <3> HIDE DEF e
    <3>2. e = drawn[i]
      BY <2>4, <3>1
    <3> QED
      BY <3>2 DEF e
  <2> QED
    BY <2>6 DEF i, y
<1> QED
  BY <1>2, <1>3

\* The samples of a meter, and those of the readings, are the meter's differences.
LEMMA UsageDiffers ==
  ASSUME Sound, NEW t \in start..now
  PROVE  /\ \A s \in Usage(MeterAt(t)).segments : s.wh = WhAt(s.to) - WhAt(s.from)
         /\ \A s \in Readings(MeterAt(t), 0) : s.wh = WhAt(s.to) - WhAt(s.from)
<1> DEFINE M == MeterAt(t)
<1>1. /\ M \in Meters /\ M.from = start /\ M.to = t /\ M.wh = WhAt(t)
      /\ M.segments = MeasuredSegments(t)
  BY MeterAtIsMeter DEF MeterAt
<1>2. start \in Nat /\ now \in Nat /\ t \in Nat /\ start <= t /\ t <= now
  BY PointFacts
<1>3. WhAt(start) = 0 /\ WhAt(t) \in Nat
  BY <1>2, WhTicks, WhFacts
<1>4. ASSUME NEW s \in Usage(M).segments PROVE s.wh = WhAt(s.to) - WhAt(s.from)
  <2> HIDE DEF M
  <2>1. s \in Segments(M)
    BY <1>1, <1>4, UsageIsMeter
  <2>2. CASE M.segments # {}
    <3>1. s \in MeasuredSegments(t)
      BY <1>1, <2>1, <2>2 DEF Segments
    <3>2. Measured(t) /\ s = Segment(s.from, s.to)
      BY <3>1, SegmentsAre, SegmentsFollow
    <3>3. Segment(s.from, s.to).wh = WhAt(s.to) - WhAt(s.from)
      BY SegmentIs
    <3> QED
      BY <3>2, <3>3
  <2>3. CASE M.segments = {}
    <3>1. s = [from |-> M.from, to |-> M.to, wh |-> M.wh, power |-> Unknown, peak |-> 0]
      BY <2>1, <2>3 DEF Segments
    <3>2. s.from = start /\ s.to = t /\ s.wh = WhAt(t)
      BY <1>1, <3>1
    <3> QED
      BY <1>3, <3>2
  <2> QED
    BY <2>2, <2>3
<1>5. ASSUME NEW s \in Readings(M, 0) PROVE s.wh = WhAt(s.to) - WhAt(s.from)
  <2>1. /\ s.from \in start..(t - 1) /\ s.to = s.from + 1
        /\ s.wh = drawn[s.from - start + 1]
    BY ReadingsAreSamples
  <2>2. s.from \in start..(now - 1)
    BY <1>2, <2>1
  <2> QED
    BY <2>1, <2>2, WhTicks
<1> QED
  BY <1>4, <1>5

\* A meter that can be priced costs what every filling of its gaps does.
LEMMA CompletionSame ==
  ASSUME Sound, NEW t \in start..now, Mode = "amount",
         PriceActual(Rule, MeterAt(t)).verdict = "priced",
         Total(PriceActual(Rule, MeterAt(t))) # 0,
         NEW m \in Completions(MeterAt(t)), PriceActual(Rule, m).verdict = "priced"
  PROVE  PriceActual(Rule, m) = PriceActual(Rule, MeterAt(t))
<1> DEFINE M == MeterAt(t)
           u == Usage(M)
           v == Usage(m)
<1>1. /\ M \in Meters /\ M.from = start /\ M.to = t /\ M.wh = WhAt(t)
  BY MeterAtIsMeter DEF MeterAt
<1>2. m \in Meters /\ m.from = start /\ m.to = t /\ m.wh = WhAt(t)
  BY CompletionIs
<1>3. Priceable(Rule)
  BY <1>2, PurchaseFacts, PricedIsMeasured DEF Written, Priceable
<1>4. ~IsFree(Rule, M)
  BY <1>1, FreeCostsNothing
<1>5. ~IsFree(Rule, m)
  BY <1>1, <1>2, <1>4 DEF IsFree, WholeMinutes
<1>6. CASE Rule.mode \in ByPower
  BY <1>3, <1>4, <1>6, PricedHasNoGap
<1>7. CASE Rule.mode = "energy"
  <2>1. /\ PriceActual(Rule, M) =
             Priced(Max({CostOf(Rule, u, "electric"), Lowest(Rule, u)}),
                    CostOf(Rule, u, "service"))
        /\ \A s \in u.segments : Uniform(Rule, s.from, s.to - 1)
        /\ u \in Meters /\ Followed(u)
    <3> HIDE DEF M
    <3> QED
      BY <1>1, <1>3, <1>4, <1>7, PricedIsCost DEF M
  <2>2. /\ PriceActual(Rule, m) =
             Priced(Max({CostOf(Rule, v, "electric"), Lowest(Rule, v)}),
                    CostOf(Rule, v, "service"))
        /\ \A s \in v.segments : Uniform(Rule, s.from, s.to - 1)
        /\ v \in Meters /\ Followed(v)
    BY <1>2, <1>3, <1>5, <1>7, PricedIsCost
  <2>3. u.from = start /\ u.to = t /\ v.from = start /\ v.to = t
        /\ WholeMinutes(u) = WholeMinutes(v)
    <3>1. WholeMinutes(M) = WholeMinutes(m)
      BY <1>1, <1>2 DEF WholeMinutes
    <3> HIDE DEF M
    <3> QED
      BY <1>1, <1>2, <3>1, UsageIsMeter
  <2>4. \A s \in u.segments : s.from <= s.to
    <3>1. WellMeasured(Rule, u)
      BY <1>1, PricedIsMeasured
    <3> HIDE DEF u
    <3> QED
      BY <3>1 DEF WellMeasured
  <2>5. \A s \in v.segments : s.from <= s.to
    <3>1. WellMeasured(Rule, v)
      BY <1>2, PricedIsMeasured
    <3> HIDE DEF v
    <3> QED
      BY <3>1 DEF WellMeasured
  <2>6. v.segments = Readings(M, 0)
    <3>1. start < t
      <4>1. start \in Nat /\ t \in Nat /\ start <= t
        BY PointFacts
      <4>2. WhAt(t) # 0
        BY <1>1, <1>4 DEF IsFree
      <4>3. t # start
        BY <4>2, WhTicks
      <4> QED
        BY <4>1, <4>3
    <3>2. start \in start..(t - 1)
      BY <3>1, PointFacts
    <3>3. Readings(M, 0) # {}
      BY <3>2, ReadingsAreSamples
    <3>4. m.segments = Readings(M, 0)
      BY <1>7, CompletionIs
    <3> QED
      BY <1>2, <3>3, <3>4, UsageIsMeter DEF Segments
  <2>7. /\ \A s \in u.segments : s.wh = WhAt(s.to) - WhAt(s.from)
        /\ \A s \in v.segments : s.wh = WhAt(s.to) - WhAt(s.from)
    BY <2>6, UsageDiffers
  <2> HIDE DEF u, v, M
  <2>8. \A part \in Parts : CostOf(Rule, u, part) = CostOf(Rule, v, part)
    <3> TAKE part \in Parts
    <3>1. EnergyCost(u, Rule, part) = TickCost(t, part)
      BY <1>3, <1>7, <2>1, <2>3, <2>4, <2>7, EnergyByTick
    <3>2. EnergyCost(v, Rule, part) = TickCost(t, part)
      BY <1>3, <1>7, <2>2, <2>3, <2>5, <2>7, EnergyByTick
    <3> QED
      BY <1>7, <3>1, <3>2 DEF CostOf
  <2>9. Lowest(Rule, u) = Lowest(Rule, v)
    BY <2>3 DEF Lowest
  <2> QED
    BY <2>1, <2>2, <2>8, <2>9 DEF Parts, M
<1> QED
  BY <1>3, <1>6, <1>7 DEF Priceable, ServerModes, ByPower

\* A stop for the budget was decided on evidence that leaves no doubt.
LEMMA BudgetStopsCertain ==
  ASSUME Sound, Recorded
  PROVE  BudgetStopCertain
<1> SUFFICES ASSUME cutoff.reason = "budget_exhausted",
                    NEW m \in Completions(MeterAt(cutoff.at)),
                    PriceActual(Rule, m).verdict = "priced"
             PROVE  /\ Total(PriceActual(Rule, m)) >= Price(purchase)
                    /\ cutoff.exact =>
                         SplitFee(PriceActual(Rule, m), Price(purchase)) = cutoff.fee
  BY DEF BudgetStopCertain
<1> DEFINE price == Price(purchase)
           fee == PriceActual(Rule, m)
<1>1. PICK t \in start..now : Decided(t)
  BY DEF Recorded, Decided
<1>2. Mode = "amount"
  BY DEF Recorded
<1> DEFINE M == MeterAt(t)
           strict == PriceActual(Rule, M)
           low == BudgetBound(Rule, M, FALSE)
           high == BudgetBound(Rule, M, TRUE)
           unsure == strict.verdict = "review" /\ ~M.doubtful /\ M.segments # {}
           plan == BudgetStop(Rule, price, M)
<1>3. m \in Completions(M) /\ cutoff.at = t /\ plan.stop
      /\ cutoff.exact = plan.exact /\ cutoff.fee = plan.fee
  BY <1>1 DEF Decided
<1>4. price \in Nat \ {0}
  BY PackageFacts DEF Sound
<1>5. plan = IF unsure THEN StopAt(price, low, high = low) ELSE StopAt(price, strict, TRUE)
  BY DEF BudgetStop
<1> HIDE DEF plan, low, high, unsure, price
<1>6. CASE ~unsure
  <2>1. /\ strict.verdict = "priced" /\ Total(strict) >= price
        /\ plan.fee = SplitFee(strict, price)
    <3> HIDE DEF strict
    <3> QED
      BY <1>3, <1>5, <1>6 DEF StopAt
  <2>2. Total(strict) # 0
    BY <1>4, <2>1
  <2>3. fee = strict
    BY <1>2, <1>3, <2>1, <2>2, CompletionSame
  <2> QED
    BY <1>3, <2>1, <2>3 DEF price
<1>7. CASE unsure
  <2>1. /\ low.verdict = "priced" /\ Total(low) >= price
        /\ plan.fee = SplitFee(low, price) /\ plan.exact = (high = low)
    BY <1>3, <1>5, <1>7 DEF StopAt
  <2>2. M.segments # {}
    BY <1>7 DEF unsure
  <2>3. /\ low \in Fees /\ fee \in Fees /\ low.verdict = "priced" /\ fee.verdict = "priced"
        /\ low.electric <= fee.electric /\ low.service <= fee.service
    <3>1. BudgetBound(Rule, M, FALSE).verdict = "priced" /\ FALSE \in BOOLEAN
      BY <2>1 DEF low
    <3> HIDE DEF M, fee
    <3>2. /\ low \in Fees /\ fee \in Fees /\ low.verdict = "priced" /\ fee.verdict = "priced"
          /\ Beyond(FALSE, low.electric, fee.electric)
          /\ Beyond(FALSE, low.service, fee.service)
      BY <1>2, <1>3, <2>2, <3>1, CompletionBound DEF low, M, fee
    <3> QED
      BY <3>2 DEF Beyond
  <2>4. ASSUME cutoff.exact PROVE fee = low
    <3>1. high = low
      BY <1>3, <2>1, <2>4
    <3>2. BudgetBound(Rule, M, TRUE).verdict = "priced" /\ TRUE \in BOOLEAN
      BY <2>1, <3>1 DEF high
    <3> HIDE DEF M, fee
    <3>3. /\ Beyond(TRUE, high.electric, fee.electric)
          /\ Beyond(TRUE, high.service, fee.service)
      BY <1>2, <1>3, <2>2, <3>2, CompletionBound DEF high, M, fee
    <3>4. fee.electric = low.electric /\ fee.service = low.service
          /\ fee.verdict = low.verdict
      BY <2>3, <3>1, <3>3 DEF Beyond, Fees
    <3> QED
      BY <2>3, <3>4 DEF Fees
  <2> HIDE DEF fee, M, strict
  <2>5. Total(fee) >= price
    BY <1>4, <2>1, <2>3 DEF Total, Fees
  <2>6. cutoff.exact => SplitFee(fee, price) = cutoff.fee
    BY <1>3, <2>1, <2>4
  <2> QED
    BY <2>5, <2>6 DEF fee, price
<1> QED
  BY <1>6, <1>7

(* A charge is stopped for its budget only when the amount paid is used up    *)
(* whatever happened in the gaps of the evidence, and a fee fixed at the stop *)
(* is the split every filling of the gaps gives, for every tariff, meter and  *)
(* loss of heartbeats (budget_stop.go:5-6, 34-37).                            *)
THEOREM BudgetStopsHold == Spec => []BudgetStopCertain
<1>1. Sound /\ Recorded => BudgetStopCertain
  BY BudgetStopsCertain
<1> QED
  BY <1>1, SoundInvariance, RecordedInvariance, PTL
=============================================================================
