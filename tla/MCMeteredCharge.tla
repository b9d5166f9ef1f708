--------------------------- MODULE MCMeteredCharge ---------------------------
(***************************************************************************)
(* A day and an hour of three minutes, two ticks to the minute, two        *)
(* watt-hours to the kilowatt-hour and quotients of two digits.  Every     *)
(* charging mode is on sale.                                               *)
(***************************************************************************)
EXTENDS MeteredCharge

Tier(max, e, s) == [max |-> max, electric |-> e, service |-> s]
Period(end, e, s, tiers) ==
  [end |-> end, electric |-> e, service |-> s, tiers |-> tiers]
Package(id, mode, price, minutes, kwh) ==
  [id |-> id, mode |-> mode, price |-> price, minutes |-> minutes, kwh |-> kwh]

Day   == Period(2, 0, 0, <<Tier(0, 1, 0), Tier(2, 5, 1)>>)
Night == Period(3, 0, 0, <<Tier(0, 1, 0), Tier(2, 8, 1)>>)
Bargain == Period(3, 0, 0, <<Tier(0, 2, 2), Tier(1, 4, 1), Tier(2, 1, 0)>>)

Plan(mode, periods, packages, free, lowest) ==
  [amount |-> IF mode = "none" THEN NoMode ELSE [mode |-> mode, periods |-> periods],
   energy |-> NoMode, packages |-> packages, free |-> free, minElectric |-> lowest,
   limit |-> 2, card |-> NoPackage, cardLimit |-> 2]

AllSchemes ==
  LET amount(price) == {Package(1, "amount", price, 0, 0)}
  IN  {Plan("realtime", <<Day, Night>>, amount(2), 0, 0),
       [Plan("peak", <<Day, Night>>, amount(2), 1, 0) EXCEPT !.limit = 3],
       Plan("peak", <<Bargain>>, amount(2), 0, 1),
       Plan("energy", <<Period(1, 2, 1, <<>>), Period(3, 5, 0, <<>>)>>, amount(3), 0, 2),
       [Plan("none", <<>>, {Package(1, "duration", 3, 1, 0), Package(2, "energy", 3, 0, 1)},
             0, 0) EXCEPT !.energy = [electric |-> 2, service |-> 1], !.card = 1]}
StartSet == {1}
PowerSet == {0, 2}

\* More free time than ValidateSpec lets a rule have, less than the limit.
LongFree == {Plan("realtime", <<Day, Night>>, {Package(1, "amount", 4, 0, 0)}, 2, 0)}
=============================================================================
