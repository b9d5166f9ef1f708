---------------------------- MODULE FinanceProofs ----------------------------
(***************************************************************************)
(* Settlements and withdrawals, the daily reconciliation, coupons, and     *)
(* refunds out of a wallet, for any number of parties, references, rules   *)
(* and requests. Each part states its inductive invariant and shows that   *)
(* every step keeps it; what the runs check follows. The parts share       *)
(* nothing, and are proved one by one.                                     *)
(***************************************************************************)
EXTENDS Payout, Reconcile, CouponGrant, WalletRisk, SumTheorems

(***************************************************************************)
(* Payouts. A fee is split fairly to the cent, a settlement stands as it   *)
(* was made, and what is approved for a party never exceeds what it has    *)
(* earned. The first part is about one split: RatioBase times the cents    *)
(* left over is the sum of the remainders, each of them less than          *)
(* RatioBase, so fewer cents are left than there are rows with a           *)
(* remainder; the order of Ahead is total, so exactly as many rows get a   *)
(* cent as cents are left. The second part follows the templates, stations *)
(* and settlements, the third the withdrawals.                             *)
(***************************************************************************)

(* One split.                                                               *)

(* What the whole parts leave of an amount, row by row.                      *)
Left(amount, rows) == [row \in rows |-> Remainder(amount, row)]
Uneven(amount, rows) == {row \in rows : Remainder(amount, row) > 0}

(* The whole part of a share and what remains.                              *)
LEMMA WholeAndRemainder ==
  ASSUME NEW amount \in Nat, NEW ratio \in Nat
  PROVE  /\ (amount * ratio) \div RatioBase \in Nat
         /\ (amount * ratio) % RatioBase \in 0..(RatioBase - 1)
         /\ RatioBase * ((amount * ratio) \div RatioBase) + ((amount * ratio) % RatioBase)
              = amount * ratio
<1> DEFINE x == amount * ratio
<1>1. x \in Nat /\ RatioBase \in Nat \ {0}
  BY PayoutAssumption
<1> HIDE DEF x
<1>2. /\ x \div RatioBase \in Nat /\ x % RatioBase \in 0..(RatioBase - 1)
      /\ RatioBase * (x \div RatioBase) + (x % RatioBase) = x
  BY <1>1
<1> QED
  BY <1>2 DEF x

(* The cents left over, in parts of RatioBase, are the sum of the           *)
(* remainders.                                                              *)
LEMMA RestOfAmount ==
  ASSUME NEW amount \in Nat, NEW rows, Proper(rows)
  PROVE  /\ Rest(amount, rows) \in Nat
         /\ RatioBase * Rest(amount, rows) = SumFunctionOnSet(Left(amount, rows), rows)
<1> DEFINE parts == [row \in rows |-> amount * row.ratio]
           ratios == [row \in rows |-> row.ratio]
           scaled == [row \in rows |-> RatioBase * Whole(amount, rows)[row]]
           sum(f) == SumFunctionOnSet(f, rows)
<1>1. IsFiniteSet(rows) /\ RatioBase \in Nat \ {0} /\ sum(ratios) = RatioBase
  BY PayoutAssumption DEF Proper
<1>2. ASSUME NEW row \in rows
      PROVE  /\ ratios[row] \in Nat /\ Whole(amount, rows)[row] \in Nat
             /\ Left(amount, rows)[row] \in Nat
             /\ parts[row] = amount * ratios[row]
             /\ parts[row] = scaled[row] + Left(amount, rows)[row]
             /\ scaled[row] = RatioBase * Whole(amount, rows)[row]
             /\ parts[row] \in Int /\ scaled[row] \in Int
  <2>1. row.ratio \in Nat
    BY DEF Proper, RowsOf
  <2>2. /\ ratios[row] = row.ratio /\ parts[row] = amount * row.ratio
        /\ Whole(amount, rows)[row] = (amount * row.ratio) \div RatioBase
        /\ Left(amount, rows)[row] = (amount * row.ratio) % RatioBase
        /\ scaled[row] = RatioBase * Whole(amount, rows)[row]
    BY DEF Whole, Left, Remainder
  <2> HIDE DEF parts, ratios, scaled
  <2>3. /\ Whole(amount, rows)[row] \in Nat /\ Left(amount, rows)[row] \in Nat
        /\ parts[row] = scaled[row] + Left(amount, rows)[row]
    BY <2>1, <2>2, WholeAndRemainder
  <2> QED
    BY <1>1, <2>1, <2>2, <2>3
<1> HIDE DEF parts, ratios, scaled
<1>3. sum(parts) = amount * RatioBase
  <2>1. \A row \in rows : ratios[row] \in Int /\ parts[row] = amount * ratios[row]
    BY <1>2
  <2>2. sum(parts) = amount * sum(ratios)
    BY <1>1, <2>1, SumScaled
  <2> QED
    BY <1>1, <2>2
<1>4. sum(scaled) = RatioBase * sum(Whole(amount, rows))
  BY <1>1, <1>2, SumScaled
<1>5. sum(parts) = sum(scaled) + sum(Left(amount, rows))
  BY <1>1, <1>2, SumPlus
<1>6. sum(Left(amount, rows)) \in Nat /\ sum(Whole(amount, rows)) \in Nat
  BY <1>1, <1>2, SumNat
<1> DEFINE w == sum(Whole(amount, rows))
           l == sum(Left(amount, rows))
<1>7. w \in Nat /\ l \in Nat /\ amount * RatioBase = RatioBase * w + l
  BY <1>3, <1>4, <1>5, <1>6
<1>8. Rest(amount, rows) = amount - w
  BY DEF Rest
<1> HIDE DEF w, l, sum
<1>9. RatioBase * (amount - w) = l
  BY <1>1, <1>7
<1>10. amount - w >= 0
  BY <1>1, <1>7, <1>9
<1>11. l = SumFunctionOnSet(Left(amount, rows), rows)
  BY DEF l, sum
<1> QED
  BY <1>7, <1>8, <1>9, <1>10, <1>11

(* The cents handed out one by one are no more than the rows with a         *)
(* remainder.                                                               *)
LEMMA RestIsSmall ==
  ASSUME NEW amount \in Nat, NEW rows, Proper(rows)
  PROVE  /\ Cardinality(Uneven(amount, rows)) \in Nat
         /\ Rest(amount, rows) <= Cardinality(Uneven(amount, rows))
         /\ IsFiniteSet(Uneven(amount, rows))
<1> DEFINE uneven == Uneven(amount, rows)
           left == Left(amount, rows)
           k == RatioBase - 1
           even == rows \ uneven
           n == Cardinality(uneven)
           r == Rest(amount, rows)
<1>1. /\ IsFiniteSet(rows) /\ RatioBase \in Nat \ {0} /\ k \in Nat
      /\ IsFiniteSet(uneven) /\ IsFiniteSet(even)
      /\ uneven \cap even = {} /\ uneven \cup even = rows /\ n \in Nat
  <2>1. uneven \in SUBSET rows /\ even \in SUBSET rows
    BY DEF Uneven
  <2> QED
    BY <2>1, FS_Subset, FS_CardinalityType, PayoutAssumption DEF Proper
<1>2. ASSUME NEW row \in rows
      PROVE  left[row] \in 0..k /\ (row \in even => left[row] = 0)
  <2>1. row.ratio \in Nat
    BY DEF Proper, RowsOf
  <2> QED
    BY <2>1, WholeAndRemainder DEF Left, Remainder, Uneven
<1>3. SumFunctionOnSet(left, rows)
        = SumFunctionOnSet(left, uneven) + SumFunctionOnSet(left, even)
  <2>1. \A row \in uneven \cup even : left[row] \in Int
    BY <1>1, <1>2
  <2>2. SumFunctionOnSet(left, uneven \cup even)
          = SumFunctionOnSet(left, uneven) + SumFunctionOnSet(left, even)
    BY <1>1, <2>1, SumUnion
  <2> QED
    BY <1>1, <2>2
<1>4. SumFunctionOnSet(left, even) = 0
  BY <1>1, <1>2, SumZero
<1>5. SumFunctionOnSet(left, uneven) <= k * n /\ SumFunctionOnSet(left, uneven) \in Nat
  <2>1. \A row \in uneven : left[row] \in Nat /\ left[row] <= k
    BY <1>1, <1>2
  <2> QED
    BY <1>1, <2>1, SumAtMost, SumNat
<1>6. r \in Nat /\ RatioBase * r = SumFunctionOnSet(left, rows)
  BY RestOfAmount
<1>7. RatioBase * r <= (RatioBase - 1) * n
  BY <1>3, <1>4, <1>5, <1>6
<1>8. r <= n
  <2> HIDE DEF r, n, uneven, even, left
  <2> SUFFICES ASSUME r > n PROVE FALSE
    BY <1>1, <1>6
  <2>1. RatioBase * r >= RatioBase * n
    BY <1>1, <1>6
  <2>2. (RatioBase - 1) * n <= RatioBase * n
    BY <1>1
  <2>3. RatioBase * r = RatioBase * n + RatioBase * (r - n)
    BY <1>1, <1>6
  <2>4. RatioBase * (r - n) > 0
    BY <1>1, <1>6
  <2> QED
    BY <1>1, <1>6, <1>7, <2>2, <2>3, <2>4
<1> QED
  BY <1>1, <1>8

(* Codes, ids, ratios and remainders are natural numbers.                   *)
LEMMA RowsAreTyped ==
  ASSUME NEW amount \in Nat, NEW rows, Proper(rows)
  PROVE  \A row \in rows : /\ row.code \in Nat /\ row.id \in Nat /\ row.ratio \in Nat
                           /\ Remainder(amount, row) \in Nat
<1> SUFFICES ASSUME NEW row \in rows
             PROVE  /\ row.code \in Nat /\ row.id \in Nat /\ row.ratio \in Nat
                    /\ Remainder(amount, row) \in Nat
  OBVIOUS
<1>1. row.code \in Nat /\ row.id \in Nat /\ row.ratio \in Nat
  BY PayoutAssumption DEF Proper, RowsOf
<1> QED
  BY <1>1, WholeAndRemainder, PayoutAssumption DEF Remainder

(* The order in which cents are handed out is total, so exactly as many     *)
(* rows get one as there are cents.                                         *)
Favoured(amount, rows) ==
  {row \in rows : Cardinality(Ahead(amount, row, rows)) < Rest(amount, rows)}

LEMMA AsManyAsCents ==
  ASSUME NEW amount \in Nat, NEW rows, Proper(rows)
  PROVE  /\ Cardinality(Favoured(amount, rows)) = Rest(amount, rows)
         /\ Favoured(amount, rows) \subseteq Uneven(amount, rows)
<1> DEFINE ahead == [row \in rows |-> Ahead(amount, row, rows)]
           k == Rest(amount, rows)
           n == Cardinality(Uneven(amount, rows))
<1>1. IsFiniteSet(rows) /\ k \in Nat
  BY RestOfAmount DEF Proper
<1>2. ahead \in [rows -> SUBSET rows] /\ \A row \in rows : ahead[row] = Ahead(amount, row, rows)
  BY DEF Ahead
<1>3. \A x, y \in rows : x \in ahead[y] <=>
          \/ Remainder(amount, x) > Remainder(amount, y)
          \/ Remainder(amount, x) = Remainder(amount, y) /\ x.code < y.code
  BY <1>2 DEF Ahead
<1> HIDE DEF ahead
<1>4. /\ \A x \in rows : x \notin ahead[x]
      /\ \A x, y \in rows : x \in ahead[y] => ahead[x] \subseteq ahead[y]
      /\ \A x, y \in rows : x = y \/ x \in ahead[y] \/ y \in ahead[x]
  <2>1. \A x \in rows : x \notin ahead[x]
    BY <1>3, RowsAreTyped
  <2>2. ASSUME NEW x \in rows, NEW y \in rows, x \in ahead[y], NEW z \in ahead[x]
        PROVE  z \in ahead[y]
    <3>1. z \in rows
      BY <1>2
    <3> QED
      BY <1>3, <2>2, <3>1, RowsAreTyped
  <2>3. ASSUME NEW x \in rows, NEW y \in rows, x # y
        PROVE  x \in ahead[y] \/ y \in ahead[x]
    <3>1. x.code # y.code
      BY <2>3 DEF Proper
    <3> QED
      BY <1>3, <3>1, RowsAreTyped
  <2> QED
    BY <2>1, <2>2, <2>3
<1>5. k <= n /\ n \in Nat /\ n <= Cardinality(rows) /\ Cardinality(rows) \in Nat
  BY <1>1, RestIsSmall, FS_Subset, FS_CardinalityType DEF Uneven
<1>6. Cardinality(Favoured(amount, rows)) = k
  <2>1. k \in 0..Cardinality(rows)
    BY <1>1, <1>5
  <2>2. Cardinality({x \in rows : Cardinality(ahead[x]) < k}) = k
    <3> HIDE DEF k
    <3> QED
      BY <1>1, <1>2, <1>4, <2>1, FirstsCount
  <2>3. {x \in rows : Cardinality(ahead[x]) < k} = Favoured(amount, rows)
    BY <1>2 DEF Favoured
  <2> QED
    BY <2>2, <2>3
<1>7. ASSUME NEW row \in rows, row \notin Uneven(amount, rows)
      PROVE  Cardinality(Ahead(amount, row, rows)) >= k
  <2>1. Remainder(amount, row) = 0
    BY <1>7, RowsAreTyped DEF Uneven
  <2>2. Uneven(amount, rows) \subseteq Ahead(amount, row, rows)
    BY <2>1 DEF Uneven, Ahead
  <2>3. IsFiniteSet(Ahead(amount, row, rows))
    BY <1>1, FS_Subset DEF Ahead
  <2>4. n <= Cardinality(Ahead(amount, row, rows))
        /\ Cardinality(Ahead(amount, row, rows)) \in Nat
    BY <2>2, <2>3, FS_Subset, FS_CardinalityType
  <2> HIDE DEF k, n
  <2> QED
    BY <1>1, <1>5, <2>4
<1>8. Favoured(amount, rows) \subseteq Uneven(amount, rows)
  <2> SUFFICES ASSUME NEW row \in Favoured(amount, rows), row \notin Uneven(amount, rows)
               PROVE  FALSE
    OBVIOUS
  <2>1. row \in rows /\ Cardinality(Ahead(amount, row, rows)) < k
    BY DEF Favoured
  <2>2. Cardinality(Ahead(amount, row, rows)) \in Nat
    BY <1>1, <2>1, FS_Subset, FS_CardinalityType DEF Ahead
  <2>3. Cardinality(Ahead(amount, row, rows)) >= k
    BY <1>7, <2>1
  <2> HIDE DEF k
  <2> QED
    BY <1>1, <2>1, <2>2, <2>3
<1> QED
  BY <1>6, <1>8

(* Whatever the amount and the parties, the shares add up to all of it, and *)
(* each is within a cent of its ratio (SplitAmount).                        *)
LEMMA SharesAreFair ==
  ASSUME NEW amount \in Nat, NEW rows, Proper(rows)
  PROVE  /\ SharesOf(amount, rows) \in [{row.id : row \in rows} -> Nat]
         /\ FairShares(SharesOf(amount, rows), amount, rows)
<1> DEFINE shares == SharesOf(amount, rows)
           ids == {row.id : row \in rows}
           whole == Whole(amount, rows)
           extra == [row \in rows |-> IF row \in Favoured(amount, rows) THEN 1 ELSE 0]
           share == [row \in rows |-> ShareOf(amount, row, rows)]
           sum(f) == SumFunctionOnSet(f, rows)
<1>1. IsFiniteSet(rows) /\ RatioBase \in Nat \ {0}
  BY PayoutAssumption DEF Proper
<1>2. ASSUME NEW row \in rows
      PROVE  /\ row.id \in ids /\ shares[row.id] = share[row]
             /\ share[row] = whole[row] + extra[row]
             /\ whole[row] \in Nat /\ extra[row] \in {0, 1} /\ share[row] \in Nat
             /\ extra[row] = 1 <=> row \in Favoured(amount, rows)
             /\ RatioBase * whole[row] + Remainder(amount, row) = amount * row.ratio
             /\ Remainder(amount, row) \in 0..(RatioBase - 1)
             /\ extra[row] = 1 => Remainder(amount, row) > 0
  <2>1. (CHOOSE one \in rows : one.id = row.id) = row
    BY DEF Proper
  <2>2. row.id \in ids /\ shares[row.id] = ShareOf(amount, row, rows)
    BY <2>1 DEF SharesOf
  <2>3. /\ whole[row] \in Nat /\ Remainder(amount, row) \in 0..(RatioBase - 1)
        /\ RatioBase * whole[row] + Remainder(amount, row) = amount * row.ratio
    <3>1. whole[row] = (amount * row.ratio) \div RatioBase
      BY DEF Whole
    <3>2. row.ratio \in Nat
      BY RowsAreTyped
    <3> HIDE DEF whole
    <3> QED
      BY <3>1, <3>2, WholeAndRemainder DEF Remainder
  <2>4. ShareOf(amount, row, rows) = whole[row] + extra[row]
    <3>1. row \in Favoured(amount, rows) <=>
            Cardinality(Ahead(amount, row, rows)) < Rest(amount, rows)
      BY DEF Favoured
    <3> QED
      BY <3>1 DEF ShareOf
  <2>5. extra[row] = 1 => Remainder(amount, row) > 0
    BY AsManyAsCents DEF Uneven
  <2>6. extra[row] \in {0, 1} /\ (extra[row] = 1 <=> row \in Favoured(amount, rows))
    OBVIOUS
  <2>7. share[row] = ShareOf(amount, row, rows)
    OBVIOUS
  <2> HIDE DEF share, whole, extra, shares, ids
  <2> QED
    BY <2>2, <2>3, <2>4, <2>5, <2>6, <2>7
<1> HIDE DEF extra, whole, share
<1>3. sum(share) = sum(whole) + sum(extra)
  <2>1. \A row \in rows : whole[row] \in Int /\ extra[row] \in Int
                          /\ share[row] = whole[row] + extra[row]
    BY <1>2
  <2> QED
    BY <1>1, <2>1, SumPlus
<1>4. sum(extra) = Rest(amount, rows)
  <2>1. {row \in rows : extra[row] = 1} = Favoured(amount, rows)
    BY <1>2 DEF Favoured
  <2>2. sum(extra) = Cardinality({row \in rows : extra[row] = 1})
    BY <1>1, <1>2, SumOnes
  <2> QED
    BY <2>1, <2>2, AsManyAsCents
<1>5. sum(share) = amount
  <2>1. Rest(amount, rows) = amount - sum(whole)
    BY DEF Rest, whole
  <2>2. sum(whole) \in Nat /\ Rest(amount, rows) \in Nat
    BY <1>1, <1>2, SumNat, RestOfAmount
  <2> HIDE DEF sum
  <2> QED
    BY <1>3, <1>4, <2>1, <2>2
<1>6. SumFunctionOnSet(shares, ids) = amount
  <2> DEFINE name == [row \in rows |-> row.id]
  <2>1. /\ \A row \in rows : shares[name[row]] = share[row] /\ share[row] \in Int
        /\ \A x, y \in rows : name[x] = name[y] => x = y
    BY <1>2 DEF Proper
  <2>2. {name[row] : row \in rows} = ids
    OBVIOUS
  <2> HIDE DEF name, shares, ids
  <2>3. SumFunctionOnSet(shares, {name[row] : row \in rows}) = SumFunctionOnSet(share, rows)
    BY <1>1, <2>1, SumRenamed
  <2> QED
    BY <1>5, <2>2, <2>3
<1>7. ASSUME NEW row \in rows
      PROVE  LET gap == (shares[row.id] * RatioBase) - (amount * row.ratio)
             IN  gap < RatioBase /\ gap > -RatioBase
  <2> DEFINE w == whole[row]
             x == extra[row]
             m == Remainder(amount, row)
             full == amount * row.ratio
  <2>1. /\ shares[row.id] = w + x /\ w \in Nat /\ x \in {0, 1}
        /\ RatioBase * w + m = full /\ m \in 0..(RatioBase - 1)
        /\ x = 1 => m > 0
    BY <1>2
  <2> HIDE DEF w, x, m, full, shares
  <2>2. (w + x) * RatioBase = RatioBase * w + x * RatioBase
    BY <1>1, <2>1
  <2>3. \/ x = 0 /\ x * RatioBase = 0
        \/ x = 1 /\ x * RatioBase = RatioBase
    BY <1>1, <2>1
  <2>4. RatioBase * w \in Nat
    BY <1>1, <2>1
  <2>5. (shares[row.id] * RatioBase) - full < RatioBase
        /\ (shares[row.id] * RatioBase) - full > -RatioBase
    BY <1>1, <2>1, <2>2, <2>3, <2>4
  <2> QED
    BY <2>5 DEF full
<1>8. DOMAIN shares = ids
  BY DEF SharesOf
<1>9. shares \in [ids -> Nat]
  <2>1. shares = [id \in ids |-> shares[id]]
    BY DEF SharesOf
  <2>2. \A id \in ids : shares[id] \in Nat
    BY <1>2
  <2> HIDE DEF shares, ids
  <2> QED
    BY <2>1, <2>2
<1> QED
  BY <1>6, <1>7, <1>8, <1>9 DEF FairShares

(* The rows of a valid list are proper parties.                             *)
LEMMA InsertedAreProper ==
  ASSUME NEW first \in Nat, NEW list \in PartyChoices, ValidParties(list)
  PROVE  Proper(InsertParties(first, list))
<1> DEFINE D == DOMAIN list
           below(code) == {c \in D : c < code}
           row == [code \in D |-> [id |-> first + Cardinality(below(code)), code |-> code,
                                   ratio |-> list[code]]]
           rows == InsertParties(first, list)
           ratio == [r \in rows |-> r.ratio]
<1>1. D \in SUBSET Codes /\ Codes \subseteq Nat /\ IsFiniteSet(D) /\ list \in [D -> Nat]
  <2>1. PICK C \in SUBSET Codes : list \in [C -> Nat]
    BY PayoutAssumption
  <2>2. D = C /\ IsFiniteSet(C) /\ Codes \subseteq Nat
    BY <2>1, FS_Subset, PayoutAssumption
  <2> QED
    BY <2>1, <2>2
<1>2. \A c \in D : IsFiniteSet(below(c)) /\ Cardinality(below(c)) \in Nat
  BY <1>1, FS_Subset, FS_CardinalityType
<1>3. ASSUME NEW c \in D, NEW d \in D, c < d
      PROVE  Cardinality(below(c)) < Cardinality(below(d))
  <2>1. below(c) \in SUBSET below(d) /\ c \in below(d) /\ c \notin below(c)
    BY <1>1, <1>3
  <2>2. Cardinality(below(c)) <= Cardinality(below(d))
        /\ Cardinality(below(c)) # Cardinality(below(d))
    <3> HIDE DEF below
    <3> QED
      BY <1>2, <2>1, FS_Subset
  <2> HIDE DEF below
  <2> QED
    BY <1>2, <2>2
<1> HIDE DEF below
<1>4. /\ rows = {row[c] : c \in D}
      /\ \A c \in D : /\ row[c] \in RowsOf /\ row[c].code = c /\ row[c].ratio = list[c]
                      /\ row[c].id = first + Cardinality(below(c))
  <2>1. rows = {row[c] : c \in D}
    BY DEF InsertParties, below
  <2>2. ASSUME NEW c \in D
        PROVE /\ row[c] \in RowsOf /\ row[c].code = c /\ row[c].ratio = list[c]
              /\ row[c].id = first + Cardinality(below(c))
    <3>1. row[c] = [id |-> first + Cardinality(below(c)), code |-> c, ratio |-> list[c]]
      OBVIOUS
    <3>2. first + Cardinality(below(c)) \in Nat /\ list[c] \in Nat /\ c \in Codes
      BY <1>1, <1>2
    <3> HIDE DEF row
    <3> QED
      BY <3>1, <3>2 DEF RowsOf
  <2> QED
    BY <2>1, <2>2
<1> HIDE DEF row
<1>5. rows \subseteq RowsOf
  BY <1>4
<1>6. ASSUME NEW x \in rows, NEW y \in rows, x.id = y.id \/ x.code = y.code
      PROVE  x = y
  <2>1. PICK c \in D, d \in D : x = row[c] /\ y = row[d]
    BY <1>4
  <2>2. c = d
    <3>1. CASE x.code = y.code
      BY <1>4, <2>1, <3>1
    <3>2. CASE x.id = y.id
      <4>1. Cardinality(below(c)) = Cardinality(below(d))
        BY <1>2, <1>4, <2>1, <3>2
      <4>2. ~(c < d) /\ ~(d < c)
        BY <1>2, <1>3, <4>1
      <4> QED
        BY <1>1, <4>2
    <3> QED
      BY <1>6, <3>1, <3>2
  <2> QED
    BY <2>1, <2>2
<1>7. IsFiniteSet(rows)
  <2>1. row \in Surjection(D, rows)
    <3>1. row = [c \in D |-> row[c]]
      BY DEF row
    <3> QED
      BY <1>4, <3>1 DEF Surjection
  <2> QED
    BY <1>1, <2>1, FS_Surjection
<1>8. SumFunctionOnSet(ratio, rows) = RatioBase
  <2>1. /\ \A c \in D : ratio[row[c]] = list[c] /\ list[c] \in Int
        /\ \A c, d \in D : row[c] = row[d] => c = d
    BY <1>1, <1>4
  <2> HIDE DEF ratio
  <2>2. SumFunctionOnSet(ratio, {row[c] : c \in D}) = SumFunctionOnSet(list, D)
    BY <1>1, <2>1, SumRenamed
  <2> QED
    BY <1>4, <2>2 DEF ValidParties
<1> QED
  BY <1>5, <1>6, <1>7, <1>8 DEF Proper

(* Templates are created with a valid list; no charge, no request.          *)
LEMMA PayoutStarts == PayoutInit => PayoutInvariant
<1> SUFFICES ASSUME PayoutInit PROVE PayoutInvariant
  OBVIOUS
<1> USE PayoutAssumption DEF PayoutInit
<1>1. FirstList \in PartyChoices /\ ValidParties(FirstList)
  BY SomeListIsValid DEF FirstList
<1>2. ASSUME NEW t \in Templates
      PROVE  /\ Proper(template[t].parties)
             /\ template[t] \in [status : {"active", "disabled"}, mode : Modes,
                                 parties : SUBSET RowsOf]
  <2>1. Proper(InsertParties(FirstRow[t], FirstList))
    BY <1>1, InsertedAreProper
  <2> QED
    BY <2>1 DEF NewTemplate, Modes, Proper
<1>3. nextRow \in Nat
  BY FS_CardinalityType
<1>4. PayoutTypeOK
  <2>1. template \in [Templates -> [status : {"active", "disabled"}, mode : Modes,
                                   parties : SUBSET RowsOf]]
    <3>1. template = [t \in Templates |-> template[t]]
      OBVIOUS
    <3> QED
      BY <1>2, <3>1
  <2> QED
    BY <1>2, <1>3, <2>1 DEF PayoutTypeOK
<1>5. CallsHoldRows /\ ReadIsCurrent /\ SplitIsFinal
  BY DEF CallsHoldRows, ReadIsCurrent, SplitIsFinal, NoCall
<1>6. PledgedWithinEarned
  <2> SUFFICES ASSUME NEW party \in Nat
               PROVE  SumFunctionOnSet(Asked, Pledged(party)) <= Earned(party)
    BY DEF PledgedWithinEarned
  <2>1. Pledged(party) = {}
    BY DEF Pledged, OfParty
  <2>2. \A c \in Calculations : Share(c, party) = 0
    BY DEF Share, NoRow
  <2>3. Earned(party) = 0
    <3> DEFINE share == [c \in Calculations |-> Share(c, party)]
    <3>1. \A c \in Calculations : share[c] = 0
      BY <2>2
    <3> HIDE DEF share
    <3>2. SumFunctionOnSet(share, Calculations) = 0
      BY <3>1, SumZero
    <3> QED
      BY <3>2 DEF Earned, share
  <2> QED
    BY <2>1, <2>3, SumEmpty
<1> QED
  BY <1>4, <1>5, <1>6 DEF PayoutInvariant

-----------------------------------------------------------------------------
(* Templates, stations and charges.                                         *)

(* A step that touches neither settlements nor withdrawals keeps the        *)
(* pledges.                                                                 *)
LEMMA MoneyKept ==
  ASSUME PayoutInvariant, UNCHANGED <<settlement, withdrawal, call>>
  PROVE  PledgedWithinEarned' /\ CallsHoldRows'
<1>1. \A party : Pledged(party)' = Pledged(party) /\ Earned(party)' = Earned(party)
  BY DEF Pledged, OfParty, Earned, Share
<1>2. Asked' = Asked
  BY DEF Asked
<1> QED
  BY <1>1, <1>2 DEF PayoutInvariant, PledgedWithinEarned, CallsHoldRows

(* The template of a station that has been charged at stays as it is, with  *)
(* the settlements made by it and what a job has read of it.                *)
LEMMA BindingsKept ==
  ASSUME PayoutInvariant, UNCHANGED <<settlement, withdrawal, call>>,
         PayoutTypeOK',
         \A c \in Calculations :
            /\ c \in priced => c \in priced' /\ station'[StationOf[c]].charged
            /\ c \in priced' => station'[StationOf[c]].charged
            /\ c \in priced /\ station[StationOf[c]].bound # None =>
                 /\ station'[StationOf[c]].bound = station[StationOf[c]].bound
                 /\ template'[station[StationOf[c]].bound] = template[station[StationOf[c]].bound]
            /\ resolved'[c] = resolved[c] \/ resolved'[c] = NoRead
  PROVE  PayoutInvariant'
<1> USE NoneIsNoTemplate DEF PayoutInvariant
<1>1. PledgedWithinEarned' /\ CallsHoldRows'
  BY MoneyKept
<1>2. ReadIsCurrent'
  <2> SUFFICES ASSUME NEW c \in Calculations
               PROVE  /\ resolved'[c] # NoRead \/ settlement'[c] # NoRow => c \in priced'
                      /\ c \in priced' => station'[StationOf[c]].charged
                      /\ resolved'[c] # NoRead =>
                           /\ station'[StationOf[c]].bound = resolved'[c].id
                           /\ template'[resolved'[c].id].status = "active"
                           /\ template'[resolved'[c].id].mode = resolved'[c].mode
                           /\ template'[resolved'[c].id].parties = resolved'[c].parties
    BY DEF ReadIsCurrent
  <2>1. resolved[c] # NoRead => resolved[c].id # None
    BY DEF PayoutTypeOK
  <2> QED
    BY <2>1 DEF ReadIsCurrent
<1>3. SplitIsFinal'
  <2> SUFFICES ASSUME NEW c \in Calculations, settlement[c] # NoRow
               PROVE  /\ station'[StationOf[c]].bound = settlement[c].template
                      /\ template'[settlement[c].template] = template[settlement[c].template]
    BY DEF SplitIsFinal, FairShares
  <2>1. c \in priced /\ station[StationOf[c]].bound = settlement[c].template
    BY DEF ReadIsCurrent, SplitIsFinal
  <2>2. settlement[c].template # None
    BY DEF PayoutTypeOK
  <2> QED
    BY <2>1, <2>2
<1> QED
  BY <1>1, <1>2, <1>3

(* A template is changed or gets new parties only while it is not bound.    *)
LEMMA TemplatesKeep ==
  ASSUME PayoutInvariant, NEW t \in Templates,
         \/ \E mode \in {"mode_a", "mode_b"}, status \in {"active", "disabled"} :
               UpdateTemplate(t, mode, status)
         \/ \E list \in PartyChoices : ReplaceParties(t, list)
  PROVE  PayoutInvariant'
<1>0. template \in [Templates -> [status : {"active", "disabled"}, mode : Modes,
                                  parties : SUBSET RowsOf]]
  BY DEF PayoutInvariant, PayoutTypeOK
<1>1. /\ ~Bound(t)
      /\ UNCHANGED <<station, priced, resolved, settlement, withdrawal, call>>
      /\ \A s \in Templates : s # t => template'[s] = template[s]
      /\ PayoutTypeOK'
  <2>1. CASE \E mode \in {"mode_a", "mode_b"}, status \in {"active", "disabled"} :
               UpdateTemplate(t, mode, status)
    <3>1. PICK mode \in {"mode_a", "mode_b"}, status \in {"active", "disabled"} :
               UpdateTemplate(t, mode, status)
      BY <2>1
    <3>2. template' = [template EXCEPT ![t] = [@ EXCEPT !.mode = mode, !.status = status]]
      BY <3>1 DEF UpdateTemplate, PayoutInvariant, PayoutTypeOK
    <3>3. /\ template' \in [Templates -> [status : {"active", "disabled"}, mode : Modes,
                                          parties : SUBSET RowsOf]]
          /\ \A s \in Templates : template'[s].parties = template[s].parties
          /\ \A s \in Templates : s # t => template'[s] = template[s]
      BY <1>0, <3>2 DEF Modes
    <3>4. PayoutTypeOK'
      BY <3>1, <3>3 DEF UpdateTemplate, PayoutInvariant, PayoutTypeOK, Proper
    <3> QED
      BY <3>1, <3>3, <3>4 DEF UpdateTemplate
  <2>2. ASSUME NEW list \in PartyChoices, ReplaceParties(t, list)
        PROVE  /\ ~Bound(t)
               /\ UNCHANGED <<station, priced, resolved, settlement, withdrawal, call>>
               /\ \A s \in Templates : s # t => template'[s] = template[s]
               /\ PayoutTypeOK'
    <3> DEFINE rows == InsertParties(nextRow, list)
    <3>1. Proper(rows)
      BY <2>2, InsertedAreProper DEF ReplaceParties, PayoutInvariant, PayoutTypeOK
    <3>2. template' = [template EXCEPT ![t] = [@ EXCEPT !.parties = rows]]
      BY <2>2 DEF ReplaceParties, PayoutInvariant, PayoutTypeOK
    <3> HIDE DEF rows
    <3>3. /\ template' \in [Templates -> [status : {"active", "disabled"}, mode : Modes,
                                          parties : SUBSET RowsOf]]
          /\ template'[t].parties = rows
          /\ \A s \in Templates : s # t => template'[s] = template[s]
      <4>1. rows \in SUBSET RowsOf
        BY <3>1 DEF Proper
      <4> QED
        BY <1>0, <3>2, <4>1
    <3>4. nextRow' \in Nat
      <4>1. PICK C \in SUBSET Codes : list \in [C -> Nat]
        BY PayoutAssumption
      <4>2. IsFiniteSet(DOMAIN list)
        BY <4>1, FS_Subset, PayoutAssumption
      <4> QED
        BY <2>2, <4>2, FS_CardinalityType DEF ReplaceParties, PayoutInvariant, PayoutTypeOK
    <3>5. \A s \in Templates : Proper(template'[s].parties)
      BY <3>1, <3>3 DEF PayoutInvariant, PayoutTypeOK
    <3>6. PayoutTypeOK'
      BY <2>2, <3>3, <3>4, <3>5 DEF ReplaceParties, PayoutInvariant, PayoutTypeOK, Proper
    <3> QED
      BY <2>2, <3>3, <3>6 DEF ReplaceParties
  <2> QED
    BY <2>1, <2>2
<1>2. \A c \in Calculations : station[StationOf[c]].bound # None =>
        template'[station[StationOf[c]].bound] = template[station[StationOf[c]].bound]
  BY <1>1, PayoutAssumption DEF Bound, PayoutInvariant, PayoutTypeOK
<1> QED
  BY <1>1, <1>2, BindingsKept DEF PayoutInvariant, ReadIsCurrent

(* A station keeps its template from its first charge on.                   *)
LEMMA StationsKeep ==
  ASSUME PayoutInvariant, NEW s \in Stations,
         \/ \E t \in Templates : BindTemplate(s, t)
         \/ \E status \in {"active", "disabled"} : SaveStation(s, status)
         \/ \E c \in Calculations : StationOf[c] = s /\ Charge(c)
  PROVE  PayoutInvariant'
<1>1. /\ UNCHANGED <<template, nextRow, resolved, settlement, withdrawal, call>>
      /\ station' \in [Stations -> [status : {"active", "disabled"},
                                    bound : Templates \cup {None}, charged : BOOLEAN]]
      /\ priced \subseteq priced' /\ priced' \subseteq Calculations
      /\ \A r \in Stations : station[r].charged =>
            station'[r].charged /\ station'[r].bound = station[r].bound
      /\ \A c \in priced' \ priced : station'[StationOf[c]].charged
  <2>1. ASSUME NEW t \in Templates, BindTemplate(s, t)
        PROVE  /\ station' \in [Stations -> [status : {"active", "disabled"},
                                    bound : Templates \cup {None}, charged : BOOLEAN]]
               /\ \A r \in Stations : station[r].charged =>
                    station'[r].charged /\ station'[r].bound = station[r].bound
    BY <2>1 DEF BindTemplate, PayoutInvariant, PayoutTypeOK
  <2>2. ASSUME NEW status \in {"active", "disabled"}, SaveStation(s, status)
        PROVE  /\ station' \in [Stations -> [status : {"active", "disabled"},
                                    bound : Templates \cup {None}, charged : BOOLEAN]]
               /\ \A r \in Stations : station[r].charged =>
                    station'[r].charged /\ station'[r].bound = station[r].bound
    BY <2>2 DEF SaveStation, PayoutInvariant, PayoutTypeOK
  <2>3. ASSUME NEW c \in Calculations, StationOf[c] = s, Charge(c)
        PROVE  /\ station' \in [Stations -> [status : {"active", "disabled"},
                                    bound : Templates \cup {None}, charged : BOOLEAN]]
               /\ \A r \in Stations : station[r].charged =>
                    station'[r].charged /\ station'[r].bound = station[r].bound
               /\ station'[s].charged
    <3>1. station \in [Stations -> [status : {"active", "disabled"},
                                    bound : Templates \cup {None}, charged : BOOLEAN]]
      BY DEF PayoutInvariant, PayoutTypeOK
    <3>2. station' = [station EXCEPT ![s] = [@ EXCEPT !.charged = TRUE]]
      BY <2>3 DEF Charge
    <3> QED
      BY <3>1, <3>2
  <2>4. UNCHANGED <<template, nextRow, resolved, settlement, withdrawal, call>>
    BY DEF BindTemplate, SaveStation, Charge
  <2>5. /\ priced \subseteq priced' /\ priced' \subseteq Calculations
        /\ \A c \in priced' \ priced : station'[StationOf[c]].charged
    BY <2>3 DEF BindTemplate, SaveStation, Charge, PayoutInvariant, PayoutTypeOK
  <2> QED
    BY <2>1, <2>2, <2>3, <2>4, <2>5
<1>2. PayoutTypeOK'
  BY <1>1 DEF PayoutInvariant, PayoutTypeOK, Proper
<1> QED
  BY <1>1, <1>2, BindingsKept, PayoutAssumption DEF PayoutInvariant, ReadIsCurrent

(* The job reads the template that is bound to the station of the charge.   *)
LEMMA ResolveKeeps ==
  ASSUME PayoutInvariant, NEW c \in Calculations, Resolve(c)
  PROVE  PayoutInvariant'
<1> DEFINE t == station[StationOf[c]].bound
           read == [id |-> t, mode |-> template[t].mode, parties |-> template[t].parties]
<1>1. /\ c \in priced /\ t \in Templates /\ template[t].status = "active"
      /\ resolved' = [resolved EXCEPT ![c] = read]
      /\ UNCHANGED <<template, nextRow, station, priced, settlement, withdrawal, call>>
  BY PayoutAssumption DEF Resolve, PayoutInvariant, PayoutTypeOK
<1>2. read \in [id : Templates, mode : Modes, parties : SUBSET RowsOf]
  BY <1>1 DEF PayoutInvariant, PayoutTypeOK
<1>3. /\ read.id = t /\ read.mode = template[t].mode /\ read.parties = template[t].parties
  OBVIOUS
<1> HIDE DEF read
<1>4. PayoutTypeOK'
  BY <1>1, <1>2 DEF PayoutInvariant, PayoutTypeOK, Proper
<1>5. ReadIsCurrent'
  BY <1>1, <1>3 DEF PayoutInvariant, PayoutTypeOK, ReadIsCurrent
<1>6. SplitIsFinal'
  BY <1>1 DEF PayoutInvariant, SplitIsFinal, FairShares
<1> QED
  BY <1>1, <1>4, <1>5, <1>6, MoneyKept DEF PayoutInvariant

-----------------------------------------------------------------------------
(* Settlements.                                                             *)

ShareTable == UNION {[electric : [ids -> Nat], service : [ids -> Nat]] : ids \in SUBSET Nat}
SettlementRow == [template : Templates, mode : Modes, status : {"pending", "paid"},
                  shares : ShareTable]

(* What a party has of one settlement is a natural number.                  *)
LEMMA ShareIsNatural ==
  ASSUME PayoutTypeOK, NEW c \in Calculations, NEW party
  PROVE  Share(c, party) \in Nat
<1>1. CASE settlement[c] = NoRow
  BY <1>1 DEF Share, NoRow
<1>2. CASE settlement[c] # NoRow
  <2>1. settlement[c] \in SettlementRow
    BY <1>2 DEF PayoutTypeOK, SettlementRow, ShareTable
  <2>2. settlement[c].shares \in ShareTable
    BY <2>1 DEF SettlementRow
  <2>3. PICK ids \in SUBSET Nat :
          settlement[c].shares \in [electric : [ids -> Nat], service : [ids -> Nat]]
    BY <2>2 DEF ShareTable
  <2> DEFINE electric == settlement[c].shares.electric
             service == settlement[c].shares.service
  <2>4. electric \in [ids -> Nat] /\ service \in [ids -> Nat]
    BY <2>3
  <2>5. Share(c, party) = 0 \/
           (party \in DOMAIN service /\ Share(c, party) = electric[party] + service[party])
    BY DEF Share
  <2> HIDE DEF electric, service
  <2>6. party \in DOMAIN service => electric[party] \in Nat /\ service[party] \in Nat
    BY <2>4
  <2>7. party \in DOMAIN service => electric[party] + service[party] \in Nat
    BY <2>6
  <2> QED
    BY <2>5, <2>7
<1> QED
  BY <1>1, <1>2

(* The same for every settlement and party, to be used of the next state.   *)
LEMMA SharesStayNatural ==
  PayoutTypeOK => \A d \in Calculations : \A p : Share(d, p) \in Nat
BY ShareIsNatural

(* What a party has earned never shrinks.                                   *)
LEMMA EarnedGrows ==
  ASSUME PayoutTypeOK, PayoutTypeOK', NEW party,
         \A c \in Calculations : Share(c, party) <= Share(c, party)'
  PROVE  Earned(party) \in Nat /\ Earned(party)' \in Nat /\ Earned(party) <= Earned(party)'
<1> DEFINE old == [c \in Calculations |-> Share(c, party)]
           new == [c \in Calculations |-> Share(c, party)']
<1>1. \A c \in Calculations : Share(c, party) \in Nat
  BY ShareIsNatural
<1>2. \A c \in Calculations : Share(c, party)' \in Nat
  <2>1. (PayoutTypeOK => \A d \in Calculations : \A p : Share(d, p) \in Nat)'
    BY SharesStayNatural, PTL
  <2> QED
    BY <2>1
<1>3. \A c \in Calculations : old[c] \in Nat /\ new[c] \in Nat /\ old[c] <= new[c]
  BY <1>1, <1>2
<1>4. Earned(party) = SumFunctionOnSet(old, Calculations)
  BY DEF Earned
<1>5. Earned(party)' = SumFunctionOnSet(new, Calculations)
  BY DEF Earned
<1> HIDE DEF old, new
<1> QED
  BY <1>3, <1>4, <1>5, PayoutAssumption, SumMonotone, SumNat

(* So is what it has of them all.                                           *)
LEMMA EarnedIsNatural ==
  ASSUME PayoutTypeOK, NEW party
  PROVE  Earned(party) \in Nat
<1> DEFINE share == [c \in Calculations |-> Share(c, party)]
<1>1. \A c \in Calculations : share[c] \in Nat
  BY ShareIsNatural
<1>2. Earned(party) = SumFunctionOnSet(share, Calculations)
  BY DEF Earned
<1> HIDE DEF share
<1> QED
  BY <1>1, <1>2, SumNat, PayoutAssumption

(* What a withdrawal asks for is a natural number, its amount.              *)
LEMMA AskedIsNatural ==
  ASSUME PayoutTypeOK
  PROVE  /\ \A w \in Withdrawals : Asked[w] \in Nat
         /\ \A w \in Withdrawals : withdrawal[w] # NoRow => Asked[w] = withdrawal[w].amount
<1> SUFFICES ASSUME NEW w \in Withdrawals
             PROVE  Asked[w] \in Nat
                    /\ (withdrawal[w] # NoRow => Asked[w] = withdrawal[w].amount)
  OBVIOUS
<1>1. withdrawal[w] # NoRow => withdrawal[w].amount \in Amounts
  BY DEF PayoutTypeOK
<1> QED
  BY <1>1, PayoutAssumption DEF Asked

(* What several withdrawals ask for grows with them, one by one.            *)
LEMMA SumOfAsked ==
  ASSUME PayoutTypeOK, NEW S \in SUBSET Withdrawals
  PROVE  /\ IsFiniteSet(S) /\ SumFunctionOnSet(Asked, S) \in Nat
         /\ \A T \in SUBSET S : SumFunctionOnSet(Asked, T) <= SumFunctionOnSet(Asked, S)
         /\ \A w \in S : SumFunctionOnSet(Asked, S) = Asked[w] + SumFunctionOnSet(Asked, S \ {w})
<1>1. IsFiniteSet(S) /\ \A w \in S : Asked[w] \in Nat
  BY FS_Subset, AskedIsNatural, PayoutAssumption
<1> HIDE DEF Asked
<1>2. SumFunctionOnSet(Asked, S) \in Nat
  BY <1>1, SumNat
<1>3. \A T \in SUBSET S : SumFunctionOnSet(Asked, T) <= SumFunctionOnSet(Asked, S)
  BY <1>1, SumSubset
<1>4. \A w \in S : SumFunctionOnSet(Asked, S) = Asked[w] + SumFunctionOnSet(Asked, S \ {w})
  BY <1>1, SumRemove
<1> QED
  BY <1>1, <1>2, <1>3, <1>4

(* When no share shrinks, what is pledged stays within what is earned.      *)
LEMMA SettlingKeepsPledges ==
  ASSUME PayoutInvariant, PayoutTypeOK', UNCHANGED <<withdrawal, call>>,
         \A c \in Calculations : \A party \in Nat : Share(c, party) <= Share(c, party)'
  PROVE  PledgedWithinEarned' /\ CallsHoldRows'
<1>1. Asked' = Asked /\ \A party : Pledged(party)' = Pledged(party)
  BY DEF Asked, Pledged, OfParty
<1>2. ASSUME NEW party \in Nat
      PROVE  SumFunctionOnSet(Asked, Pledged(party)) <= Earned(party)'
  <2>1. Earned(party) \in Nat /\ Earned(party)' \in Nat /\ Earned(party) <= Earned(party)'
    BY EarnedGrows DEF PayoutInvariant
  <2>2. SumFunctionOnSet(Asked, Pledged(party)) \in Nat
    BY SumOfAsked DEF PayoutInvariant, Pledged
  <2>3. SumFunctionOnSet(Asked, Pledged(party)) <= Earned(party)
    BY DEF PayoutInvariant, PledgedWithinEarned
  <2> QED
    BY <2>1, <2>2, <2>3
<1>3. PledgedWithinEarned'
  BY <1>1, <1>2 DEF PledgedWithinEarned
<1> QED
  BY <1>3 DEF PayoutInvariant, CallsHoldRows

(* The row is written by what was read, and what was read is current.       *)
LEMMA SettleKeeps ==
  ASSUME PayoutInvariant, NEW c \in Calculations, Settle(c)
  PROVE  PayoutInvariant'
<1> DEFINE t == resolved[c]
           row == [template |-> t.id, mode |-> t.mode, status |-> "pending",
                   shares |-> Allocate(Fee[c], t.mode, t.parties)]
           rows == t.parties
           electric == IF t.mode = "mode_a" THEN Fee[c].electric ELSE 0
           service == Fee[c].service
           ids == {r.id : r \in rows}
<1>1. /\ t # NoRead /\ resolved' = [resolved EXCEPT ![c] = NoRead]
      /\ settlement' = IF settlement[c] # NoRow THEN settlement
                       ELSE [settlement EXCEPT ![c] = row]
      /\ UNCHANGED <<template, nextRow, station, priced, withdrawal, call>>
  BY DEF Settle
<1>2. /\ c \in priced /\ t.id \in Templates /\ t.mode \in Modes
      /\ station[StationOf[c]].bound = t.id /\ template[t.id].status = "active"
      /\ template[t.id].mode = t.mode /\ template[t.id].parties = rows /\ Proper(rows)
  BY <1>1 DEF PayoutInvariant, PayoutTypeOK, ReadIsCurrent
<1>3. electric \in Nat /\ service \in Nat /\ ids \in SUBSET Nat
  BY <1>2, PayoutAssumption DEF Proper, RowsOf
<1>4. /\ row.template = t.id /\ row.mode = t.mode /\ row.status = "pending"
      /\ row.shares = [electric |-> SharesOf(electric, rows), service |-> SharesOf(service, rows)]
      /\ row.shares.electric = SharesOf(electric, rows)
      /\ row.shares.service = SharesOf(service, rows)
      /\ row = [template |-> row.template, mode |-> row.mode, status |-> row.status,
                shares |-> row.shares]
  BY DEF Allocate
<1>5. /\ SharesOf(electric, rows) \in [ids -> Nat] /\ SharesOf(service, rows) \in [ids -> Nat]
      /\ FairShares(SharesOf(electric, rows), electric, rows)
      /\ FairShares(SharesOf(service, rows), service, rows)
  <2> HIDE DEF electric, service
  <2> QED
    BY <1>2, <1>3, SharesAreFair
<1> HIDE DEF row
<1>6. row \in SettlementRow
  <2>1. row.shares \in [electric : [ids -> Nat], service : [ids -> Nat]]
    BY <1>4, <1>5
  <2>2. row.shares \in ShareTable
    <3> HIDE DEF ids
    <3> QED
      BY <1>3, <2>1 DEF ShareTable
  <2> QED
    BY <1>2, <1>4, <2>2 DEF SettlementRow
<1>7. settlement' \in [Calculations -> {NoRow} \cup SettlementRow]
  <2>1. settlement \in [Calculations -> {NoRow} \cup SettlementRow]
    BY DEF PayoutInvariant, PayoutTypeOK, SettlementRow, ShareTable
  <2> QED
    BY <1>1, <1>6, <2>1
<1>8. PayoutTypeOK'
  <2>1. resolved' \in [Calculations -> {NoRead} \cup
            [id : Templates, mode : Modes, parties : SUBSET RowsOf]]
    BY <1>1 DEF PayoutInvariant, PayoutTypeOK
  <2> QED
    BY <1>1, <1>7, <2>1 DEF PayoutInvariant, PayoutTypeOK, SettlementRow, ShareTable, Proper
<1>9. ReadIsCurrent'
  BY <1>1, <1>2 DEF PayoutInvariant, PayoutTypeOK, ReadIsCurrent
<1>10. SplitIsFinal'
  <2>1. ASSUME NEW q \in Calculations, settlement'[q] = settlement[q], settlement[q] # NoRow
        PROVE  LET made == settlement'[q]
                   now  == template'[made.template]
               IN  /\ station'[StationOf[q]].bound = made.template
                   /\ now.mode = made.mode /\ now.status = "active"
                   /\ DOMAIN made.shares.service = {r.id : r \in now.parties}
                   /\ FairShares(made.shares.service, Fee[q].service, now.parties)
                   /\ FairShares(made.shares.electric,
                         IF made.mode = "mode_a" THEN Fee[q].electric ELSE 0, now.parties)
    BY <1>1, <2>1 DEF PayoutInvariant, SplitIsFinal
  <2>2. ASSUME settlement'[c] = row
        PROVE  LET made == settlement'[c]
                   now  == template'[made.template]
               IN  /\ station'[StationOf[c]].bound = made.template
                   /\ now.mode = made.mode /\ now.status = "active"
                   /\ DOMAIN made.shares.service = {r.id : r \in now.parties}
                   /\ FairShares(made.shares.service, Fee[c].service, now.parties)
                   /\ FairShares(made.shares.electric,
                         IF made.mode = "mode_a" THEN Fee[c].electric ELSE 0, now.parties)
    BY <1>1, <1>2, <1>4, <1>5, <2>2
  <2>3. \A q \in Calculations : settlement'[q] = settlement[q] \/ (q = c /\ settlement'[q] = row)
    <3>1. settlement \in [Calculations -> {NoRow} \cup SettlementRow]
      BY DEF PayoutInvariant, PayoutTypeOK, SettlementRow, ShareTable
    <3> QED
      BY <1>1, <3>1
  <2> QED
    BY <2>1, <2>2, <2>3 DEF SplitIsFinal, FairShares
<1>11. ASSUME NEW q \in Calculations, NEW party \in Nat
       PROVE  Share(q, party) <= Share(q, party)'
  <2>1. Share(q, party) \in Nat
    BY ShareIsNatural DEF PayoutInvariant
  <2>2. \/ settlement'[q] = settlement[q]
        \/ settlement[q] = NoRow /\ settlement'[q] = row
    <3>1. settlement \in [Calculations -> {NoRow} \cup SettlementRow]
      BY DEF PayoutInvariant, PayoutTypeOK, SettlementRow, ShareTable
    <3> QED
      BY <1>1, <3>1
  <2> QED
    BY <1>4, <2>1, <2>2 DEF Share, NoRow
<1> QED
  BY <1>1, <1>8, <1>9, <1>10, <1>11, SettlingKeepsPledges DEF PayoutInvariant

(* A settlement that is paid adds to what its parties have earned.          *)
LEMMA PayOutKeeps ==
  ASSUME PayoutInvariant, NEW c \in Calculations, PayOutSettlement(c)
  PROVE  PayoutInvariant'
<1>1. /\ settlement[c] # NoRow /\ settlement[c].status = "pending"
      /\ settlement' = [settlement EXCEPT ![c] = [@ EXCEPT !.status = "paid"]]
      /\ UNCHANGED <<template, nextRow, station, priced, resolved, withdrawal, call>>
  BY DEF PayOutSettlement
<1>2. settlement \in [Calculations -> {NoRow} \cup SettlementRow]
  BY DEF PayoutInvariant, PayoutTypeOK, SettlementRow, ShareTable
<1>3. /\ settlement' \in [Calculations -> {NoRow} \cup SettlementRow]
      /\ \A q \in Calculations : q # c => settlement'[q] = settlement[q]
      /\ settlement'[c].template = settlement[c].template
      /\ settlement'[c].mode = settlement[c].mode
      /\ settlement'[c].shares = settlement[c].shares
      /\ settlement'[c].status = "paid" /\ settlement'[c] # NoRow
  BY <1>1, <1>2 DEF SettlementRow, NoRow
<1>4. PayoutTypeOK'
  BY <1>1, <1>3 DEF PayoutInvariant, PayoutTypeOK, SettlementRow, ShareTable, Proper
<1>5. ReadIsCurrent'
  BY <1>1, <1>3 DEF PayoutInvariant, PayoutTypeOK, ReadIsCurrent
<1>6. SplitIsFinal'
  BY <1>1, <1>3 DEF PayoutInvariant, SplitIsFinal, FairShares
<1>7. ASSUME NEW q \in Calculations, NEW party \in Nat
      PROVE  Share(q, party) <= Share(q, party)'
  <2>1. Share(q, party) \in Nat
    BY ShareIsNatural DEF PayoutInvariant
  <2>2. CASE q # c
    BY <1>3, <2>1, <2>2 DEF Share
  <2>3. CASE q = c
    <3>1. Share(q, party)' \in Nat
      <4>1. (PayoutTypeOK => \A d \in Calculations : \A p : Share(d, p) \in Nat)'
        BY SharesStayNatural, PTL
      <4> QED
        BY <1>4, <4>1
    <3> QED
      BY <1>1, <2>3, <3>1 DEF Share
  <2> QED
    BY <2>2, <2>3
<1> QED
  BY <1>1, <1>4, <1>5, <1>6, <1>7, SettlingKeepsPledges DEF PayoutInvariant

-----------------------------------------------------------------------------
(* Withdrawals.                                                             *)

WithdrawalRow == [party : Nat, amount : Amounts,
                  status : {"pending", "approved", "paid", "rejected"}]
WithdrawalCalls == [op : {"approve", "pay"}] \cup [op : {"create"}, party : Nat, amount : Amounts]

(* What a withdrawal asks for is a natural number in the next state too.    *)
LEMMA AskedStaysNatural ==
  PayoutTypeOK => \A w \in Withdrawals : Asked[w] \in Nat
BY AskedIsNatural

(* What is earned depends on the settlements only.                          *)
LEMMA EarnedStands ==
  ASSUME UNCHANGED settlement, NEW party
  PROVE  Earned(party)' = Earned(party)
BY DEF Earned, Share

(* A step that pledges no other withdrawal, and changes the amount of none  *)
(* that is pledged, leaves what is pledged within what is earned.           *)
LEMMA FewerPledged ==
  ASSUME PayoutInvariant, UNCHANGED settlement,
         \A party \in Nat : Pledged(party)' \subseteq Pledged(party),
         \A w \in Withdrawals : withdrawal[w] # NoRow => Asked'[w] = Asked[w]
  PROVE  PledgedWithinEarned'
<1> SUFFICES ASSUME NEW party \in Nat
             PROVE  SumFunctionOnSet(Asked', Pledged(party)') <= Earned(party)'
  BY DEF PledgedWithinEarned
<1> DEFINE new == Pledged(party)'
           old == Pledged(party)
<1>1. /\ new \subseteq old /\ old \in SUBSET Withdrawals
      /\ \A w \in old : withdrawal[w] # NoRow
  BY DEF Pledged, OfParty
<1>2. SumFunctionOnSet(Asked, old) <= Earned(party)
  BY DEF PayoutInvariant, PledgedWithinEarned
<1>3. PayoutTypeOK
  BY DEF PayoutInvariant
<1>4. Earned(party)' = Earned(party) /\ Earned(party) \in Nat
  <2>1. \A c \in Calculations : Share(c, party) \in Nat
    BY <1>3, ShareIsNatural
  <2> QED
    BY <2>1, EarnedStands, EarnedIsNatural, <1>3
<1> HIDE DEF new, old
<1>5. /\ IsFiniteSet(new)
      /\ SumFunctionOnSet(Asked, new) <= SumFunctionOnSet(Asked, old)
      /\ SumFunctionOnSet(Asked, new) \in Nat /\ SumFunctionOnSet(Asked, old) \in Nat
  BY <1>1, <1>3, SumOfAsked
<1>6. SumFunctionOnSet(Asked', new) = SumFunctionOnSet(Asked, new)
  <2>1. \A w \in new : Asked'[w] = Asked[w]
    BY <1>1
  <2> HIDE DEF Asked
  <2> DEFINE f == Asked
             g == Asked'
  <2>2. \A w \in new : g[w] = f[w]
    BY <2>1
  <2> HIDE DEF f, g
  <2>3. SumFunctionOnSet(g, new) = SumFunctionOnSet(f, new)
    BY <2>2, <1>5, SumSame
  <2> QED
    BY <2>3 DEF f, g
<1> QED
  BY <1>2, <1>4, <1>5, <1>6 DEF new, old

(* Withdrawals leave templates, stations and settlements as they are.       *)
LEMMA WithdrawalsApart ==
  ASSUME PayoutInvariant,
         UNCHANGED <<template, nextRow, station, priced, resolved, settlement>>,
         withdrawal' \in [Withdrawals -> {NoRow} \cup WithdrawalRow],
         call' \in [Withdrawals -> {NoCall} \cup WithdrawalCalls],
         CallsHoldRows', PledgedWithinEarned'
  PROVE  PayoutInvariant'
<1>1. PayoutTypeOK'
  BY DEF PayoutInvariant, PayoutTypeOK, Proper, WithdrawalRow, WithdrawalCalls
<1>2. ReadIsCurrent'
  BY DEF PayoutInvariant, ReadIsCurrent
<1>3. SplitIsFinal'
  BY DEF PayoutInvariant, SplitIsFinal, FairShares
<1> QED
  BY <1>1, <1>2, <1>3 DEF PayoutInvariant

(* The parts of the invariant that the calls of administrators need.        *)
LEMMA WithdrawalsAreTyped ==
  ASSUME PayoutInvariant
  PROVE  /\ withdrawal \in [Withdrawals -> {NoRow} \cup WithdrawalRow]
         /\ call \in [Withdrawals -> {NoCall} \cup WithdrawalCalls]
         /\ PayoutTypeOK /\ CallsHoldRows
BY DEF PayoutInvariant, PayoutTypeOK, WithdrawalRow, WithdrawalCalls

(* A call that is to create a withdrawal pledges nothing.                   *)
LEMMA CreateReadsKeeps ==
  ASSUME PayoutInvariant, NEW w \in Withdrawals, NEW party \in Nat, NEW amount \in Amounts,
         CreateReads(w, party, amount)
  PROVE  PayoutInvariant'
<1> DEFINE wanted == [op |-> "create", party |-> party, amount |-> amount]
<1>1. /\ withdrawal[w] = NoRow /\ call' = [call EXCEPT ![w] = wanted]
      /\ UNCHANGED <<template, nextRow, station, priced, resolved, settlement, withdrawal>>
  BY DEF CreateReads
<1>2. wanted \in WithdrawalCalls /\ wanted.op = "create"
  BY DEF WithdrawalCalls
<1> HIDE DEF wanted
<1>3. /\ call' \in [Withdrawals -> {NoCall} \cup WithdrawalCalls]
      /\ \A v \in Withdrawals : call'[v] = call[v] \/ (v = w /\ call'[v] = wanted)
  BY <1>1, <1>2, WithdrawalsAreTyped
<1>4. CallsHoldRows'
  BY <1>1, <1>2, <1>3, WithdrawalsAreTyped DEF CallsHoldRows
<1>5. \A p \in Nat : Pledged(p)' \subseteq Pledged(p)
  BY <1>1, <1>2, <1>3 DEF Pledged, OfParty
<1>6. Asked' = Asked
  BY <1>1 DEF Asked
<1> QED
  BY <1>1, <1>3, <1>4, <1>5, <1>6, WithdrawalsAreTyped, WithdrawalsApart, FewerPledged

(* A call that is rolled back takes its pledge back, if it made one.        *)
LEMMA CallFailsKeeps ==
  ASSUME PayoutInvariant, NEW w \in Withdrawals, CallFails(w)
  PROVE  PayoutInvariant'
<1>1. /\ call' = [call EXCEPT ![w] = NoCall]
      /\ UNCHANGED <<template, nextRow, station, priced, resolved, settlement, withdrawal>>
  BY DEF CallFails
<1>2. /\ call' \in [Withdrawals -> {NoCall} \cup WithdrawalCalls] /\ NoCall.op = "none"
      /\ \A v \in Withdrawals : call'[v] = call[v] \/ (v = w /\ call'[v] = NoCall)
  BY <1>1, WithdrawalsAreTyped DEF NoCall
<1>3. CallsHoldRows'
  BY <1>1, <1>2, WithdrawalsAreTyped DEF CallsHoldRows
<1>4. \A p \in Nat : Pledged(p)' \subseteq Pledged(p)
  BY <1>1, <1>2 DEF Pledged, OfParty
<1>5. Asked' = Asked
  BY <1>1 DEF Asked
<1> QED
  BY <1>1, <1>2, <1>3, <1>4, <1>5, WithdrawalsAreTyped, WithdrawalsApart, FewerPledged

(* A rejected withdrawal is no longer pledged.                              *)
LEMMA RejectKeeps ==
  ASSUME PayoutInvariant, NEW w \in Withdrawals, Reject(w)
  PROVE  PayoutInvariant'
<1>1. /\ withdrawal[w] # NoRow /\ call[w] = NoCall
      /\ withdrawal' = [withdrawal EXCEPT ![w] = [@ EXCEPT !.status = "rejected"]]
      /\ UNCHANGED <<template, nextRow, station, priced, resolved, settlement, call>>
  BY DEF Reject
<1>2. /\ withdrawal' \in [Withdrawals -> {NoRow} \cup WithdrawalRow]
      /\ \A v \in Withdrawals : v # w => withdrawal'[v] = withdrawal[v]
      /\ withdrawal'[w] # NoRow /\ withdrawal'[w].status = "rejected"
      /\ withdrawal'[w].amount = withdrawal[w].amount
  BY <1>1, WithdrawalsAreTyped DEF WithdrawalRow, NoRow
<1>3. CallsHoldRows'
  BY <1>1, <1>2, WithdrawalsAreTyped DEF CallsHoldRows, NoCall
<1>4. \A p \in Nat : Pledged(p)' \subseteq Pledged(p)
  BY <1>1, <1>2 DEF Pledged, OfParty
<1>5. \A v \in Withdrawals : withdrawal[v] # NoRow => Asked'[v] = Asked[v]
  BY <1>1, <1>2 DEF Asked
<1> QED
  BY <1>1, <1>2, <1>3, <1>4, <1>5, WithdrawalsAreTyped, WithdrawalsApart, FewerPledged

(* A call that has read the row of its withdrawal writes on that row: the    *)
(* approval was pledged when it read, and a payment takes a pledge away.    *)
LEMMA CallWritesKeeps ==
  ASSUME PayoutInvariant, NEW w \in Withdrawals, CallWrites(w)
  PROVE  PayoutInvariant'
<1>1. /\ call[w] # NoCall /\ call' = [call EXCEPT ![w] = NoCall]
      /\ UNCHANGED <<template, nextRow, station, priced, resolved, settlement>>
  BY DEF CallWrites
<1>2. /\ call' \in [Withdrawals -> {NoCall} \cup WithdrawalCalls] /\ NoCall.op = "none"
      /\ \A v \in Withdrawals : v # w => call'[v] = call[v]
      /\ call'[w] = NoCall /\ call[w] \in WithdrawalCalls
  BY <1>1, WithdrawalsAreTyped DEF NoCall
<1>3. call[w].op \in {"create", "approve", "pay"}
  BY <1>2 DEF WithdrawalCalls
<1>4. /\ withdrawal' \in [Withdrawals -> {NoRow} \cup WithdrawalRow]
      /\ \A v \in Withdrawals : v # w => withdrawal'[v] = withdrawal[v]
      /\ \/ /\ withdrawal[w] = NoRow /\ withdrawal'[w].status = "pending"
         \/ /\ withdrawal[w] # NoRow
            /\ withdrawal'[w].amount = withdrawal[w].amount
            /\ withdrawal'[w].party = withdrawal[w].party
            /\ \/ /\ withdrawal[w].status = "pending" /\ call[w].op = "approve"
               \/ withdrawal'[w].status = "paid"
      /\ withdrawal'[w] # NoRow
  <2>1. CASE call[w].op = "create"
    <3> DEFINE row == [party |-> call[w].party, amount |-> call[w].amount, status |-> "pending"]
    <3>1. withdrawal' = [withdrawal EXCEPT ![w] = row] /\ withdrawal[w] = NoRow
      BY <2>1, WithdrawalsAreTyped DEF CallWrites, CallsHoldRows
    <3>2. row \in WithdrawalRow /\ row.status = "pending"
      BY <1>2, <2>1 DEF WithdrawalCalls, WithdrawalRow
    <3>3. row # NoRow
      BY <3>2 DEF NoRow
    <3> HIDE DEF row
    <3> QED
      BY <3>1, <3>2, <3>3, WithdrawalsAreTyped
  <2>2. CASE call[w].op = "approve"
    <3>1. /\ withdrawal' = [withdrawal EXCEPT ![w] = [@ EXCEPT !.status = "approved"]]
          /\ withdrawal[w].status = "pending"
      BY <2>2, WithdrawalsAreTyped DEF CallWrites, CallsHoldRows
    <3> QED
      BY <2>2, <3>1, WithdrawalsAreTyped DEF WithdrawalRow, NoRow
  <2>3. CASE call[w].op = "pay"
    <3>1. /\ withdrawal' = [withdrawal EXCEPT ![w] = [@ EXCEPT !.status = "paid"]]
          /\ withdrawal[w].status = "approved"
      BY <2>3, WithdrawalsAreTyped DEF CallWrites, CallsHoldRows
    <3> QED
      BY <2>3, <3>1, WithdrawalsAreTyped DEF WithdrawalRow, NoRow
  <2> QED
    BY <1>3, <2>1, <2>2, <2>3
<1>5. CallsHoldRows'
  BY <1>1, <1>2, <1>4, WithdrawalsAreTyped DEF CallsHoldRows
<1>6. \A p \in Nat : Pledged(p)' \subseteq Pledged(p)
  BY <1>2, <1>4 DEF Pledged, OfParty
<1>7. \A v \in Withdrawals : withdrawal[v] # NoRow => Asked'[v] = Asked[v]
  BY <1>4 DEF Asked
<1> QED
  BY <1>1, <1>2, <1>4, <1>5, <1>6, <1>7, WithdrawalsAreTyped, WithdrawalsApart, FewerPledged

(* An approval that reads enough of a balance may be pledged: every other   *)
(* pledge of the party is a pending or an approved withdrawal, which the    *)
(* balance it read has already been charged with.                           *)
LEMMA ReviewReadsKeeps ==
  ASSUME PayoutInvariant, NEW w \in Withdrawals, NEW op \in {"approve", "pay"},
         ReviewReads(w, op)
  PROVE  PayoutInvariant'
<1> DEFINE read == [op |-> op]
<1>1. /\ withdrawal[w] # NoRow /\ call[w] = NoCall
      /\ withdrawal[w].status = IF op = "approve" THEN "pending" ELSE "approved"
      /\ AvailableCents(withdrawal[w].party, {w}) >= withdrawal[w].amount
      /\ call' = [call EXCEPT ![w] = read]
      /\ UNCHANGED <<template, nextRow, station, priced, resolved, settlement, withdrawal>>
  BY DEF ReviewReads
<1>2. read \in WithdrawalCalls /\ read.op = op
  BY DEF WithdrawalCalls
<1> HIDE DEF read
<1>3. /\ call' \in [Withdrawals -> {NoCall} \cup WithdrawalCalls]
      /\ \A v \in Withdrawals : call'[v] = call[v] \/ (v = w /\ call'[v] = read)
  BY <1>1, <1>2, WithdrawalsAreTyped
<1>4. CallsHoldRows'
  BY <1>1, <1>2, <1>3, WithdrawalsAreTyped DEF CallsHoldRows
<1>5. Asked' = Asked /\ \A p : Earned(p)' = Earned(p)
  BY <1>1, EarnedStands DEF Asked
<1>6. PledgedWithinEarned'
  <2>0. PICK party \in Nat : party = withdrawal[w].party
    BY <1>1, WithdrawalsAreTyped DEF WithdrawalRow
  <2>1. ASSUME NEW p \in Nat, p # party
        PROVE  Pledged(p)' = Pledged(p)
    BY <1>1, <1>3, <2>0, <2>1 DEF Pledged, OfParty
  <2>2. Pledged(party)' \subseteq Pledged(party) \cup {w}
    BY <1>1, <1>3, <2>0 DEF Pledged, OfParty
  <2>3. withdrawal[w].amount \in Nat \ {0} /\ PayoutTypeOK
    BY <1>1, WithdrawalsAreTyped, PayoutAssumption DEF WithdrawalRow
  <2>4. SumFunctionOnSet(Asked, Pledged(party) \cup {w}) <= Earned(party)
    <3> DEFINE counted == {v \in Withdrawals \ {w} :
                              OfParty(v, party) /\ withdrawal[v].status \in {"pending", "approved"}}
               rest == Pledged(party) \ {w}
               all == Pledged(party) \cup {w}
    <3>1. /\ rest \subseteq counted /\ counted \in SUBSET Withdrawals
          /\ all \in SUBSET Withdrawals /\ all \ {w} = rest /\ w \in all
      BY DEF Pledged
    <3>2. Drawn(party, {"pending", "approved"}, {w}) = SumFunctionOnSet(Asked, counted)
      BY DEF Drawn
    <3> HIDE DEF counted, rest, all
    <3>3. Earned(party) \in Nat /\ Asked[w] = withdrawal[w].amount
      BY <1>1, <2>3, EarnedIsNatural, AskedIsNatural
    <3>4. /\ SumFunctionOnSet(Asked, rest) <= SumFunctionOnSet(Asked, counted)
          /\ SumFunctionOnSet(Asked, rest) \in Nat /\ SumFunctionOnSet(Asked, counted) \in Nat
          /\ SumFunctionOnSet(Asked, all) = Asked[w] + SumFunctionOnSet(Asked, rest)
      BY <2>3, <3>1, SumOfAsked
    <3>5. withdrawal[w].amount <= Earned(party) - SumFunctionOnSet(Asked, counted)
      BY <1>1, <2>0, <2>3, <3>2, <3>3, <3>4 DEF AvailableCents
    <3> QED
      BY <2>3, <3>3, <3>4, <3>5 DEF all
  <2>5. Pledged(party) \cup {w} \in SUBSET Withdrawals
    BY DEF Pledged
  <2>6. SumFunctionOnSet(Asked, Pledged(party)') <= SumFunctionOnSet(Asked, Pledged(party) \cup {w})
        /\ SumFunctionOnSet(Asked, Pledged(party)') \in Nat
        /\ SumFunctionOnSet(Asked, Pledged(party) \cup {w}) \in Nat
    BY <2>2, <2>3, <2>5, SumOfAsked
  <2>7. Earned(party) \in Nat
    BY <2>3, EarnedIsNatural
  <2>8. ASSUME NEW p \in Nat
        PROVE  SumFunctionOnSet(Asked, Pledged(p)') <= Earned(p)
    <3>1. CASE p = party
      BY <2>4, <2>6, <2>7, <3>1
    <3>2. CASE p # party
      BY <2>1, <3>2 DEF PayoutInvariant, PledgedWithinEarned
    <3> QED
      BY <3>1, <3>2
  <2> QED
    BY <1>5, <2>8 DEF PledgedWithinEarned
<1> QED
  BY <1>1, <1>3, <1>4, <1>6, WithdrawalsAreTyped, WithdrawalsApart

-----------------------------------------------------------------------------
(* The theorems.                                                            *)

(* Every step keeps the invariant.                                          *)
LEMMA PayoutKeeps ==
  ASSUME PayoutInvariant, [PayoutNext]_payoutVars
  PROVE  PayoutInvariant'
<1>1. CASE UNCHANGED payoutVars
  <2>1. UNCHANGED <<template, nextRow, station, priced, resolved, settlement, withdrawal, call>>
    BY <1>1 DEF payoutVars
  <2> QED
    BY <2>1, WithdrawalsAreTyped, MoneyKept, WithdrawalsApart
<1>2. ASSUME NEW t \in Templates, NEW mode \in {"mode_a", "mode_b"},
             NEW status \in {"active", "disabled"}, UpdateTemplate(t, mode, status)
      PROVE  PayoutInvariant'
  BY <1>2, TemplatesKeep
<1>3. ASSUME NEW t \in Templates, NEW list \in PartyChoices, ReplaceParties(t, list)
      PROVE  PayoutInvariant'
  BY <1>3, TemplatesKeep
<1>4. ASSUME NEW t \in Templates, NEW s \in Stations, BindTemplate(s, t)
      PROVE  PayoutInvariant'
  BY <1>4, StationsKeep
<1>5. ASSUME NEW s \in Stations, NEW status \in {"active", "disabled"}, SaveStation(s, status)
      PROVE  PayoutInvariant'
  BY <1>5, StationsKeep
<1>6. ASSUME NEW c \in Calculations, Charge(c)
      PROVE  PayoutInvariant'
  BY <1>6, StationsKeep, PayoutAssumption
<1>7. ASSUME NEW c \in Calculations, Resolve(c) \/ Settle(c) \/ PayOutSettlement(c)
      PROVE  PayoutInvariant'
  BY <1>7, ResolveKeeps, SettleKeeps, PayOutKeeps
<1>8. ASSUME NEW w \in Withdrawals, NEW party \in 0..(nextRow - 1), NEW amount \in Amounts,
             CreateReads(w, party, amount)
      PROVE  PayoutInvariant'
  <2>1. party \in Nat
    BY DEF PayoutInvariant, PayoutTypeOK
  <2> QED
    BY <1>8, <2>1, CreateReadsKeeps
<1>9. ASSUME NEW w \in Withdrawals, NEW op \in {"approve", "pay"}, ReviewReads(w, op)
      PROVE  PayoutInvariant'
  BY <1>9, ReviewReadsKeeps
<1>10. ASSUME NEW w \in Withdrawals, CallWrites(w) \/ CallFails(w) \/ Reject(w)
       PROVE  PayoutInvariant'
  BY <1>10, CallWritesKeeps, CallFailsKeeps, RejectKeeps
<1> QED
  BY <1>1, <1>2, <1>3, <1>4, <1>5, <1>6, <1>7, <1>8, <1>9, <1>10 DEF PayoutNext

(* Everything the steps of the back office keep together, whatever the      *)
(* number of parties, charges and withdrawals, and however the calls of the *)
(* administrators overlap.                                                  *)
THEOREM PayoutInvariance == PayoutSpec => []PayoutInvariant
<1>1. PayoutInit => PayoutInvariant
  BY PayoutStarts
<1>2. PayoutInvariant /\ [PayoutNext]_payoutVars => PayoutInvariant'
  BY PayoutKeeps
<1> QED
  BY <1>1, <1>2, PTL DEF PayoutSpec

(* A settlement stands as it was made: the template it was made with stays  *)
(* bound to its station and as it was, and the shares of the parties add up *)
(* to the fee, each within one cent of its ratio.                           *)
THEOREM SplitsStand == PayoutSpec => []SplitIsFinal
BY PayoutInvariance, PTL DEF PayoutInvariant

(* The withdrawals of a party that are approved never add up to more than   *)
(* it has earned, because an approval counts from the moment it has read    *)
(* the balance.                                                             *)
THEOREM ApprovedIsEarned == PayoutSpec => []ApprovedWithinEarned
<1>1. PayoutInvariant => ApprovedWithinEarned
  <2> SUFFICES ASSUME PayoutInvariant, NEW party \in Parties
               PROVE  Drawn(party, {"approved"}, {}) <= Earned(party)
    BY DEF ApprovedWithinEarned
  <2>1. party \in Nat /\ PayoutTypeOK
    BY DEF PayoutInvariant, PayoutTypeOK, Parties
  <2> DEFINE approved == {w \in Withdrawals \ {} :
                             OfParty(w, party) /\ withdrawal[w].status \in {"approved"}}
  <2>2. approved \subseteq Pledged(party) /\ Pledged(party) \in SUBSET Withdrawals
    BY DEF Pledged
  <2>3. Drawn(party, {"approved"}, {}) = SumFunctionOnSet(Asked, approved)
    BY DEF Drawn
  <2> HIDE DEF approved
  <2>4. /\ SumFunctionOnSet(Asked, approved) <= SumFunctionOnSet(Asked, Pledged(party))
        /\ SumFunctionOnSet(Asked, Pledged(party)) <= Earned(party)
    BY <2>1, <2>2, SumOfAsked DEF PayoutInvariant, PledgedWithinEarned
  <2>5. /\ SumFunctionOnSet(Asked, approved) \in Nat
        /\ SumFunctionOnSet(Asked, Pledged(party)) \in Nat /\ Earned(party) \in Nat
    <3>1. approved \in SUBSET Withdrawals
      BY <2>2
    <3> QED
      BY <2>1, <2>2, <3>1, SumOfAsked, EarnedIsNatural
  <2> QED
    BY <2>3, <2>4, <2>5
<1> QED
  BY <1>1, PayoutInvariance, PTL

-----------------------------------------------------------------------------
(***************************************************************************)
(* The daily reconciliation.  The difference of two sums is the sum of the *)
(* differences, and those that are not listed are zero.                    *)
(***************************************************************************)
IsAmounts(f) == IsFiniteSet(DOMAIN f) /\ f \in [DOMAIN f -> Int]

ReconcileTypeOK ==
  /\ DOMAIN books = Refs /\ \A r \in Refs : books[r].cents \in Int
  /\ DOMAIN comparison = Runs
  /\ \A c \in Runs : comparison[c].at = "compared" =>
       IsAmounts(comparison[c].internal) /\ comparison[c].report \in Reports
  /\ IsAmounts(log.internal) /\ IsAmounts(log.channel)
  /\ log = [internal |-> log.internal, channel |-> log.channel, diffs |-> log.diffs,
            cents |-> log.cents, resolved |-> log.resolved]

ReconcileInvariant == ReconcileTypeOK /\ DiffIsDifference

\* References without an amount add nothing.
LEMMA PaddedTotal ==
  ASSUME NEW F, IsAmounts(F), NEW U, IsFiniteSet(U), DOMAIN F \subseteq U,
         NEW p, \A ref \in U : p[ref] = Cents_(F, ref)
  PROVE  SumFunctionOnSet(p, U) = Total(F)
<1> DEFINE R == U \ DOMAIN F
<1>1. \A ref \in DOMAIN F : p[ref] = F[ref] /\ F[ref] \in Int
  BY DEF Cents_, IsAmounts
<1>2. \A ref \in R : p[ref] = 0
  BY DEF Cents_
<1>3. IsFiniteSet(DOMAIN F) /\ IsFiniteSet(R) /\ U = DOMAIN F \cup R /\ DOMAIN F \cap R = {}
  BY FS_Difference DEF IsAmounts
<1> HIDE DEF R
<1>4. SumFunctionOnSet(p, DOMAIN F) = SumFunctionOnSet(F, DOMAIN F)
  BY <1>1, <1>3, SumSame
<1>5. SumFunctionOnSet(p, R) = 0
  BY <1>2, <1>3, SumZero
<1>6. SumFunctionOnSet(p, DOMAIN F \cup R) = SumFunctionOnSet(p, DOMAIN F) + SumFunctionOnSet(p, R)
  <2>1. \A ref \in DOMAIN F \cup R : p[ref] \in Int
    BY <1>1, <1>2
  <2> QED
    BY <1>3, <2>1, SumUnion
<1>7. SumFunctionOnSet(F, DOMAIN F) \in Int
  BY <1>1, <1>3, SumInt
<1> QED
  BY <1>3, <1>4, <1>5, <1>6, <1>7 DEF Total, SumFunction

\* What a comparison finds is what is different.
LEMMA ComparisonIsTrue ==
  ASSUME NEW I, IsAmounts(I), NEW C, IsAmounts(C)
  PROVE  /\ Compare(I, C).cents = Total(C) - Total(I)
         /\ \A ref \in (DOMAIN I \cup DOMAIN C) \ Compare(I, C).diffs :
              Cents_(I, ref) = Cents_(C, ref)
         /\ \A ref \in Compare(I, C).diffs : ref \in DOMAIN I => I[ref] # Cents_(C, ref)
<1> DEFINE U == DOMAIN I \cup DOMAIN C
           D == {ref \in DOMAIN I : Cents_(C, ref) # I[ref]} \cup (DOMAIN C \ DOMAIN I)
           diff == [ref \in D |-> Cents_(C, ref) - Cents_(I, ref)]
           all == [ref \in U |-> Cents_(C, ref) - Cents_(I, ref)]
           pi == [ref \in U |-> Cents_(I, ref)]
           pc == [ref \in U |-> Cents_(C, ref)]
<1>1. Compare(I, C).diffs = D /\ Compare(I, C).cents = Total(diff)
  BY DEF Compare
<1>2. IsFiniteSet(U) /\ D \subseteq U /\ IsFiniteSet(D) /\ IsFiniteSet(U \ D)
  <2>1. IsFiniteSet(U)
    BY FS_Union DEF IsAmounts
  <2> QED
    BY <2>1, FS_Subset
<1>3. \A ref \in U : Cents_(I, ref) \in Int /\ Cents_(C, ref) \in Int
  BY DEF Cents_, IsAmounts
<1>4. \A ref \in U \ D : Cents_(C, ref) = Cents_(I, ref)
  BY DEF Cents_
<1>5. \A ref \in D : ref \in DOMAIN I => I[ref] # Cents_(C, ref)
  OBVIOUS
<1>6. SumFunctionOnSet(pi, U) = Total(I) /\ SumFunctionOnSet(pc, U) = Total(C)
  <2>1. \A ref \in U : pi[ref] = Cents_(I, ref) /\ pc[ref] = Cents_(C, ref)
    OBVIOUS
  <2>2. DOMAIN I \subseteq U /\ DOMAIN C \subseteq U
    OBVIOUS
  <2> HIDE DEF U, pi, pc
  <2> QED
    BY <1>2, <2>1, <2>2, PaddedTotal
<1>7. SumFunctionOnSet(pc, U) = SumFunctionOnSet(pi, U) + SumFunctionOnSet(all, U)
  <2>1. \A ref \in U : pi[ref] \in Int /\ all[ref] \in Int /\ pc[ref] = pi[ref] + all[ref]
    BY <1>3
  <2> HIDE DEF U, pi, pc, all
  <2> QED
    BY <1>2, <2>1, SumPlus
<1>8. SumFunctionOnSet(all, U) = SumFunctionOnSet(diff, D)
  <2>1. \A ref \in D : all[ref] = diff[ref] /\ all[ref] \in Int
    BY <1>2, <1>3
  <2>2. \A ref \in U \ D : all[ref] = 0
    BY <1>3, <1>4
  <2>3. U = D \cup (U \ D) /\ D \cap (U \ D) = {}
    BY <1>2
  <2>4. DOMAIN diff = D
    OBVIOUS
  <2> HIDE DEF U, D, diff, all
  <2>5. SumFunctionOnSet(all, D \cup (U \ D)) = SumFunctionOnSet(all, D) + SumFunctionOnSet(all, U \ D)
    <3>1. \A ref \in D \cup (U \ D) : all[ref] \in Int
      BY <2>1, <2>2
    <3> QED
      BY <1>2, <2>3, <3>1, SumUnion
  <2>6. SumFunctionOnSet(all, D) = SumFunctionOnSet(diff, D)
    BY <1>2, <2>1, SumSame
  <2>7. SumFunctionOnSet(all, U \ D) = 0
    BY <1>2, <2>2, SumZero
  <2>8. SumFunctionOnSet(all, D) \in Int
    BY <1>2, <2>1, SumInt
  <2> QED
    BY <2>3, <2>5, <2>6, <2>7, <2>8
<1>9. Total(diff) = SumFunctionOnSet(diff, D)
  BY DEF Total, SumFunction
<1>10. Total(I) \in Int /\ Total(C) \in Int /\ SumFunctionOnSet(all, U) \in Int
  <2>1. \A ref \in U : all[ref] \in Int
    BY <1>3
  <2>2. \A ref \in DOMAIN I : I[ref] \in Int
    BY DEF IsAmounts
  <2>3. \A ref \in DOMAIN C : C[ref] \in Int
    BY DEF IsAmounts
  <2> HIDE DEF U, all
  <2> QED
    BY <1>2, <2>1, <2>2, <2>3, SumInt DEF Total, SumFunction, IsAmounts
<1>11. Total(diff) = Total(C) - Total(I)
  <2> HIDE DEF U, D, diff, all, pi, pc
  <2> QED
    BY <1>6, <1>7, <1>8, <1>9, <1>10
<1> HIDE DEF diff, all, pi, pc
<1>12. \A ref \in (DOMAIN I \cup DOMAIN C) \ D : Cents_(I, ref) = Cents_(C, ref)
  BY <1>4
<1> HIDE DEF D
<1> QED
  BY <1>1, <1>5, <1>11, <1>12

\* What a channel reports adds up to an amount for each reference.
LEMMA ChannelAmounts ==
  ASSUME NEW report \in Reports
  PROVE  IsAmounts(Channel(report))
<1> DEFINE rows(ref) == {i \in DOMAIN report : report[i].ref = ref}
           cents == [i \in DOMAIN report |-> report[i].cents]
           refs == {report[i].ref : i \in DOMAIN report}
<1>1. IsFiniteSet(DOMAIN report)
  BY ReconcileConstants
<1>2. IsFiniteSet(refs)
  <2> DEFINE name == [i \in DOMAIN report |-> report[i].ref]
  <2>1. name \in Surjection(DOMAIN report, refs)
    BY DEF Surjection
  <2> HIDE DEF name, refs
  <2> QED
    BY <1>1, <2>1, FS_Surjection
<1>3. ASSUME NEW ref PROVE SumFunctionOnSet(cents, rows(ref)) \in Int
  <2>1. IsFiniteSet(rows(ref))
    BY <1>1, FS_Subset
  <2>2. \A i \in rows(ref) : cents[i] \in Int
    BY ReconcileConstants
  <2> HIDE DEF rows, cents
  <2> QED
    BY <2>1, <2>2, SumInt
<1>4. Channel(report) = [ref \in refs |-> SumFunctionOnSet(cents, rows(ref))]
  BY DEF Channel
<1> HIDE DEF refs, rows, cents
<1> QED
  BY <1>2, <1>3, <1>4 DEF IsAmounts

\* At the start nothing is compared, and the invariant holds.
LEMMA ReconcileStarts == ReconcileInit => ReconcileInvariant
<1> SUFFICES ASSUME ReconcileInit PROVE ReconcileInvariant
  OBVIOUS
<1>1. IsAmounts(<<>>) /\ Total(<<>>) = 0
  <2>1. DOMAIN <<>> = {} /\ <<>> \in [{} -> Int]
    OBVIOUS
  <2> QED
    BY <2>1, SumEmpty, FS_EmptySet DEF IsAmounts, Total, SumFunction
<1>2. log.internal = <<>> /\ log.channel = <<>> /\ log.cents = 0 /\ log.diffs = {}
  BY DEF ReconcileInit, NoResult
<1>3. DiffIsDifference
  BY <1>1, <1>2 DEF DiffIsDifference
<1>4. ReconcileTypeOK
  BY <1>1, <1>2 DEF ReconcileInit, ReconcileTypeOK, NoResult, NoEntry, NotRunning
<1> QED
  BY <1>3, <1>4 DEF ReconcileInvariant

\* Every step of the reconciliation keeps the invariant: a run writes the
\* comparison of what it read.
LEMMA ReconcileKept ==
  ASSUME ReconcileInvariant, [ReconcileNext]_reconcileVars
  PROVE  ReconcileInvariant'
<1>0. ReconcileTypeOK /\ DiffIsDifference
  BY DEF ReconcileInvariant
<1>1. ASSUME NEW r \in Refs, BooksMove(r)
      PROVE  ReconcileInvariant'
  <2>1. UNCHANGED <<comparison, log>> /\ DOMAIN books' = Refs
        /\ \A q \in Refs : books'[q].cents \in Int
    BY <1>0, <1>1, ReconcileConstants DEF BooksMove, ReconcileTypeOK
  <2> QED
    BY <1>0, <2>1 DEF ReconcileInvariant, ReconcileTypeOK, DiffIsDifference
<1>2. ASSUME NEW c \in Runs, NEW report \in Reports, RunReconcile(c, report)
      PROVE  ReconcileInvariant'
  <2>1. IsAmounts(Internal)
    BY <1>0, ReconcileConstants, FS_Subset DEF Internal, IsAmounts, ReconcileTypeOK
  <2>2. /\ comparison' = [comparison EXCEPT ![c] =
                      [at |-> "compared", report |-> report, internal |-> Internal]]
        /\ UNCHANGED <<books, log>>
    BY <1>2 DEF RunReconcile
  <2> QED
    BY <1>0, <2>1, <2>2 DEF ReconcileInvariant, ReconcileTypeOK, DiffIsDifference
<1>3. ASSUME NEW c \in Runs, ReconcileType(c)
      PROVE  ReconcileInvariant'
  <2> DEFINE I == comparison[c].internal
             C == Channel(comparison[c].report)
  <2>1. IsAmounts(I) /\ IsAmounts(C)
    BY <1>0, <1>3, ChannelAmounts DEF ReconcileType, ReconcileTypeOK
  <2>2. /\ log' = [internal |-> I, channel |-> C, diffs |-> Compare(I, C).diffs,
                   cents |-> Compare(I, C).cents, resolved |-> FALSE]
        /\ comparison' = [comparison EXCEPT ![c] = NotRunning]
        /\ UNCHANGED books
    BY <1>3 DEF ReconcileType
  <2> HIDE DEF I, C
  <2>3. DiffIsDifference'
    BY <2>1, <2>2, ComparisonIsTrue DEF DiffIsDifference
  <2>4. ReconcileTypeOK'
    BY <1>0, <2>1, <2>2 DEF ReconcileTypeOK, NotRunning
  <2> QED
    BY <2>3, <2>4 DEF ReconcileInvariant
<1>4. ASSUME ResolveReconcile
      PROVE  ReconcileInvariant'
  <2>1. PICK solved \in BOOLEAN : log' = [log EXCEPT !.resolved = solved]
    BY <1>4 DEF ResolveReconcile
  <2>2. /\ log'.internal = log.internal /\ log'.channel = log.channel
        /\ log'.diffs = log.diffs /\ log'.cents = log.cents
        /\ log' = [internal |-> log'.internal, channel |-> log'.channel, diffs |-> log'.diffs,
                   cents |-> log'.cents, resolved |-> log'.resolved]
    BY <1>0, <2>1 DEF ReconcileTypeOK
  <2>3. UNCHANGED <<books, comparison>>
    BY <1>4 DEF ResolveReconcile
  <2> QED
    BY <1>0, <2>2, <2>3 DEF ReconcileInvariant, ReconcileTypeOK, DiffIsDifference
<1>5. CASE UNCHANGED reconcileVars
  BY <1>0, <1>5 DEF reconcileVars, ReconcileInvariant, ReconcileTypeOK, DiffIsDifference
<1> QED
  BY <1>1, <1>2, <1>3, <1>4, <1>5 DEF ReconcileNext

\* The invariant holds in every behaviour of the reconciliation.
THEOREM ReconcileInvariance == ReconcileSpec => []ReconcileInvariant
<1>1. ReconcileInvariant /\ [ReconcileNext]_reconcileVars => ReconcileInvariant'
  BY ReconcileKept
<1> QED
  BY ReconcileStarts, <1>1, PTL DEF ReconcileSpec

(* The difference on record is what the channel has less what the books    *)
(* have (finance_ops.go:146, 224-248).                                     *)
THEOREM DiffIsAlwaysDifference == ReconcileSpec => []DiffIsDifference
<1>1. ReconcileInvariant => DiffIsDifference
  BY DEF ReconcileInvariant
<1> QED
  BY ReconcileInvariance, <1>1, PTL

-----------------------------------------------------------------------------
(***************************************************************************)
(* Coupons.  A transaction that has granted by a rule holds its row, found *)
(* room when it counted, and nobody else adds a grant of that rule before  *)
(* it commits.  The snapshot of a settlement is no older than the last     *)
(* grant by a rule of its kind, if one settlement runs at a time.          *)
(***************************************************************************)
Jobs == [rule : Rules, coupon : Coupons]
Grants == {GrantOf(t, job) : t \in Calls, job \in Jobs} \union {HandGrant(t) : t \in Calls}

TxRow == [state : {"idle", "open", "done"}, seen : SUBSET Grants, own : SUBSET Grants,
          todo : SUBSET Jobs, rules : SUBSET Rules, coupons : SUBSET Coupons]

GrantTypeOK ==
    /\ rule \in [Rules -> [max : Nat, perUser : Nat, coupon : Coupons, active : BOOLEAN]]
    /\ granted \subseteq Grants /\ IsFiniteSet(granted)
    /\ tx \in [Calls -> TxRow]
    /\ \A t \in Calls : IsFiniteSet(tx[t].seen) /\ IsFiniteSet(tx[t].own)

\* What a transaction has inserted, and the rows it holds for it.
OwnIsHeld ==
    \A t \in Calls :
        /\ tx[t].state # "open" =>
             tx[t].own = {} /\ tx[t].todo = {} /\ tx[t].rules = {} /\ tx[t].coupons = {}
        /\ \A r \in tx[t].rules : TriggeredBy[r] = KindOf[t]
        /\ \A job \in tx[t].todo : TriggeredBy[job.rule] = KindOf[t] /\ job.rule \notin tx[t].rules
        /\ \A i, j \in tx[t].todo : i.rule = j.rule => i = j
        /\ \A g \in tx[t].own :
             \/ \E job \in Jobs : job.rule \in tx[t].rules /\ g = GrantOf(t, job)
             \/ g = HandGrant(t) /\ KindOf[t] = "manual" /\ GivenBy[t] \in tx[t].coupons

\* A row is held by one transaction.
LocksExclude ==
    \A s, t \in Calls : s # t =>
        tx[s].rules \cap tx[t].rules = {} /\ tx[s].coupons \cap tx[t].coupons = {}

\* One settlement is open, and sees every grant of the rules it comes to.
SettlementSees ==
    /\ \A s, t \in Open("order") : s = t
    /\ \A t \in Open("order") : \A r \in Rules :
         TriggeredBy[r] = "order" => ByRule(granted, r) \subseteq tx[t].seen

\* There is room for one more grant of the job.
RoomFor(t, job) ==
    /\ rule[job.rule].max > 0 =>
         Cardinality(Given(granted, job.rule, job.coupon)) < rule[job.rule].max
    /\ Cardinality(OfUser(Given(granted, job.rule, job.coupon), job.coupon, UserOf[t]))
         < rule[job.rule].perUser

\* A grant not yet committed fits within what its rule allows.
RoomForRule ==
    \A t \in Calls : \A job \in Jobs :
        job.rule \in tx[t].rules /\ GrantOf(t, job) \in tx[t].own => RoomFor(t, job)

\* A grant by hand not yet committed fits within what its coupon allows.
RoomByHand ==
    \A t \in Calls : KindOf[t] = "manual" /\ HandGrant(t) \in tx[t].own =>
        /\ Quota[GivenBy[t]].total > 0 =>
             Cardinality(ByHand(granted, GivenBy[t])) < Quota[GivenBy[t]].total
        /\ Cardinality(OfUser(ByHand(granted, GivenBy[t]), GivenBy[t], UserOf[t]))
             < Quota[GivenBy[t]].perUser
        /\ \A g \in granted : g.source = "manual" => g.request # HandGrant(t).request
        /\ \A s \in Calls \ {t} : HandGrant(s) \in tx[s].own =>
             HandGrant(s).request # HandGrant(t).request

GrantInvariant ==
    /\ GrantTypeOK /\ OwnIsHeld /\ LocksExclude /\ SettlementSees
    /\ RoomForRule /\ RoomByHand
    /\ \A coupon \in Coupons : QuotaKept(granted, coupon)

-----------------------------------------------------------------------------

\* A part of a finite set has no more elements.
LEMMA SmallerSet ==
  ASSUME NEW S, IsFiniteSet(S), NEW T \in SUBSET S
  PROVE  /\ IsFiniteSet(T) /\ Cardinality(T) \in Nat /\ Cardinality(S) \in Nat
         /\ Cardinality(T) <= Cardinality(S)
BY FS_Subset, FS_CardinalityType

\* With one more element a set has at most one element more.
LEMMA OneMore ==
  ASSUME NEW S, IsFiniteSet(S), NEW x, NEW T \in SUBSET (S \union {x})
  PROVE  /\ IsFiniteSet(T) /\ Cardinality(T) \in Nat /\ Cardinality(S) \in Nat
         /\ Cardinality(T) <= Cardinality(S) + 1
<1>1. IsFiniteSet(S \union {x}) /\ Cardinality(S \union {x}) <= Cardinality(S) + 1
  <2>1. Cardinality(S) \in Nat
    BY FS_CardinalityType
  <2>2. CASE x \in S
    <3>1. S \union {x} = S
      BY <2>2
    <3>2. IsFiniteSet(S \union {x}) /\ Cardinality(S \union {x}) = Cardinality(S)
      BY <3>1, Zenon
    <3> QED
      BY <2>1, <3>2
  <2>3. CASE x \notin S
    <3>1. IsFiniteSet(S \union {x}) /\ Cardinality(S \union {x}) = Cardinality(S) + 1
      BY <2>3, FS_AddElement, Zenon
    <3> QED
      BY <2>1, <3>1
  <2> QED
    BY <2>2, <2>3
<1> QED
  BY <1>1, FS_Subset, FS_CardinalityType

\* The fields of the grants a call can make.
LEMMA GrantNames ==
  ASSUME NEW t \in Calls
  PROVE  /\ HandGrant(t) \in Grants /\ HandGrant(t).source = "manual"
         /\ HandGrant(t).coupon = GivenBy[t] /\ HandGrant(t).user = UserOf[t]
         /\ \A job \in Jobs :
              /\ GrantOf(t, job) \in Grants /\ GrantOf(t, job).source = "activity"
              /\ GrantOf(t, job).request[2] = job.rule
              /\ GrantOf(t, job).coupon = job.coupon
              /\ GrantOf(t, job).user = UserOf[t]
<1>1. /\ HandGrant(t).source = "manual"
      /\ HandGrant(t).coupon = GivenBy[t] /\ HandGrant(t).user = UserOf[t]
  BY DEF HandGrant
<1>2. \A job \in Jobs :
        /\ GrantOf(t, job).source = "activity" /\ GrantOf(t, job).request[2] = job.rule
        /\ GrantOf(t, job).coupon = job.coupon /\ GrantOf(t, job).user = UserOf[t]
  BY DEF GrantOf
<1>3. HandGrant(t) \in Grants /\ \A job \in Jobs : GrantOf(t, job) \in Grants
  BY DEF Grants
<1> QED
  BY <1>1, <1>2, <1>3

\* At the start nothing is granted and no transaction is open, and the
\* invariant holds.
LEMMA GrantStarts == GrantInit => GrantInvariant
<1> SUFFICES ASSUME GrantInit PROVE GrantInvariant
  OBVIOUS
<1>1. /\ granted = {} /\ \A t \in Calls : tx[t] = Idle
      /\ tx = [t \in Calls |-> Idle]
  BY DEF GrantInit
<1>2. rule \in [Rules -> [max : Nat, perUser : Nat, coupon : Coupons, active : BOOLEAN]]
  <2>1. PICK first : /\ \A r \in Rules : first[r] \in Settings[r]
                     /\ rule = [r \in Rules |-> RuleRow(first[r], TRUE)]
    BY DEF GrantInit
  <2>2. \A r \in Rules : first[r] \in [max : Nat, perUser : Nat \ {0}, coupon : Coupons]
    BY <2>1, CouponGrantAssumption
  <2> QED
    BY <2>1, <2>2 DEF RuleRow
<1>3. GrantTypeOK
  BY <1>1, <1>2, FS_EmptySet DEF GrantTypeOK, TxRow, Idle
<1>4. OwnIsHeld /\ LocksExclude /\ SettlementSees /\ RoomForRule /\ RoomByHand
  BY <1>1 DEF OwnIsHeld, LocksExclude, SettlementSees, RoomForRule, RoomByHand, Idle, Open
<1>5. ASSUME NEW coupon \in Coupons PROVE QuotaKept(granted, coupon)
  <2>1. ByHand(granted, coupon) = {} /\ \A u : OfUser({}, coupon, u) = {}
    BY <1>1 DEF ByHand, OfUser
  <2>2. Quota[coupon].total \in Nat /\ Quota[coupon].perUser \in Nat
    BY CouponGrantAssumption
  <2> QED
    BY <2>1, <2>2, FS_EmptySet DEF QuotaKept
<1> QED
  BY <1>3, <1>4, <1>5 DEF GrantInvariant

\* The parts of the invariant.
LEMMA GrantParts ==
  ASSUME GrantInvariant
  PROVE  /\ GrantTypeOK /\ OwnIsHeld /\ LocksExclude /\ SettlementSees
         /\ RoomForRule /\ RoomByHand
         /\ \A coupon \in Coupons : QuotaKept(granted, coupon)
BY DEF GrantInvariant

\* A step of one transaction that takes and inserts nothing new.
LEMMA LessIsKept ==
  ASSUME GrantInvariant, NEW t \in Calls, UNCHANGED <<rule, granted>>,
         tx' \in [Calls -> TxRow],
         \A s \in Calls \ {t} : tx'[s] = tx[s],
         tx'[t].own \subseteq tx[t].own, tx'[t].seen \subseteq tx[t].seen,
         tx'[t].rules \subseteq tx[t].rules, tx'[t].todo \subseteq tx[t].todo,
         tx'[t].coupons \subseteq tx[t].coupons,
         \/ tx'[t] = Idle
         \/ tx'[t].own = tx[t].own /\ tx'[t].seen = tx[t].seen /\ tx'[t].rules = tx[t].rules
            /\ tx'[t].coupons = tx[t].coupons /\ tx'[t].state = tx[t].state
  PROVE  GrantInvariant'
<1>0. /\ GrantTypeOK /\ OwnIsHeld /\ LocksExclude /\ SettlementSees
      /\ RoomForRule /\ RoomByHand /\ \A coupon \in Coupons : QuotaKept(granted, coupon)
  BY GrantParts
<1>1. GrantTypeOK'
  BY <1>0, SmallerSet DEF GrantTypeOK
<1>2. OwnIsHeld'
  BY <1>0 DEF OwnIsHeld, Idle
<1>3. LocksExclude'
  BY <1>0 DEF LocksExclude
<1>4. SettlementSees'
  BY <1>0 DEF SettlementSees, Open, Idle
<1>5. RoomForRule'
  BY <1>0 DEF RoomForRule, RoomFor
<1>6. RoomByHand'
  BY <1>0 DEF RoomByHand
<1> QED
  BY <1>0, <1>1, <1>2, <1>3, <1>4, <1>5, <1>6 DEF GrantInvariant

\* An activity grant a transaction has inserted is by a rule it holds.
LEMMA OwnByRule ==
  ASSUME GrantInvariant, NEW t \in Calls, NEW g \in tx[t].own
  PROVE  /\ g \in Grants
         /\ g.source = "activity" =>
              /\ g.request[2] \in tx[t].rules /\ [rule |-> g.request[2], coupon |-> g.coupon] \in Jobs
              /\ g = GrantOf(t, [rule |-> g.request[2], coupon |-> g.coupon])
         /\ g.source = "manual" =>
              g = HandGrant(t) /\ KindOf[t] = "manual" /\ GivenBy[t] \in tx[t].coupons
<1>1. tx[t].own \subseteq Grants /\ tx[t].rules \subseteq Rules
  BY GrantParts DEF GrantTypeOK, TxRow
<1>2. \/ \E job \in Jobs : job.rule \in tx[t].rules /\ g = GrantOf(t, job)
      \/ g = HandGrant(t) /\ KindOf[t] = "manual" /\ GivenBy[t] \in tx[t].coupons
  BY GrantParts DEF OwnIsHeld
<1>3. \A job \in Jobs : job = [rule |-> job.rule, coupon |-> job.coupon]
  BY DEF Jobs
<1> QED
  BY <1>1, <1>2, <1>3, GrantNames

\* What a transaction is once it holds the row of a rule.
LEMMA HoldingFields ==
  ASSUME GrantTypeOK, NEW t \in Calls, NEW job \in Jobs, NEW own \in SUBSET Grants,
         tx' = [tx EXCEPT ![t] = Holding(t, job, own)]
  PROVE  /\ tx'[t].state = tx[t].state /\ tx'[t].seen = tx[t].seen /\ tx'[t].coupons = tx[t].coupons
         /\ tx'[t].todo = tx[t].todo \ {job} /\ tx'[t].rules = tx[t].rules \union {job.rule}
         /\ tx'[t].own = own
         /\ \A s \in Calls \ {t} : tx'[s] = tx[s]
         /\ tx' \in [Calls -> TxRow]
<1>1. tx[t] \in TxRow
  BY DEF GrantTypeOK
<1>2. Holding(t, job, own) = [state |-> tx[t].state, seen |-> tx[t].seen, own |-> own,
          todo |-> tx[t].todo \ {job}, rules |-> tx[t].rules \union {job.rule},
          coupons |-> tx[t].coupons]
  BY DEF Holding
<1>3. Holding(t, job, own) \in TxRow
  BY <1>1, <1>2 DEF TxRow, Jobs
<1>4. tx'[t] = Holding(t, job, own) /\ \A s \in Calls \ {t} : tx'[s] = tx[s]
  BY DEF GrantTypeOK
<1>5. tx' \in [Calls -> TxRow]
  BY <1>3 DEF GrantTypeOK
<1> QED
  BY <1>2, <1>4, <1>5

\* What a transaction sees includes what the rule has granted.
LEMMA CountIsEnough ==
  ASSUME GrantInvariant, NEW t \in Calls, NEW job \in tx[t].todo, Within(t, job)
  PROVE  RoomFor(t, job)
<1> DEFINE r == job.rule
           k == job.coupon
<1>0. GrantTypeOK /\ OwnIsHeld /\ SettlementSees /\ r \in Rules
  BY GrantParts DEF GrantTypeOK, TxRow, Jobs
<1>1. rule[r].max \in Nat /\ rule[r].perUser \in Nat
  BY <1>0 DEF GrantTypeOK
<1>2. ByRule(granted, r) \subseteq View(t)
  <2>1. tx[t].state = "open" /\ TriggeredBy[r] = KindOf[t]
    BY <1>0 DEF OwnIsHeld, GrantTypeOK, TxRow
  <2>2. CASE KindOf[t] = "recharge"
    BY <2>2 DEF View, ByRule
  <2>3. CASE KindOf[t] = "order"
    BY <1>0, <2>1, <2>3 DEF View, SettlementSees, Open
  <2> QED
    BY <1>0, <2>1, <2>2, <2>3, CouponGrantAssumption
<1>3. \A g \in Given(granted, r, k) :
        g \in ByRule(granted, r) /\ g.coupon = k /\ g.source = "activity"
  BY DEF Given, ByRule
<1>4. IsFiniteSet(View(t))
  BY <1>0, FS_Union DEF View, GrantTypeOK
<1> DEFINE all == OfActivity(View(t), k)
           users == OfUser(View(t), k, UserOf[t])
<1>5. /\ IsFiniteSet(all) /\ IsFiniteSet(users)
      /\ Given(granted, r, k) \subseteq all
      /\ OfUser(Given(granted, r, k), k, UserOf[t]) \subseteq users
  BY <1>2, <1>3, <1>4, FS_Subset DEF OfActivity, OfUser
<1>6. /\ rule[r].max > 0 => Cardinality(all) < rule[r].max
      /\ Cardinality(users) < rule[r].perUser
  BY DEF Within
<1>7. RoomFor(t, job) <=>
        /\ rule[r].max > 0 => Cardinality(Given(granted, r, k)) < rule[r].max
        /\ Cardinality(OfUser(Given(granted, r, k), k, UserOf[t])) < rule[r].perUser
  BY DEF RoomFor
<1> HIDE DEF r, k, all, users
<1> QED
  BY <1>1, <1>5, <1>6, <1>7, SmallerSet

\* A transaction comes to a rule: it holds its row from then on, and inserts a
\* grant only where it counted room.
LEMMA RuleTaken ==
  ASSUME GrantInvariant, NEW t \in Calls, NEW job \in tx[t].todo, FreeRule(job.rule),
         UNCHANGED <<rule, granted>>, tx' \in [Calls -> TxRow],
         \A s \in Calls \ {t} : tx'[s] = tx[s],
         tx'[t].state = tx[t].state, tx'[t].seen = tx[t].seen, tx'[t].coupons = tx[t].coupons,
         tx'[t].todo = tx[t].todo \ {job}, tx'[t].rules = tx[t].rules \union {job.rule},
         \/ tx'[t].own = tx[t].own
         \/ tx'[t].own = tx[t].own \union {GrantOf(t, job)} /\ Within(t, job)
  PROVE  GrantInvariant'
<1>0. /\ GrantTypeOK /\ OwnIsHeld /\ LocksExclude /\ SettlementSees
      /\ RoomForRule /\ RoomByHand /\ \A coupon \in Coupons : QuotaKept(granted, coupon)
  BY GrantParts
<1>r. /\ job \in Jobs /\ job.rule \in Rules /\ job.rule \notin tx[t].rules
      /\ tx[t].state = "open" /\ TriggeredBy[job.rule] = KindOf[t]
      /\ \A other \in tx[t].todo : other.rule = job.rule => other = job
  BY <1>0 DEF GrantTypeOK, TxRow, OwnIsHeld, Jobs
<1>1. GrantTypeOK'
  <2>1. IsFiniteSet(tx'[t].own)
    BY <1>0, OneMore DEF GrantTypeOK
  <2> QED
    BY <1>0, <2>1 DEF GrantTypeOK
<1>2. OwnIsHeld'
  <2>1. ASSUME NEW s \in Calls, s # t
        PROVE  /\ tx'[s].state # "open" =>
                    tx'[s].own = {} /\ tx'[s].todo = {} /\ tx'[s].rules = {} /\ tx'[s].coupons = {}
               /\ \A q \in tx'[s].rules : TriggeredBy[q] = KindOf[s]
               /\ \A i \in tx'[s].todo : TriggeredBy[i.rule] = KindOf[s] /\ i.rule \notin tx'[s].rules
               /\ \A i, j \in tx'[s].todo : i.rule = j.rule => i = j
               /\ \A g \in tx'[s].own :
                    \/ \E i \in Jobs : i.rule \in tx'[s].rules /\ g = GrantOf(s, i)
                    \/ g = HandGrant(s) /\ KindOf[s] = "manual" /\ GivenBy[s] \in tx'[s].coupons
    BY <1>0, <2>1 DEF OwnIsHeld
  <2>2. /\ tx'[t].state = "open"
        /\ \A q \in tx'[t].rules : TriggeredBy[q] = KindOf[t]
        /\ \A i \in tx'[t].todo : TriggeredBy[i.rule] = KindOf[t] /\ i.rule \notin tx'[t].rules
        /\ \A i, j \in tx'[t].todo : i.rule = j.rule => i = j
    BY <1>0, <1>r DEF OwnIsHeld
  <2>3. \A g \in tx'[t].own :
                    \/ \E i \in Jobs : i.rule \in tx'[t].rules /\ g = GrantOf(t, i)
                    \/ g = HandGrant(t) /\ KindOf[t] = "manual" /\ GivenBy[t] \in tx'[t].coupons
    <3>1. \A g \in tx[t].own :
                    \/ \E i \in Jobs : i.rule \in tx[t].rules /\ g = GrantOf(t, i)
                    \/ g = HandGrant(t) /\ KindOf[t] = "manual" /\ GivenBy[t] \in tx[t].coupons
      BY <1>0 DEF OwnIsHeld
    <3> QED
      BY <1>r, <3>1
  <2> QED
    BY <2>1, <2>2, <2>3 DEF OwnIsHeld
<1>3. LocksExclude'
  BY <1>0 DEF LocksExclude, FreeRule
<1>4. SettlementSees'
  BY <1>0 DEF SettlementSees, Open
<1>5. RoomForRule'
  <2>0. \A s \in Calls, i \in Jobs : RoomFor(s, i)' <=> RoomFor(s, i)
    BY DEF RoomFor
  <2>1. ASSUME NEW i \in Jobs, i.rule \in tx'[t].rules, GrantOf(t, i) \in tx'[t].own
        PROVE  RoomFor(t, i)
    <3>1. /\ GrantOf(t, i).request[2] = i.rule /\ GrantOf(t, i).coupon = i.coupon
          /\ GrantOf(t, job).request[2] = job.rule /\ GrantOf(t, job).coupon = job.coupon
          /\ GrantOf(t, i).source = "activity"
      BY <1>r, GrantNames
    <3>2. CASE GrantOf(t, i) \in tx[t].own
      BY <1>0, <3>1, <3>2, OwnByRule DEF RoomForRule
    <3>3. CASE GrantOf(t, i) \notin tx[t].own
      <4>1. GrantOf(t, i) = GrantOf(t, job) /\ Within(t, job)
        BY <2>1, <3>3
      <4>2. i = job
        BY <1>r, <3>1, <4>1 DEF Jobs
      <4> QED
        BY <4>1, <4>2, CountIsEnough
    <3> QED
      BY <3>2, <3>3
  <2>2. ASSUME NEW s \in Calls, s # t, NEW i \in Jobs,
               i.rule \in tx'[s].rules, GrantOf(s, i) \in tx'[s].own
        PROVE  RoomFor(s, i)
    BY <1>0, <2>2 DEF RoomForRule
  <2> QED
    BY <2>0, <2>1, <2>2 DEF RoomForRule
<1>6. RoomByHand'
  <2>1. \A s \in Calls : HandGrant(s) \in tx'[s].own => HandGrant(s) \in tx[s].own
    BY <1>r, GrantNames
  <2> QED
    BY <1>0, <2>1 DEF RoomByHand
<1> QED
  BY <1>0, <1>1, <1>2, <1>3, <1>4, <1>5, <1>6 DEF GrantInvariant

\* Begin keeps the invariant: where one settlement runs at a time, its
\* snapshot holds every grant of the rules it comes to.
LEMMA BeginKept ==
  ASSUME Dispatchers = 1, GrantInvariant, NEW t \in Calls, Begin(t)
  PROVE  GrantInvariant'
<1>0. /\ GrantTypeOK /\ OwnIsHeld /\ LocksExclude /\ SettlementSees
      /\ RoomForRule /\ RoomByHand /\ \A coupon \in Coupons : QuotaKept(granted, coupon)
  BY GrantParts
<1> DEFINE due == Listed(KindOf[t])
<1>1. /\ tx' = [tx EXCEPT ![t] = [state |-> "open", seen |-> granted, own |-> {}, todo |-> due,
                                  rules |-> {}, coupons |-> {}]]
      /\ UNCHANGED <<rule, granted>>
  BY DEF Begin, Opened
<1>2. /\ tx'[t].state = "open" /\ tx'[t].seen = granted /\ tx'[t].own = {}
      /\ tx'[t].todo = due /\ tx'[t].rules = {} /\ tx'[t].coupons = {}
      /\ \A s \in Calls \ {t} : tx'[s] = tx[s]
  BY <1>0, <1>1 DEF GrantTypeOK
<1>3. /\ \A job \in due : job \in Jobs /\ TriggeredBy[job.rule] = KindOf[t]
      /\ \A i, j \in due : i.rule = j.rule => i = j
  BY <1>0 DEF Listed, GrantTypeOK, Jobs
<1> HIDE DEF due
<1>4. GrantTypeOK'
  BY <1>0, <1>1, <1>2, <1>3, FS_EmptySet DEF GrantTypeOK, TxRow
<1>5. OwnIsHeld'
  BY <1>0, <1>2, <1>3 DEF OwnIsHeld
<1>6. LocksExclude'
  BY <1>0, <1>2 DEF LocksExclude
<1>7. KindOf[t] = "order" => Open("order") = {}
  <2> SUFFICES ASSUME KindOf[t] = "order", NEW s \in Open("order") PROVE FALSE
    OBVIOUS
  <2>1. Open("order") = {s}
    BY <1>0 DEF SettlementSees
  <2>2. Cardinality(Open("order")) = 1
    BY <2>1, FS_Singleton
  <2> QED
    BY <2>2 DEF Begin
<1>8. SettlementSees'
  <2>1. \A s \in Open("order")' : s \in Open("order") \/ s = t
    BY <1>2 DEF Open
  <2>2. \A s \in Open("order")' : s = t => KindOf[t] = "order"
    BY DEF Open
  <2>3. \A r : ByRule(granted', r) = ByRule(granted, r) /\ ByRule(granted, r) \subseteq granted
    BY <1>1 DEF ByRule
  <2>4. \A s, u \in Open("order")' : s = u
    BY <1>0, <1>7, <2>1, <2>2 DEF SettlementSees
  <2>5. ASSUME NEW s \in Open("order")', NEW r \in Rules, TriggeredBy[r] = "order"
        PROVE  ByRule(granted', r) \subseteq tx'[s].seen
    <3>1. CASE s = t
      BY <1>2, <2>3, <3>1
    <3>2. CASE s # t
      <4>1. s \in Open("order") /\ tx'[s] = tx[s]
        BY <1>2, <2>1, <3>2 DEF Open
      <4> QED
        BY <1>0, <2>3, <2>5, <4>1 DEF SettlementSees
    <3> QED
      BY <3>1, <3>2
  <2> QED
    BY <2>4, <2>5 DEF SettlementSees
<1>9. RoomForRule' /\ RoomByHand'
  BY <1>0, <1>1, <1>2 DEF RoomForRule, RoomFor, RoomByHand
<1> QED
  BY <1>0, <1>1, <1>4, <1>5, <1>6, <1>8, <1>9 DEF GrantInvariant

\* GrantByHand keeps the invariant: it counts under the lock of the coupon.
LEMMA ByHandKept ==
  ASSUME GrantInvariant, NEW t \in Calls, GrantByHand(t)
  PROVE  GrantInvariant'
<1>0. /\ GrantTypeOK /\ OwnIsHeld /\ LocksExclude /\ SettlementSees
      /\ RoomForRule /\ RoomByHand /\ \A coupon \in Coupons : QuotaKept(granted, coupon)
  BY GrantParts
<1> DEFINE k == GivenBy[t]
<1>k. k \in Coupons /\ KindOf[t] = "manual"
  BY CouponGrantAssumption DEF GrantByHand
<1>1. /\ tx' = [tx EXCEPT ![t] = [state |-> "open", seen |-> granted, own |-> {HandGrant(t)},
                                  todo |-> {}, rules |-> {}, coupons |-> {k}]]
      /\ UNCHANGED <<rule, granted>>
  BY DEF GrantByHand, Opened
<1>2. /\ tx'[t].state = "open" /\ tx'[t].own = {HandGrant(t)}
      /\ tx'[t].todo = {} /\ tx'[t].rules = {} /\ tx'[t].coupons = {k}
      /\ \A s \in Calls \ {t} : tx'[s] = tx[s]
  BY <1>0, <1>1 DEF GrantTypeOK
<1>3. /\ FreeCoupon(k)
      /\ HandGrant(t).request \notin Receipts(granted)
      /\ \A other \in Calls : HandGrant(t).request \notin Receipts(tx[other].own)
      /\ Quota[k].total > 0 => Cardinality({g \in granted : g.coupon = k}) < Quota[k].total
      /\ Cardinality(OfUser(granted, k, UserOf[t])) < Quota[k].perUser
  BY DEF GrantByHand
<1> HIDE DEF k
<1>4. GrantTypeOK'
  <2>1. HandGrant(t) \in Grants /\ IsFiniteSet({HandGrant(t)})
    BY GrantNames, FS_Singleton
  <2> QED
    BY <1>0, <1>k, <1>1, <1>2, <2>1 DEF GrantTypeOK, TxRow
<1>5. OwnIsHeld'
  BY <1>0, <1>k, <1>2 DEF OwnIsHeld, k
<1>6. LocksExclude'
  BY <1>0, <1>2, <1>3 DEF LocksExclude, FreeCoupon
<1>7. SettlementSees'
  <2>1. \A s \in Open("order")' : s \in Open("order") /\ tx'[s] = tx[s]
    BY <1>k, <1>2 DEF Open
  <2> QED
    BY <1>0, <1>1, <2>1 DEF SettlementSees
<1>8. RoomForRule'
  BY <1>0, <1>1, <1>2 DEF RoomForRule, RoomFor
<1>9. RoomByHand'
  <2>1. \A g \in granted : g.request # HandGrant(t).request
    BY <1>3 DEF Receipts
  <2>2. \A s \in Calls : HandGrant(s) \in tx[s].own => HandGrant(s).request # HandGrant(t).request
    BY <1>3 DEF Receipts
  <2>3. /\ Quota[k].total > 0 => Cardinality(ByHand(granted, k)) < Quota[k].total
        /\ Cardinality(OfUser(ByHand(granted, k), k, UserOf[t])) < Quota[k].perUser
    <3> DEFINE all == {g \in granted : g.coupon = k}
               users == OfUser(granted, k, UserOf[t])
    <3>1. /\ IsFiniteSet(all) /\ IsFiniteSet(users)
          /\ ByHand(granted, k) \subseteq all /\ OfUser(ByHand(granted, k), k, UserOf[t]) \subseteq users
      BY <1>0, FS_Subset DEF ByHand, OfUser, GrantTypeOK
    <3>2. Quota[k].total \in Nat /\ Quota[k].perUser \in Nat
      BY <1>k, CouponGrantAssumption
    <3>3. /\ Quota[k].total > 0 => Cardinality(all) < Quota[k].total
          /\ Cardinality(users) < Quota[k].perUser
      BY <1>3
    <3> HIDE DEF all, users
    <3> QED
      BY <3>1, <3>2, <3>3, SmallerSet
  <2> QED
    BY <1>0, <1>1, <1>2, <2>1, <2>2, <2>3 DEF RoomByHand, k
<1> QED
  BY <1>0, <1>1, <1>4, <1>5, <1>6, <1>7, <1>8, <1>9 DEF GrantInvariant

\* A commit adds to the grants of a rule only what the transaction inserted.
LEMMA CommitAdds ==
  ASSUME GrantInvariant, NEW t \in Calls, granted' = granted \union tx[t].own
  PROVE  /\ \A r \in Rules : r \notin tx[t].rules => ByRule(granted', r) = ByRule(granted, r)
         /\ \A job \in Jobs :
              /\ job.rule \notin tx[t].rules \/ GrantOf(t, job) \notin tx[t].own =>
                   Given(granted', job.rule, job.coupon) = Given(granted, job.rule, job.coupon)
              /\ Given(granted', job.rule, job.coupon) \subseteq
                   Given(granted, job.rule, job.coupon) \union {GrantOf(t, job)}
         /\ \A k : HandGrant(t) \notin tx[t].own \/ k # GivenBy[t] => ByHand(granted', k) = ByHand(granted, k)
         /\ \A k : ByHand(granted', k) \subseteq ByHand(granted, k) \union {HandGrant(t)}
         /\ HandGrant(t) \in tx[t].own => KindOf[t] = "manual" /\ GivenBy[t] \in tx[t].coupons
<1>0. tx[t].own \subseteq Grants /\ granted \subseteq Grants
  BY GrantParts DEF GrantTypeOK, TxRow
<1>1. \A g \in tx[t].own : g.source = "activity" =>
        g.request[2] \in tx[t].rules /\ g = GrantOf(t, [rule |-> g.request[2], coupon |-> g.coupon])
  BY OwnByRule
<1>2. \A g \in tx[t].own : g.source = "manual" =>
        g = HandGrant(t) /\ g.coupon = GivenBy[t] /\ KindOf[t] = "manual" /\ GivenBy[t] \in tx[t].coupons
  BY OwnByRule, GrantNames
<1>3. ASSUME NEW r \in Rules, r \notin tx[t].rules
      PROVE  ByRule(granted', r) = ByRule(granted, r)
  BY <1>1, <1>3 DEF ByRule
<1>4. ASSUME NEW job \in Jobs
      PROVE  /\ job.rule \notin tx[t].rules \/ GrantOf(t, job) \notin tx[t].own =>
                  Given(granted', job.rule, job.coupon) = Given(granted, job.rule, job.coupon)
             /\ Given(granted', job.rule, job.coupon) \subseteq
                  Given(granted, job.rule, job.coupon) \union {GrantOf(t, job)}
  <2>1. job = [rule |-> job.rule, coupon |-> job.coupon]
    BY DEF Jobs
  <2>2. \A g : g \in Given(granted', job.rule, job.coupon) <=>
               \/ g \in Given(granted, job.rule, job.coupon)
               \/ /\ g \in tx[t].own /\ g.source = "activity"
                  /\ g.request[2] = job.rule /\ g.coupon = job.coupon
    BY DEF Given, ByRule
  <2>3. \A g \in tx[t].own : g.source = "activity" /\ g.request[2] = job.rule /\ g.coupon = job.coupon =>
               g = GrantOf(t, job) /\ job.rule \in tx[t].rules
    BY <1>1, <2>1
  <2> QED
    BY <2>2, <2>3, Zenon
<1>5. ASSUME NEW k
      PROVE  /\ HandGrant(t) \notin tx[t].own \/ k # GivenBy[t] => ByHand(granted', k) = ByHand(granted, k)
             /\ ByHand(granted', k) \subseteq ByHand(granted, k) \union {HandGrant(t)}
  BY <1>2 DEF ByHand
<1>6. HandGrant(t) \in tx[t].own => KindOf[t] = "manual" /\ GivenBy[t] \in tx[t].coupons
  BY <1>2, GrantNames
<1> QED
  BY <1>3, <1>4, <1>5, <1>6

\* The commit of a grant finds the room there was when it was counted.
LEMMA CommitWithinRule ==
  ASSUME GrantInvariant, NEW t \in Calls, granted' = granted \union tx[t].own,
         NEW r \in Rules, NEW k \in Coupons
  PROVE  RuleKept(r, k)
<1> DEFINE job == [rule |-> r, coupon |-> k]
           before == Given(granted, r, k)
           after == Given(granted', r, k)
<1>0. GrantTypeOK /\ RoomForRule
  BY GrantParts
<1>1. /\ rule[r].max \in Nat /\ rule[r].perUser \in Nat
      /\ job \in Jobs /\ job.rule = r /\ job.coupon = k
  BY <1>0 DEF GrantTypeOK, Jobs
<1>2. IsFiniteSet(before)
  BY <1>0, FS_Subset DEF Given, ByRule, GrantTypeOK
<1>3. \A u : OfUser(before, k, u) \subseteq before
  BY DEF OfUser
<1>4. \A u : IsFiniteSet(OfUser(before, k, u))
  BY <1>2, <1>3, FS_Subset
<1>5. RuleKept(r, k) <=>
        /\ Grew(before, after) /\ rule[r].max > 0 => Cardinality(after) <= rule[r].max
        /\ \A u \in Users :
             Grew(OfUser(before, k, u), OfUser(after, k, u)) =>
               Cardinality(OfUser(after, k, u)) <= rule[r].perUser
  BY DEF RuleKept
<1>6. CASE r \notin tx[t].rules \/ GrantOf(t, job) \notin tx[t].own
  <2>1. after = before
    BY <1>1, <1>6, CommitAdds
  <2> HIDE DEF before, after, job
  <2>2. ~Grew(before, after) /\ \A u \in Users : ~Grew(OfUser(before, k, u), OfUser(after, k, u))
    BY <1>2, <1>4, <2>1, FS_CardinalityType DEF Grew
  <2> QED
    BY <1>5, <2>2
<1>7. CASE r \in tx[t].rules /\ GrantOf(t, job) \in tx[t].own
  <2>1. after \subseteq before \union {GrantOf(t, job)}
    BY <1>1, CommitAdds
  <2>2. RoomFor(t, job)
    BY <1>0, <1>1, <1>7 DEF RoomForRule
  <2>3. /\ rule[r].max > 0 => Cardinality(before) < rule[r].max
        /\ Cardinality(OfUser(before, k, UserOf[t])) < rule[r].perUser
    BY <2>2 DEF RoomFor
  <2>4. GrantOf(t, job).user = UserOf[t]
    BY <1>1, GrantNames
  <2>5. \A u : /\ OfUser(after, k, u) \subseteq OfUser(before, k, u) \union {GrantOf(t, job)}
               /\ u # UserOf[t] => OfUser(after, k, u) \subseteq OfUser(before, k, u)
    BY <2>1, <2>4 DEF OfUser
  <2> HIDE DEF before, after, job
  <2>6. rule[r].max > 0 => Cardinality(after) <= rule[r].max
    BY <1>1, <1>2, <2>1, <2>3, OneMore
  <2>7. ASSUME NEW u \in Users, Grew(OfUser(before, k, u), OfUser(after, k, u))
        PROVE  Cardinality(OfUser(after, k, u)) <= rule[r].perUser
    <3>1. CASE u = UserOf[t]
      <4>1. Cardinality(OfUser(before, k, u)) < rule[r].perUser
        BY <2>3, <3>1
      <4>2. IsFiniteSet(OfUser(before, k, u))
            /\ OfUser(after, k, u) \subseteq OfUser(before, k, u) \union {GrantOf(t, job)}
        BY <1>4, <2>5
      <4>3. /\ Cardinality(OfUser(after, k, u)) \in Nat /\ Cardinality(OfUser(before, k, u)) \in Nat
            /\ Cardinality(OfUser(after, k, u)) <= Cardinality(OfUser(before, k, u)) + 1
        BY <4>2, OneMore
      <4> QED
        BY <1>1, <4>1, <4>3
    <3>2. CASE u # UserOf[t]
      BY <1>4, <2>5, <2>7, <3>2, SmallerSet DEF Grew
    <3> QED
      BY <3>1, <3>2
  <2> QED
    BY <1>5, <2>6, <2>7
<1> QED
  BY <1>6, <1>7

\* The commit of a grant by hand leaves its coupon within the quota.
LEMMA CommitWithinQuota ==
  ASSUME GrantInvariant, NEW t \in Calls, granted' = granted \union tx[t].own, NEW k \in Coupons
  PROVE  QuotaKept(granted', k)
<1>0. GrantTypeOK /\ RoomByHand /\ QuotaKept(granted, k)
  BY GrantParts
<1>1. CASE HandGrant(t) \notin tx[t].own \/ k # GivenBy[t]
  <2>1. ByHand(granted', k) = ByHand(granted, k)
    BY <1>1, CommitAdds
  <2> QED
    BY <1>0, <2>1 DEF QuotaKept
<1>2. CASE HandGrant(t) \in tx[t].own /\ k = GivenBy[t]
  <2> DEFINE before == ByHand(granted, k)
             after == ByHand(granted', k)
  <2>1. KindOf[t] = "manual" /\ after \subseteq before \union {HandGrant(t)}
    BY <1>2, CommitAdds
  <2>2. /\ Quota[k].total > 0 => Cardinality(before) < Quota[k].total
        /\ Cardinality(OfUser(before, k, UserOf[t])) < Quota[k].perUser
        /\ \A g \in granted : g.source = "manual" => g.request # HandGrant(t).request
    BY <1>0, <1>2, <2>1 DEF RoomByHand
  <2>3. IsFiniteSet(before) /\ \A g \in before : g.request # HandGrant(t).request
    BY <1>0, <2>2, FS_Subset DEF ByHand, GrantTypeOK
  <2>4. HandGrant(t).user = UserOf[t]
    BY GrantNames
  <2>5. \A u : /\ OfUser(after, k, u) \subseteq OfUser(before, k, u) \union {HandGrant(t)}
               /\ u # UserOf[t] => OfUser(after, k, u) \subseteq OfUser(before, k, u)
               /\ OfUser(before, k, u) \subseteq before
    BY <2>1, <2>4 DEF OfUser
  <2>6. /\ \A u \in Users : Cardinality(OfUser(before, k, u)) <= Quota[k].perUser
        /\ \A g, h \in before : g.request = h.request => g = h
    BY <1>0 DEF QuotaKept
  <2>7. QuotaKept(granted', k) <=>
          /\ Quota[k].total > 0 => Cardinality(after) <= Quota[k].total
          /\ \A u \in Users : Cardinality(OfUser(after, k, u)) <= Quota[k].perUser
          /\ \A g, h \in after : g.request = h.request => g = h
    BY DEF QuotaKept
  <2>8. Quota[k].total \in Nat /\ Quota[k].perUser \in Nat
    BY CouponGrantAssumption
  <2> HIDE DEF before, after
  <2>9. Quota[k].total > 0 => Cardinality(after) <= Quota[k].total
    <3>1. /\ Cardinality(after) <= Cardinality(before) + 1
          /\ Cardinality(after) \in Nat /\ Cardinality(before) \in Nat
      BY <2>1, <2>3, OneMore
    <3>2. Quota[k].total > 0 => Cardinality(before) < Quota[k].total
      BY <2>2
    <3> QED
      BY <2>8, <3>1, <3>2
  <2>10. ASSUME NEW u \in Users PROVE Cardinality(OfUser(after, k, u)) <= Quota[k].perUser
    <3>1. IsFiniteSet(OfUser(before, k, u))
      BY <2>3, <2>5, SmallerSet
    <3>2. CASE u = UserOf[t]
      <4>1. Cardinality(OfUser(before, k, u)) < Quota[k].perUser
        BY <2>2, <3>2
      <4> QED
        BY <2>5, <2>8, <3>1, <4>1, OneMore
    <3>3. CASE u # UserOf[t]
      BY <2>5, <2>6, <2>8, <3>1, <3>3, SmallerSet
    <3> QED
      BY <3>2, <3>3
  <2>11. \A g, h \in after : g.request = h.request => g = h
    BY <2>1, <2>3, <2>6
  <2> QED
    BY <2>7, <2>9, <2>10, <2>11
<1> QED
  BY <1>1, <1>2

\* Commit keeps the invariant: the room others counted for stays, because
\* they hold the rows.
LEMMA CommitKept ==
  ASSUME GrantInvariant, NEW t \in Calls, Commit(t)
  PROVE  GrantInvariant'
<1>0. /\ GrantTypeOK /\ OwnIsHeld /\ LocksExclude /\ SettlementSees
      /\ RoomForRule /\ RoomByHand
  BY GrantParts
<1>1. /\ granted' = granted \union tx[t].own /\ rule' = rule
      /\ tx' = [tx EXCEPT ![t] = [Idle EXCEPT !.state = "done"]]
      /\ tx[t].state = "open"
  BY DEF Commit
<1>2. /\ tx'[t].state = "done" /\ tx'[t].seen = {} /\ tx'[t].own = {}
      /\ tx'[t].todo = {} /\ tx'[t].rules = {} /\ tx'[t].coupons = {}
      /\ tx' \in [Calls -> TxRow]
      /\ \A s \in Calls \ {t} : tx'[s] = tx[s]
  BY <1>0, <1>1 DEF GrantTypeOK, TxRow, Idle
<1>3. GrantTypeOK'
  <2>1. granted' \subseteq Grants /\ IsFiniteSet(granted')
    BY <1>0, <1>1, FS_Union DEF GrantTypeOK, TxRow
  <2> QED
    BY <1>0, <1>1, <1>2, <2>1, FS_EmptySet DEF GrantTypeOK
<1>4. OwnIsHeld' /\ LocksExclude'
  BY <1>0, <1>2 DEF OwnIsHeld, LocksExclude
<1>5. \A r \in Rules : r \notin tx[t].rules => ByRule(granted', r) = ByRule(granted, r)
  BY <1>1, CommitAdds
<1>6. SettlementSees'
  <2>1. \A s \in Open("order")' : s \in Open("order") /\ s # t /\ tx'[s] = tx[s]
    BY <1>2 DEF Open
  <2>2. \A s, u \in Open("order")' : s = u
    BY <1>0, <2>1 DEF SettlementSees
  <2>3. ASSUME NEW s \in Open("order")', NEW r \in Rules, TriggeredBy[r] = "order"
        PROVE  ByRule(granted', r) \subseteq tx'[s].seen
    <3>1. KindOf[t] # "order"
      BY <1>0, <1>1, <2>1 DEF SettlementSees, Open
    <3>2. r \notin tx[t].rules
      BY <1>0, <2>3, <3>1 DEF OwnIsHeld
    <3> QED
      BY <1>0, <1>5, <2>1, <2>3, <3>2 DEF SettlementSees
  <2> QED
    BY <2>2, <2>3 DEF SettlementSees
<1>7. RoomForRule'
  <2>1. ASSUME NEW s \in Calls, NEW job \in Jobs,
               job.rule \in tx'[s].rules, GrantOf(s, job) \in tx'[s].own
        PROVE  RoomFor(s, job)'
    <3>1. s # t /\ tx'[s] = tx[s]
      BY <1>2, <2>1
    <3>2. job.rule \notin tx[t].rules /\ RoomFor(s, job)
      BY <1>0, <2>1, <3>1 DEF LocksExclude, RoomForRule
    <3>3. Given(granted', job.rule, job.coupon) = Given(granted, job.rule, job.coupon)
      BY <1>1, <3>2, CommitAdds
    <3> QED
      BY <1>1, <3>2, <3>3 DEF RoomFor
  <2> QED
    BY <2>1 DEF RoomForRule
<1>8. RoomByHand'
  <2>1. ASSUME NEW s \in Calls, KindOf[s] = "manual", HandGrant(s) \in tx'[s].own
        PROVE  /\ Quota[GivenBy[s]].total > 0 =>
                    Cardinality(ByHand(granted', GivenBy[s])) < Quota[GivenBy[s]].total
               /\ Cardinality(OfUser(ByHand(granted', GivenBy[s]), GivenBy[s], UserOf[s]))
                    < Quota[GivenBy[s]].perUser
               /\ \A g \in granted' : g.source = "manual" => g.request # HandGrant(s).request
               /\ \A u \in Calls \ {s} : HandGrant(u) \in tx'[u].own =>
                    HandGrant(u).request # HandGrant(s).request
    <3>1. s # t /\ tx'[s] = tx[s] /\ HandGrant(s) \in tx[s].own
      BY <1>2, <2>1
    <3>2. GivenBy[s] \in tx[s].coupons
      BY <3>1, OwnByRule, GrantNames
    <3>3. HandGrant(t) \notin tx[t].own \/ GivenBy[s] # GivenBy[t]
      BY <1>0, <1>1, <3>1, <3>2, CommitAdds DEF LocksExclude
    <3>4. ByHand(granted', GivenBy[s]) = ByHand(granted, GivenBy[s])
      BY <1>1, <3>3, CommitAdds
    <3>5. \A g \in tx[t].own : g.source = "manual" => g = HandGrant(t)
      BY OwnByRule
    <3>6. HandGrant(t) \in tx[t].own => HandGrant(t).request # HandGrant(s).request
      BY <1>0, <2>1, <3>1 DEF RoomByHand
    <3>7. \A u \in Calls \ {s} : HandGrant(u) \in tx'[u].own => HandGrant(u) \in tx[u].own
      BY <1>2
    <3> QED
      BY <1>0, <1>1, <2>1, <3>1, <3>4, <3>5, <3>6, <3>7 DEF RoomByHand
  <2> QED
    BY <2>1 DEF RoomByHand
<1>9. \A k \in Coupons : QuotaKept(granted', k)
  BY <1>1, CommitWithinQuota
<1> QED
  BY <1>3, <1>4, <1>6, <1>7, <1>8, <1>9 DEF GrantInvariant

\* Every step on coupons keeps the invariant.
LEMMA GrantsKept ==
  ASSUME Dispatchers = 1, GrantInvariant, [GrantNext]_grantVars
  PROVE  GrantInvariant'
<1>0. /\ GrantTypeOK /\ OwnIsHeld /\ LocksExclude /\ SettlementSees
      /\ RoomForRule /\ RoomByHand /\ \A coupon \in Coupons : QuotaKept(granted, coupon)
  BY GrantParts
<1>1. ASSUME NEW t \in Calls, Abort(t)
      PROVE  GrantInvariant'
  <2>1. /\ tx' \in [Calls -> TxRow] /\ tx'[t] = Idle
        /\ \A s \in Calls \ {t} : tx'[s] = tx[s]
        /\ UNCHANGED <<rule, granted>>
    BY <1>0, <1>1 DEF Abort, GrantTypeOK, TxRow, Idle
  <2>2. /\ Idle.own = {} /\ Idle.seen = {} /\ Idle.rules = {} /\ Idle.todo = {} /\ Idle.coupons = {}
    BY DEF Idle
  <2> QED
    BY <2>1, <2>2, LessIsKept
<1>2. ASSUME NEW t \in Calls, NEW job \in tx[t].todo, Grant(t, job)
      PROVE  GrantInvariant'
  <2>1. job \in Jobs /\ FreeRule(job.rule) /\ Within(t, job) /\ UNCHANGED <<rule, granted>>
    BY <1>0, <1>2 DEF Grant, MayLock, GrantTypeOK, TxRow
  <2> DEFINE own == tx[t].own \union {GrantOf(t, job)}
  <2>2. own \in SUBSET Grants /\ tx' = [tx EXCEPT ![t] = Holding(t, job, own)]
    BY <1>0, <1>2, <2>1, GrantNames DEF Grant, GrantTypeOK, TxRow
  <2>3. own = tx[t].own \union {GrantOf(t, job)}
    OBVIOUS
  <2> HIDE DEF own
  <2>4. /\ tx'[t].state = tx[t].state /\ tx'[t].seen = tx[t].seen /\ tx'[t].coupons = tx[t].coupons
        /\ tx'[t].todo = tx[t].todo \ {job} /\ tx'[t].rules = tx[t].rules \union {job.rule}
        /\ tx'[t].own = own
        /\ \A s \in Calls \ {t} : tx'[s] = tx[s]
        /\ tx' \in [Calls -> TxRow]
    BY <1>0, <2>1, <2>2, HoldingFields
  <2> QED
    BY <2>1, <2>3, <2>4, RuleTaken
<1>3. ASSUME NEW t \in Calls, NEW job \in tx[t].todo, PassOver(t, job)
      PROVE  GrantInvariant'
  <2>1. job \in Jobs /\ UNCHANGED <<rule, granted>>
    BY <1>0, <1>3 DEF PassOver, GrantTypeOK, TxRow
  <2>2. CASE MayLock(t, job.rule) /\ tx' = [tx EXCEPT ![t] = Holding(t, job, tx[t].own)]
    <3>1. /\ tx'[t].state = tx[t].state /\ tx'[t].seen = tx[t].seen /\ tx'[t].coupons = tx[t].coupons
          /\ tx'[t].todo = tx[t].todo \ {job} /\ tx'[t].rules = tx[t].rules \union {job.rule}
          /\ tx'[t].own = tx[t].own
          /\ \A s \in Calls \ {t} : tx'[s] = tx[s]
          /\ tx' \in [Calls -> TxRow]
      BY <1>0, <2>1, <2>2, HoldingFields DEF GrantTypeOK, TxRow
    <3> QED
      BY <2>1, <2>2, <3>1, RuleTaken DEF MayLock
  <2>3. CASE tx' = [tx EXCEPT ![t].todo = @ \ {job}]
    <3>1. /\ tx'[t].state = tx[t].state /\ tx'[t].seen = tx[t].seen /\ tx'[t].coupons = tx[t].coupons
          /\ tx'[t].todo = tx[t].todo \ {job} /\ tx'[t].rules = tx[t].rules
          /\ tx'[t].own = tx[t].own
          /\ \A s \in Calls \ {t} : tx'[s] = tx[s]
          /\ tx' \in [Calls -> TxRow]
      BY <1>0, <2>3 DEF GrantTypeOK, TxRow
    <3> QED
      BY <2>1, <3>1, LessIsKept
  <2> QED
    BY <1>3, <2>2, <2>3 DEF PassOver
<1>4. ASSUME NEW r \in Rules, NEW active \in BOOLEAN, NEW setting \in Settings[r],
             UpdateRule(r, setting, active)
      PROVE  GrantInvariant'
  <2>1. /\ rule' \in [Rules -> [max : Nat, perUser : Nat, coupon : Coupons, active : BOOLEAN]]
        /\ \A q \in Rules \ {r} : rule'[q] = rule[q]
    <3>1. setting \in [max : Nat, perUser : Nat \ {0}, coupon : Coupons]
      BY CouponGrantAssumption
    <3>2. RuleRow(setting, active) \in [max : Nat, perUser : Nat, coupon : Coupons, active : BOOLEAN]
      BY <3>1 DEF RuleRow
    <3> QED
      BY <1>0, <1>4, <3>2 DEF UpdateRule, GrantTypeOK
  <2>2. UNCHANGED <<granted, tx>> /\ FreeRule(r)
    BY <1>4 DEF UpdateRule
  <2>3. GrantTypeOK'
    BY <1>0, <2>1, <2>2 DEF GrantTypeOK
  <2>4. RoomForRule'
    <3>1. \A t \in Calls : \A q \in tx[t].rules : q \in Rules \ {r}
      BY <1>0, <2>2 DEF FreeRule, GrantTypeOK, TxRow
    <3> QED
      BY <1>0, <2>1, <2>2, <3>1 DEF RoomForRule, RoomFor
  <2> QED
    BY <1>0, <2>2, <2>3, <2>4
       DEF GrantInvariant, OwnIsHeld, LocksExclude, SettlementSees, Open, RoomByHand
<1>5. CASE UNCHANGED grantVars
  BY <1>0, <1>5 DEF grantVars, GrantInvariant, GrantTypeOK, OwnIsHeld, LocksExclude,
                    SettlementSees, Open, RoomForRule, RoomFor, RoomByHand
<1> QED
  BY <1>1, <1>2, <1>3, <1>4, <1>5, BeginKept, ByHandKept, CommitKept DEF GrantNext

\* A step keeps the limits: a commit by the room that was counted, the rest
\* because they commit nothing.
LEMMA StepWithinLimits ==
  ASSUME Dispatchers = 1, GrantInvariant, [GrantNext]_grantVars, NEW k \in Coupons
  PROVE  (\A r \in Rules : RuleKept(r, k)) /\ QuotaKept(granted', k)
<1>1. QuotaKept(granted', k)
  BY GrantsKept DEF GrantInvariant
<1>2. ASSUME NEW r \in Rules PROVE RuleKept(r, k)
  <2>1. CASE \E t \in Calls : granted' = granted \union tx[t].own
    BY <2>1, CommitWithinRule
  <2>2. CASE granted' = granted
    <3>1. IsFiniteSet(Given(granted, r, k))
      BY GrantParts, FS_Subset DEF Given, ByRule, GrantTypeOK
    <3>2. \A u \in Users : IsFiniteSet(OfUser(Given(granted, r, k), k, u))
      BY <3>1, FS_Subset DEF OfUser
    <3>3. Given(granted', r, k) = Given(granted, r, k)
      BY <2>2
    <3> QED
      BY <3>1, <3>2, <3>3, FS_CardinalityType DEF RuleKept, Grew
  <2>3. granted' = granted \/ \E t \in Calls : granted' = granted \union tx[t].own
    BY DEF GrantNext, grantVars, Begin, GrantByHand, Commit, Abort, Grant, PassOver, UpdateRule
  <2> QED
    BY <2>1, <2>2, <2>3
<1> QED
  BY <1>1, <1>2

\* With one settlement at a time the invariant holds in every behaviour.
THEOREM GrantInvariance ==
  ASSUME Dispatchers = 1
  PROVE  GrantSpec => []GrantInvariant
<1>1. GrantInvariant /\ [GrantNext]_grantVars => GrantInvariant'
  BY GrantsKept
<1> QED
  BY GrantStarts, <1>1, PTL DEF GrantSpec

(* Whatever the rules are changed to, their coupons included, what an      *)
(* activity grants of a coupon stays within its budget and what a user has *)
(* of it within the limit, and grants by hand stay within the quota        *)
(* (coupon_activity.go grantFromRule, admin/coupons.go grantCoupon).       *)
THEOREM GrantsStayWithinLimits ==
  ASSUME Dispatchers = 1
  PROVE  GrantSpec => GrantsWithinLimits
<1>1. GrantInvariant /\ [GrantNext]_grantVars =>
        [\A coupon \in Coupons :
          /\ \A r \in Rules : RuleKept(r, coupon)
          /\ QuotaKept(granted', coupon)]_grantVars
  BY StepWithinLimits
<1>2. GrantSpec => []GrantInvariant
  BY GrantInvariance
<1> QED
  BY <1>1, <1>2, PTL DEF GrantSpec, GrantsWithinLimits

-----------------------------------------------------------------------------
(***************************************************************************)
(* Refunds out of a wallet.  What went out without a review was counted    *)
(* when it was asked for, and nothing is ever asked for later than now.    *)
(***************************************************************************)
RiskTypeOK ==
  /\ clock \in Nat
  /\ wallet \in [status : {"none", "active", "frozen"}, balance : Nat, held : Nat]
  /\ asked \in [RefundRequests -> Int]
  /\ part \in [RefundRequests -> {"none", "pending", "success", "failed"}]
  /\ freeze \in [RefundRequests -> {"none", "frozen", "unfrozen"}]
  /\ review \in [RefundRequests -> {"none", "approved", "rejected"}]

\* What becomes of a request, in this order.
RequestsAreTrue ==
  \A r \in RefundRequests :
    /\ asked[r] = -1 \/ asked[r] \in 0..clock
    /\ asked[r] = -1 => part[r] = "none" /\ freeze[r] = "none"
    /\ freeze[r] = "none" => review[r] = "none"
    /\ freeze[r] # "none" /\ review[r] # "approved" => part[r] = "none"
    /\ freeze[r] = "frozen" => wallet.status = "frozen"

Window(r) == {q \in Unwatched : asked[q] \in (asked[r] - Minutes)..asked[r]}
FewUnwatched == \A r \in Unwatched : Cardinality(Window(r)) <= 2

Pending == {r \in RefundRequests : part[r] = "pending"}
HeldIsPending == wallet.held = Cardinality(Pending) /\ wallet.held <= wallet.balance

RiskInvariant == RiskTypeOK /\ RequestsAreTrue /\ FewUnwatched /\ HeldIsPending

\* At the start nothing has been asked for, and the invariant holds.
LEMMA RiskStarts == RiskInit => RiskInvariant
<1> SUFFICES ASSUME RiskInit PROVE RiskInvariant
  OBVIOUS
<1>1. RiskTypeOK /\ RequestsAreTrue
  BY DEF RiskInit, RiskTypeOK, RequestsAreTrue
<1>2. Pending = {} /\ Unwatched = {}
  BY DEF RiskInit, Pending, Unwatched
<1> QED
  BY <1>1, <1>2, FS_EmptySet DEF RiskInvariant, FewUnwatched, HeldIsPending, RiskInit

\* The parts of the invariant, one by one.
LEMMA RiskParts ==
  ASSUME RiskInvariant
  PROVE  RiskTypeOK /\ RequestsAreTrue /\ FewUnwatched /\ HeldIsPending /\ Minutes \in Nat
BY WalletRiskConstants DEF RiskInvariant

\* A part of a set of requests has no more requests.
LEMMA FewerRequests ==
  ASSUME NEW S \in SUBSET RefundRequests, NEW T \in SUBSET S
  PROVE  /\ IsFiniteSet(S) /\ Cardinality(S) \in Nat /\ Cardinality(T) \in Nat
         /\ Cardinality(T) <= Cardinality(S)
BY WalletRiskConstants, FS_Subset, FS_CardinalityType

\* Requests that are watched, or not asked for, are out of the count.
LEMMA WindowsShrink ==
  ASSUME RiskInvariant, asked' = asked, Unwatched' \subseteq Unwatched
  PROVE  FewUnwatched'
<1>1. ASSUME NEW r \in Unwatched' PROVE Cardinality(Window(r)') <= 2
  <2>1. Window(r)' \subseteq Window(r) /\ Window(r) \subseteq RefundRequests /\ r \in Unwatched
    BY DEF Window, Unwatched
  <2>2. Cardinality(Window(r)) <= 2
    BY <2>1, RiskParts DEF FewUnwatched
  <2> QED
    BY <2>1, <2>2, FewerRequests
<1> QED
  BY <1>1 DEF FewUnwatched

\* Money is reserved for one more request.
LEMMA ReserveKeeps ==
  ASSUME RiskInvariant, NEW r \in RefundRequests, part[r] = "none", CanReserve, ReserveRefund(r)
  PROVE  /\ HeldIsPending' /\ wallet'.status = wallet.status
         /\ wallet' \in [status : {"none", "active", "frozen"}, balance : Nat, held : Nat]
         /\ part' \in [RefundRequests -> {"none", "pending", "success", "failed"}]
         /\ part'[r] = "pending" /\ \A q \in RefundRequests \ {r} : part'[q] = part[q]
<1>1. RiskTypeOK /\ HeldIsPending
  BY RiskParts
<1>2. /\ wallet'.held = wallet.held + 1 /\ wallet'.balance = wallet.balance
      /\ wallet'.status = wallet.status
      /\ wallet' \in [status : {"none", "active", "frozen"}, balance : Nat, held : Nat]
  BY <1>1 DEF ReserveRefund, RiskTypeOK
<1>3. /\ part' \in [RefundRequests -> {"none", "pending", "success", "failed"}]
      /\ part'[r] = "pending" /\ \A q \in RefundRequests \ {r} : part'[q] = part[q]
  BY <1>1 DEF ReserveRefund, RiskTypeOK
<1>4. Pending' = Pending \cup {r} /\ r \notin Pending
  BY <1>3 DEF Pending
<1>5. IsFiniteSet(Pending) /\ Cardinality(Pending) \in Nat
  BY FewerRequests DEF Pending
<1>6. Cardinality(Pending \cup {r}) = Cardinality(Pending) + 1
  BY <1>4, <1>5, FS_AddElement, Zenon
<1>7. wallet.held + 1 <= wallet.balance
  BY <1>1 DEF CanReserve, RiskTypeOK
<1>8. Cardinality(Pending') = Cardinality(Pending) + 1
  BY <1>4, <1>6, Zenon
<1> QED
  BY <1>1, <1>2, <1>3, <1>5, <1>7, <1>8 DEF HeldIsPending

\* WalletRefund keeps the invariant: the third request within the window
\* freezes the wallet and is reviewed.
LEMMA RefundKeeps ==
  ASSUME RiskInvariant, NEW r \in RefundRequests, WalletRefund(r)
  PROVE  RiskInvariant'
<1>0. RiskTypeOK /\ RequestsAreTrue /\ FewUnwatched /\ HeldIsPending /\ Minutes \in Nat
  BY RiskParts
<1>1. /\ asked' = [asked EXCEPT ![r] = clock] /\ asked[r] = -1
      /\ UNCHANGED <<clock, review>> /\ wallet.status = "active"
  BY DEF WalletRefund
<1>2. /\ part[r] = "none" /\ freeze[r] = "none" /\ review[r] = "none"
  BY <1>0, <1>1 DEF RequestsAreTrue
<1>3. asked' \in [RefundRequests -> Int] /\ asked'[r] = clock
      /\ \A q \in RefundRequests \ {r} : asked'[q] = asked[q]
  BY <1>0, <1>1 DEF RiskTypeOK
<1>4. CASE freeze' = [freeze EXCEPT ![r] = "frozen"] /\ wallet' = [wallet EXCEPT !.status = "frozen"]
           /\ part' = part
  <2>1. RiskTypeOK' /\ wallet'.held = wallet.held /\ wallet'.balance = wallet.balance
        /\ wallet'.status = "frozen"
    BY <1>0, <1>1, <1>3, <1>4 DEF RiskTypeOK
  <2>2. RequestsAreTrue'
    BY <1>0, <1>1, <1>2, <1>3, <1>4, <2>1 DEF RequestsAreTrue, RiskTypeOK
  <2>3. Unwatched' \subseteq Unwatched /\ r \notin Unwatched
    BY <1>1, <1>2, <1>4 DEF Unwatched
  <2>4. FewUnwatched'
    <3>1. ASSUME NEW q \in Unwatched' PROVE Cardinality(Window(q)') <= 2
      <4>1. Window(q)' \subseteq Window(q) /\ Window(q) \subseteq RefundRequests /\ q \in Unwatched
        BY <1>3, <2>3 DEF Window, Unwatched
      <4>2. Cardinality(Window(q)) <= 2
        BY <1>0, <4>1 DEF FewUnwatched
      <4> QED
        BY <4>1, <4>2, FewerRequests
    <3> QED
      BY <3>1 DEF FewUnwatched
  <2>5. HeldIsPending'
    BY <1>0, <1>4, <2>1 DEF HeldIsPending, Pending
  <2> QED
    BY <2>1, <2>2, <2>4, <2>5 DEF RiskInvariant
<1>5. CASE Cardinality(Recent(r)) < 3 /\ CanReserve /\ ReserveRefund(r) /\ freeze' = freeze
  <2>1. /\ HeldIsPending' /\ wallet'.status = wallet.status
        /\ wallet' \in [status : {"none", "active", "frozen"}, balance : Nat, held : Nat]
        /\ part' \in [RefundRequests -> {"none", "pending", "success", "failed"}]
        /\ part'[r] = "pending" /\ \A q \in RefundRequests \ {r} : part'[q] = part[q]
    BY <1>2, <1>5, ReserveKeeps
  <2>2. RiskTypeOK'
    BY <1>0, <1>1, <1>3, <1>5, <2>1 DEF RiskTypeOK
  <2>3. RequestsAreTrue'
    BY <1>0, <1>1, <1>2, <1>3, <1>5, <2>1 DEF RequestsAreTrue, RiskTypeOK
  <2>4. Unwatched' \subseteq Unwatched \cup {r}
    BY <1>1, <2>1 DEF Unwatched
  <2>5. ASSUME NEW q \in Unwatched' PROVE Cardinality(Window(q)') <= 2
    <3>1. CASE asked'[q] = clock
      <4>1. Window(q)' \subseteq Recent(r)
        <5>1. ASSUME NEW u \in Window(q)', u # r PROVE u \in Recent(r)
          <6>1. u \in RefundRequests /\ asked[u] \in Int /\ asked[u] >= clock - Minutes
                /\ u \in Unwatched
            BY <1>0, <1>3, <2>4, <3>1, <5>1 DEF Window, RiskTypeOK, Unwatched
          <6>2. asked[u] >= 0
            BY <1>0, <6>1 DEF RequestsAreTrue, Unwatched
          <6> QED
            BY <6>1, <6>2 DEF Recent
        <5> QED
          BY <5>1 DEF Recent
      <4>2. Recent(r) \subseteq RefundRequests
        BY DEF Recent
      <4>3. Cardinality(Recent(r)) <= 2
        BY <1>5, <4>2, FewerRequests
      <4> QED
        BY <4>1, <4>2, <4>3, FewerRequests
    <3>2. CASE asked'[q] # clock
      <4>1. q # r /\ q \in Unwatched /\ asked'[q] = asked[q] /\ asked[q] < clock
        BY <1>0, <1>3, <2>4, <3>2 DEF RequestsAreTrue, Unwatched, RiskTypeOK
      <4>2. Window(q)' \subseteq Window(q) /\ Window(q) \subseteq RefundRequests
        BY <1>0, <1>3, <2>4, <4>1 DEF Window, Unwatched, RiskTypeOK
      <4>3. Cardinality(Window(q)) <= 2
        BY <1>0, <4>1 DEF FewUnwatched
      <4> QED
        BY <4>2, <4>3, FewerRequests
    <3> QED
      BY <3>1, <3>2
  <2> QED
    BY <2>1, <2>2, <2>3, <2>5 DEF RiskInvariant, FewUnwatched
<1> QED
  BY <1>4, <1>5 DEF WalletRefund

\* The end of a refund keeps the invariant: what was held for it goes out or
\* comes back.
LEMMA RefundEndKeeps ==
  ASSUME RiskInvariant, NEW r \in RefundRequests, RefundEnds(r)
  PROVE  RiskInvariant'
<1>0. RiskTypeOK /\ RequestsAreTrue /\ FewUnwatched /\ HeldIsPending
  BY RiskParts
<1>1. PICK outcome \in {"success", "failed"} :
        /\ part' = [part EXCEPT ![r] = outcome]
        /\ wallet' = [wallet EXCEPT !.held = @ - 1,
                        !.balance = IF outcome = "success" THEN @ - 1 ELSE @]
  BY DEF RefundEnds
<1>2. part[r] = "pending" /\ UNCHANGED <<clock, asked, freeze, review>>
  BY DEF RefundEnds
<1>3. /\ part' \in [RefundRequests -> {"none", "pending", "success", "failed"}]
      /\ part'[r] = outcome /\ \A q \in RefundRequests \ {r} : part'[q] = part[q]
  BY <1>0, <1>1 DEF RiskTypeOK
<1>4. Pending' = Pending \ {r} /\ r \in Pending
  BY <1>2, <1>3 DEF Pending
<1>5. IsFiniteSet(Pending) /\ Cardinality(Pending) \in Nat
  BY FewerRequests DEF Pending
<1>6. Cardinality(Pending \ {r}) = Cardinality(Pending) - 1
  BY <1>4, <1>5, FS_RemoveElement
<1>7. Cardinality(Pending) >= 1
  BY <1>4, <1>5, FS_EmptySet
<1>8. /\ wallet'.held = wallet.held - 1 /\ wallet'.balance \in {wallet.balance, wallet.balance - 1}
      /\ wallet'.status = wallet.status
      /\ wallet' = [status |-> wallet'.status, balance |-> wallet'.balance, held |-> wallet'.held]
  BY <1>0, <1>1 DEF RiskTypeOK
<1>9. /\ wallet' \in [status : {"none", "active", "frozen"}, balance : Nat, held : Nat]
      /\ wallet'.held <= wallet'.balance /\ wallet'.held = Cardinality(Pending) - 1
  BY <1>0, <1>5, <1>7, <1>8 DEF RiskTypeOK, HeldIsPending
<1>10. HeldIsPending'
  BY <1>4, <1>6, <1>9 DEF HeldIsPending
<1>11. RiskTypeOK'
  BY <1>0, <1>2, <1>3, <1>9 DEF RiskTypeOK
<1>12. RequestsAreTrue'
  BY <1>0, <1>2, <1>3, <1>8 DEF RequestsAreTrue
<1>13. Unwatched' \subseteq Unwatched
  BY <1>2, <1>3 DEF Unwatched
<1> QED
  BY <1>2, <1>10, <1>11, <1>12, <1>13, WindowsShrink DEF RiskInvariant

\* ReviewWalletRisk keeps the invariant: a reviewed request stays a watched
\* one.
LEMMA ReviewKeeps ==
  ASSUME RiskInvariant, NEW r \in RefundRequests, ReviewWalletRisk(r)
  PROVE  RiskInvariant'
<1>0. RiskTypeOK /\ RequestsAreTrue /\ FewUnwatched /\ HeldIsPending
  BY RiskParts
<1>1. freeze[r] # "none" /\ review[r] = "none" /\ part[r] = "none"
      /\ UNCHANGED <<clock, asked, freeze>>
  BY <1>0 DEF ReviewWalletRisk, CanReview, RequestsAreTrue
<1>2. CASE CanReserve /\ ReserveRefund(r) /\ review' = [review EXCEPT ![r] = "approved"]
  <2>1. /\ HeldIsPending' /\ wallet'.status = wallet.status
        /\ wallet' \in [status : {"none", "active", "frozen"}, balance : Nat, held : Nat]
        /\ part' \in [RefundRequests -> {"none", "pending", "success", "failed"}]
        /\ part'[r] = "pending" /\ \A q \in RefundRequests \ {r} : part'[q] = part[q]
    BY <1>1, <1>2, ReserveKeeps
  <2>2. RiskTypeOK' /\ RequestsAreTrue'
    BY <1>0, <1>1, <1>2, <2>1 DEF RiskTypeOK, RequestsAreTrue
  <2>3. Unwatched' \subseteq Unwatched
    BY <1>0, <1>1, <1>2, <2>1 DEF Unwatched, RiskTypeOK
  <2> QED
    BY <1>1, <2>1, <2>2, <2>3, WindowsShrink DEF RiskInvariant
<1>3. CASE review' = [review EXCEPT ![r] = "rejected"] /\ UNCHANGED <<part, wallet>>
  <2>1. RiskTypeOK' /\ RequestsAreTrue' /\ HeldIsPending'
    BY <1>0, <1>1, <1>3 DEF RiskTypeOK, RequestsAreTrue, HeldIsPending, Pending
  <2>2. Unwatched' \subseteq Unwatched
    BY <1>0, <1>1, <1>3 DEF Unwatched, RiskTypeOK
  <2> QED
    BY <1>1, <2>1, <2>2, WindowsShrink DEF RiskInvariant
<1> QED
  BY <1>2, <1>3 DEF ReviewWalletRisk

\* ReleaseWalletRisk keeps the invariant: what it releases was approved.
LEMMA ReleaseKeeps ==
  ASSUME RiskInvariant, NEW r \in RefundRequests, ReleaseWalletRisk(r)
  PROVE  RiskInvariant'
<1>0. RiskTypeOK /\ RequestsAreTrue /\ FewUnwatched /\ HeldIsPending
  BY RiskParts
<1>1. /\ freeze' = Unfrozen(r) /\ freeze[r] = "frozen" /\ UNCHANGED <<clock, asked, part, review>>
  BY DEF ReleaseWalletRisk, CanRelease
<1>2. /\ freeze' \in [RefundRequests -> {"none", "frozen", "unfrozen"}] /\ freeze'[r] = "unfrozen"
      /\ \A q \in RefundRequests \ {r} : freeze'[q] = freeze[q]
  BY <1>0, <1>1 DEF RiskTypeOK, Unfrozen
<1>3. /\ wallet' \in [status : {"none", "active", "frozen"}, balance : Nat, held : Nat]
      /\ wallet'.held = wallet.held /\ wallet'.balance = wallet.balance
      /\ wallet'.status = wallet.status \/ \A q \in RefundRequests : freeze'[q] # "frozen"
  BY <1>0, <1>1 DEF RiskTypeOK, ReleaseWalletRisk
<1>4. RiskTypeOK'
  BY <1>0, <1>1, <1>2, <1>3 DEF RiskTypeOK
<1>5. RequestsAreTrue'
  BY <1>0, <1>1, <1>2, <1>3 DEF RequestsAreTrue
<1>6. HeldIsPending' /\ Unwatched' = Unwatched
  BY <1>0, <1>1, <1>3 DEF HeldIsPending, Pending, Unwatched
<1> QED
  BY <1>1, <1>4, <1>5, <1>6, WindowsShrink DEF RiskInvariant

\* Every step on a wallet and its reviews keeps the invariant.
LEMMA RiskKept ==
  ASSUME RiskInvariant, [RiskNext]_riskVars
  PROVE  RiskInvariant'
<1>0. RiskTypeOK /\ RequestsAreTrue /\ FewUnwatched /\ HeldIsPending
  BY RiskParts
<1>1. CASE UNCHANGED <<asked, part, freeze, review>> /\ clock' \in Nat /\ clock' >= clock
           /\ wallet' \in [status : {"none", "active", "frozen"}, balance : Nat, held : Nat]
           /\ (wallet.status = "frozen" => wallet'.status = "frozen")
           /\ wallet'.held = wallet.held /\ wallet'.held <= wallet'.balance
  <2>1. RiskTypeOK' /\ RequestsAreTrue'
    BY <1>0, <1>1 DEF RiskTypeOK, RequestsAreTrue
  <2>2. HeldIsPending' /\ Unwatched' = Unwatched
    BY <1>0, <1>1 DEF HeldIsPending, Pending, Unwatched
  <2> QED
    BY <1>1, <2>1, <2>2, WindowsShrink DEF RiskInvariant
<1>2. CASE TimePasses \/ CustomerStatus \/ \E q \in Recharges : PrepayRecharge(q)
  BY <1>0, <1>1, <1>2 DEF TimePasses, CustomerStatus, PrepayRecharge, RiskTypeOK, HeldIsPending
<1>3. CASE Spend
  BY <1>0, <1>1, <1>3 DEF Spend, RiskTypeOK, HeldIsPending
<1>4. CASE \E q \in Recharges : WalletRecharge(q)
  BY <1>0, <1>1, <1>4 DEF WalletRecharge, RiskTypeOK, HeldIsPending
<1>5. CASE \E q \in Recharges : Credited(q)
  BY <1>0, <1>1, <1>5, WalletRiskConstants DEF Credited, RiskTypeOK, HeldIsPending
<1>6. CASE UNCHANGED riskVars
  BY <1>0, <1>1, <1>6 DEF riskVars, RiskTypeOK, HeldIsPending
<1> QED
  BY <1>2, <1>3, <1>4, <1>5, <1>6, RefundKeeps, RefundEndKeeps, ReviewKeeps, ReleaseKeeps
     DEF RiskNext

\* The invariant holds in every behaviour of the wallet.
THEOREM RiskInvariance == RiskSpec => []RiskInvariant
<1>1. RiskInvariant /\ [RiskNext]_riskVars => RiskInvariant'
  BY RiskKept
<1> QED
  BY RiskStarts, <1>1, PTL DEF RiskSpec

(* No more than two refunds of any five minutes go out without a person    *)
(* having looked at them (user_account.go:327-349, wallet_risks.go:144-156).*)
THEOREM RefundsAreAlwaysWatched == RiskSpec => []RefundsAreWatched
<1>1. RiskInvariant => RefundsAreWatched
  <2> SUFFICES ASSUME RiskInvariant PROVE RefundsAreWatched
    OBVIOUS
  <2>0. RiskTypeOK /\ RequestsAreTrue /\ FewUnwatched /\ HeldIsPending
    BY RiskParts
  <2>1. \A r \in RefundRequests :
          RefundStatus(r) \in {"manual_review", "rejected"} => part[r] = "none"
    BY <2>0 DEF RiskTypeOK, RequestsAreTrue, RefundStatus
  <2>2. wallet.status = "active" => \A r \in RefundRequests : freeze[r] # "frozen"
    BY <2>0 DEF RequestsAreTrue
  <2> QED
    BY <2>0, <2>1, <2>2 DEF RefundsAreWatched, FewUnwatched, Window, HeldIsPending, Pending
<1> QED
  BY RiskInvariance, <1>1, PTL
=============================================================================
