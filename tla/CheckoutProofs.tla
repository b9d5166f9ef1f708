--------------------------- MODULE CheckoutProofs ---------------------------
(***************************************************************************)
(* The front of a charge, proved for any checkouts, cards, ports, swipes,  *)
(* rounds of the dispatcher and failures.                                  *)
(*                                                                         *)
(* The checkout keeps its books: money becomes an order or one refund, and *)
(* a card session is open exactly as long as its order.                    *)
(*                                                                         *)
(* What a board is told of a card: a round carries its decision through    *)
(* several calls, while another round may decide the same event.  The      *)
(* invariant says what keeps them apart: what is sent is the frozen reply, *)
(* a request belongs to the one round that waits for it, and as long as an *)
(* event was never taken up twice at a time nobody is left to sell it once *)
(* it has been denied.                                                     *)
(***************************************************************************)
EXTENDS PortCheckout, CardDispatch, TLAPS

-----------------------------------------------------------------------------
(* Checkouts.                                                               *)

(* The checkout starts with nothing reserved and nothing paid.              *)
LEMMA CheckoutStarts == CheckoutInit => CheckoutInvariant
<1> USE OrdersAssumption, BalanceAssumption, PortOfAssumption, MaxFaultsAssumption
<1> SUFFICES ASSUME CheckoutInit PROVE CheckoutInvariant
  OBVIOUS
<1>1. CheckoutTypeOK
  BY DEF CheckoutInit, CentralInit, CheckoutTypeOK, CentralTypeOK, OrderStatus, Holders
<1>2. CheckoutIsCoherent
  BY DEF CheckoutInit, CheckoutIsCoherent
<1>3. MoneyIsAccounted
  BY DEF CheckoutInit, CentralInit, MoneyIsAccounted
<1>4. SessionMatchesOrder
  BY DEF CheckoutInit, CentralInit, SessionMatchesOrder
<1> QED
  BY <1>1, <1>2, <1>3, <1>4 DEF CheckoutInvariant

(* The requests before they insert, and the passing of time, touch neither  *)
(* orders nor money.                                                        *)
LEMMA RequestsKeep ==
  ASSUME CheckoutInvariant, NEW o \in Orders,
         Sweep(o) \/ Check(o) \/ Reserve(o) \/ Lapse(o)
  PROVE  CheckoutInvariant'
<1> USE DEF To, Scans, Cards
<1>0. /\ UNCHANGED <<centralVars, paymentVars, sessionPort, faults>>
      /\ request' \in [Orders -> {"idle", "swept", "checked"}]
      /\ lapsed' \subseteq Scans
  BY DEF CheckoutInvariant, CheckoutTypeOK, CheckoutIsCoherent, Sweep, Check, Reserve, Lapse
<1>1. /\ intent' \in [Orders -> {"none", "initiated", "expired", "paid", "refund_required"}]
      /\ \A q \in Orders : \/ intent'[q] = intent[q]
                           \/ intent[q] = "none" /\ intent'[q] = "initiated"
                           \/ intent[q] = "initiated" /\ intent'[q] = "expired" /\ settling[q] = "no"
      /\ \A q \in Orders : request'[q] # "idle" => intent'[q] = "none"
      /\ \A q \in Cards : intent'[q] = intent[q]
  <2>1. CASE Sweep(o)
    <3>1. /\ intent' = [q \in Orders |-> IF q \in Overdue THEN "expired" ELSE intent[q]]
          /\ request' = [request EXCEPT ![o] = "swept"]
          /\ intent[o] = "none"
          /\ \A q \in Overdue : settling[q] = "no"
      BY <2>1 DEF Sweep
    <3>2. \A q \in Overdue : q \in Orders \ Cards /\ intent[q] = "initiated"
      BY DEF CheckoutInvariant, CheckoutTypeOK, Overdue
    <3>3. intent' \in [Orders -> {"none", "initiated", "expired", "paid", "refund_required"}]
      BY <3>1 DEF CheckoutInvariant, CheckoutTypeOK
    <3>4. \A q \in Orders : request'[q] # "idle" => intent[q] = "none"
      BY <3>1 DEF CheckoutInvariant, CheckoutTypeOK, CheckoutIsCoherent
    <3> QED
      BY <3>1, <3>2, <3>3, <3>4, BalanceAssumption
  <2>2. CASE Check(o)
    BY <2>2 DEF CheckoutInvariant, CheckoutTypeOK, CheckoutIsCoherent, Check
  <2>3. CASE Reserve(o)
    <3>1. /\ request' = [request EXCEPT ![o] = "idle"]
          /\ intent' \in {intent, [intent EXCEPT ![o] = "initiated"]}
          /\ o \notin Cards
      BY <2>3 DEF Reserve
    <3>2. intent[o] = "none"
      BY <2>3 DEF CheckoutInvariant, CheckoutIsCoherent, Reserve
    <3>3. intent' \in [Orders -> {"none", "initiated", "expired", "paid", "refund_required"}]
      BY <3>1 DEF CheckoutInvariant, CheckoutTypeOK
    <3>4. \A q \in Orders : q # o => intent'[q] = intent[q] /\ request'[q] = request[q]
      BY <3>1 DEF CheckoutInvariant, CheckoutTypeOK
    <3>5. intent'[o] \in {"none", "initiated"} /\ request'[o] = "idle"
      BY <3>1, <3>2 DEF CheckoutInvariant, CheckoutTypeOK
    <3> QED
      BY <3>1, <3>2, <3>3, <3>4, <3>5, BalanceAssumption DEF CheckoutInvariant, CheckoutIsCoherent
  <2>4. CASE Lapse(o)
    BY <2>4 DEF CheckoutInvariant, CheckoutTypeOK, CheckoutIsCoherent, Lapse
  <2> QED
    BY <2>1, <2>2, <2>3, <2>4
<1>2. CheckoutTypeOK'
  BY <1>0, <1>1 DEF CheckoutInvariant, CheckoutTypeOK, CentralTypeOK, centralVars, paymentVars
<1>3. CheckoutIsCoherent'
  BY <1>0, <1>1, BalanceAssumption DEF CheckoutInvariant, CheckoutIsCoherent, CheckoutTypeOK, paymentVars
<1>4. MoneyIsAccounted'
  BY <1>0, <1>1 DEF CheckoutInvariant, MoneyIsAccounted, CheckoutTypeOK, centralVars, paymentVars
<1>5. SessionMatchesOrder'
  BY <1>0 DEF CheckoutInvariant, SessionMatchesOrder, centralVars
<1> QED
  BY <1>2, <1>3, <1>4, <1>5 DEF CheckoutInvariant

(* Money taken, and a callback that decides or rolls back, change no order. *)
LEMMA CallbacksKeep ==
  ASSUME CheckoutInvariant, NEW o \in Orders,
         Capture(o) \/ Notify(o) \/ CallbackFails(o)
  PROVE  CheckoutInvariant'
<1> USE DEF To, Scans, Cards
<1>0. /\ UNCHANGED <<centralVars, intentVars, refunds, sessionPort>>
      /\ money' \in [Orders -> {"none", "in time", "late"}]
      /\ settling' \in [Orders -> {"no", "order", "refund"}]
      /\ faults' \in 0..MaxFaults
      /\ \A q \in Orders : \/ money'[q] = money[q]
                           \/ money[q] = "none" /\ intent[q] # "none"
      /\ \A q \in Orders :
           \/ settling'[q] \in {settling[q], "no"}
           \/ /\ q \in Scans /\ ~Settled(q) /\ money[q] # "none"
              /\ settling'[q] = IF InTime(q) THEN "order" ELSE "refund"
  <2>1. CASE Capture(o)
    BY <2>1 DEF CheckoutInvariant, CheckoutTypeOK, Capture
  <2>2. CASE Notify(o)
    BY <2>2 DEF CheckoutInvariant, CheckoutTypeOK, Notify
  <2>3. CASE CallbackFails(o)
    <3>1. /\ UNCHANGED <<centralVars, intentVars, money, refunds, sessionPort>>
          /\ settling' = [settling EXCEPT ![o] = "no"]
          /\ faults' = faults + 1 /\ faults < MaxFaults
      BY <2>3 DEF CallbackFails
    <3>2. faults' \in 0..MaxFaults
      <4>1. faults \in 0..MaxFaults
        BY DEF CheckoutInvariant, CheckoutTypeOK
      <4> QED
        BY <3>1, <4>1, MaxFaultsAssumption
    <3>3. /\ settling' \in [Orders -> {"no", "order", "refund"}]
          /\ \A q \in Orders : settling'[q] \in {settling[q], "no"}
      BY <3>1 DEF CheckoutInvariant, CheckoutTypeOK
    <3> QED
      BY <3>1, <3>2, <3>3 DEF CheckoutInvariant, CheckoutTypeOK
  <2> QED
    BY <2>1, <2>2, <2>3
<1>1. CheckoutTypeOK'
  BY <1>0 DEF CheckoutInvariant, CheckoutTypeOK, CentralTypeOK, centralVars, intentVars
<1>2. CheckoutIsCoherent'
  <2> SUFFICES ASSUME NEW q \in Orders
               PROVE  /\ request[q] # "idle" => intent[q] = "none"
                      /\ money'[q] # "none" => intent[q] # "none"
                      /\ settling'[q] # "no" => q \in Scans /\ intent[q] \in {"initiated", "expired"}
                      /\ settling'[q] = "order" => intent[q] = "initiated" /\ money'[q] = "in time"
                      /\ q \in Cards => intent[q] \in {"none", "paid"}
    BY <1>0 DEF CheckoutIsCoherent, intentVars
  <2>1. /\ request[q] # "idle" => intent[q] = "none"
        /\ money[q] # "none" => intent[q] # "none"
        /\ settling[q] # "no" => q \in Scans /\ intent[q] \in {"initiated", "expired"}
        /\ settling[q] = "order" => intent[q] = "initiated" /\ money[q] = "in time"
        /\ q \in Cards => intent[q] \in {"none", "paid"}
    BY DEF CheckoutInvariant, CheckoutIsCoherent
  <2>2. CASE settling'[q] \in {settling[q], "no"}
    BY <1>0, <2>1, <2>2
  <2>3. CASE /\ q \in Scans /\ ~Settled(q) /\ money[q] # "none"
             /\ settling'[q] = IF InTime(q) THEN "order" ELSE "refund"
    BY <1>0, <2>1, <2>3 DEF CheckoutInvariant, CheckoutTypeOK, InTime, Settled
  <2> QED
    BY <1>0, <2>2, <2>3
<1>3. MoneyIsAccounted'
  BY <1>0 DEF CheckoutInvariant, CheckoutTypeOK, MoneyIsAccounted, centralVars, intentVars
<1>4. SessionMatchesOrder'
  BY <1>0 DEF CheckoutInvariant, SessionMatchesOrder, centralVars
<1> QED
  BY <1>1, <1>2, <1>3, <1>4 DEF CheckoutInvariant

(* An order is created out of an intent that had none, with its money: by a *)
(* callback in time, or by a swipe that finds no session on the port.       *)
LEMMA CreationKeeps ==
  ASSUME CheckoutInvariant, NEW o \in Orders, SettleOrder(o) \/ Swipe(o)
  PROVE  CheckoutInvariant'
<1> USE DEF To
<1>1. CASE o \in Cards /\ request[o] = "checked" /\ sessionPort[PortOf[o]] # NoOrder
             /\ Swipe(o)
  <2>1. /\ UNCHANGED <<intent, lapsed, paymentVars, faults>>
        /\ sessionPort' = sessionPort /\ UNCHANGED centralVars
        /\ request' = [request EXCEPT ![o] = "idle"]
    BY <1>1 DEF Swipe, paymentVars
  <2>2. request' \in [Orders -> {"idle", "swept", "checked"}]
        /\ \A q \in Orders : request'[q] # "idle" => request[q] # "idle"
    BY <2>1 DEF CheckoutInvariant, CheckoutTypeOK
  <2>3. CheckoutTypeOK'
    BY <2>1, <2>2 DEF CheckoutInvariant, CheckoutTypeOK, CentralTypeOK, centralVars, paymentVars
  <2>4. CheckoutIsCoherent'
    BY <2>1, <2>2 DEF CheckoutInvariant, CheckoutIsCoherent, paymentVars
  <2>5. MoneyIsAccounted'
    BY <2>1 DEF CheckoutInvariant, MoneyIsAccounted, centralVars, paymentVars
  <2>6. SessionMatchesOrder'
    BY <2>1 DEF CheckoutInvariant, SessionMatchesOrder, centralVars
  <2> QED
    BY <2>3, <2>4, <2>5, <2>6 DEF CheckoutInvariant
<1>2. CASE \/ SettleOrder(o)
           \/ o \in Cards /\ sessionPort[PortOf[o]] = NoOrder /\ Swipe(o)
  <2>1. /\ order[o] = "none"
        /\ order' = [order EXCEPT ![o] = "paid"]
        /\ intent' = [intent EXCEPT ![o] = "paid"]
        /\ intent[o] # "refund_required"
        /\ UNCHANGED <<startReceipt, endReceipt, activePort, lapsed, refunds, faults>>
        /\ request' \in {request, [request EXCEPT ![o] = "idle"]}
        /\ settling' \in {settling, [settling EXCEPT ![o] = "no"]}
        /\ money' \in {money, [money EXCEPT ![o] = "in time"]}
    BY <1>2 DEF SettleOrder, Swipe, CreatePaidOrder, CheckoutInvariant, CheckoutIsCoherent
  <2>2. money'[o] = "in time" /\ request'[o] = "idle" /\ settling'[o] = "no"
    <3>1. CASE SettleOrder(o)
      BY <3>1 DEF SettleOrder, CheckoutInvariant, CheckoutTypeOK, CheckoutIsCoherent
    <3>2. CASE o \in Cards /\ sessionPort[PortOf[o]] = NoOrder /\ Swipe(o)
      BY <3>2 DEF Swipe, CheckoutInvariant, CheckoutTypeOK, CheckoutIsCoherent, Scans, Cards
    <3> QED
      BY <1>2, <3>1, <3>2
  <2>3. /\ order' \in [Orders -> OrderStatus] /\ order'[o] = "paid"
        /\ intent' \in [Orders -> {"none", "initiated", "expired", "paid", "refund_required"}]
        /\ intent'[o] = "paid"
        /\ request' \in [Orders -> {"idle", "swept", "checked"}]
        /\ settling' \in [Orders -> {"no", "order", "refund"}]
        /\ money' \in [Orders -> {"none", "in time", "late"}]
    BY <2>1 DEF CheckoutInvariant, CheckoutTypeOK, CentralTypeOK, OrderStatus
  <2>4. \A q \in Orders : q # o =>
           /\ order'[q] = order[q] /\ intent'[q] = intent[q] /\ request'[q] = request[q]
           /\ settling'[q] = settling[q] /\ money'[q] = money[q]
    <3>1. /\ order \in [Orders -> OrderStatus] /\ DOMAIN intent = Orders
          /\ DOMAIN request = Orders /\ DOMAIN settling = Orders /\ DOMAIN money = Orders
      BY DEF CheckoutInvariant, CheckoutTypeOK, CentralTypeOK
    <3> SUFFICES ASSUME NEW q \in Orders, q # o
                 PROVE  /\ order'[q] = order[q] /\ intent'[q] = intent[q]
                        /\ request'[q] = request[q]
                        /\ settling'[q] = settling[q] /\ money'[q] = money[q]
      OBVIOUS
    <3>2. order'[q] = order[q] /\ intent'[q] = intent[q]
      BY <2>1, <3>1
    <3>3. request'[q] = request[q]
      BY <2>1, <3>1
    <3>4. settling'[q] = settling[q]
      BY <2>1, <3>1
    <3>5. money'[q] = money[q]
      BY <2>1, <3>1
    <3> QED
      BY <3>2, <3>3, <3>4, <3>5
  <2>5. \/ o \notin Cards /\ sessionPort' = sessionPort
        \/ /\ o \in Cards /\ sessionPort[PortOf[o]] = NoOrder
           /\ sessionPort' = [sessionPort EXCEPT ![PortOf[o]] = o]
    BY <1>2 DEF SettleOrder, Swipe, CheckoutInvariant, CheckoutIsCoherent, Scans, Cards
  <2>6. CheckoutTypeOK'
    <3>1. sessionPort' \in [Ports -> Holders]
      BY <2>5, PortOfAssumption DEF CheckoutInvariant, CheckoutTypeOK, Holders
    <3> QED
      BY <2>1, <2>3, <3>1 DEF CheckoutInvariant, CheckoutTypeOK, CentralTypeOK
  <2>7. CheckoutIsCoherent'
    <3> SUFFICES ASSUME NEW q \in Orders
                 PROVE  /\ request'[q] # "idle" => intent'[q] = "none"
                        /\ money'[q] # "none" => intent'[q] # "none"
                        /\ settling'[q] # "no" => q \in Scans /\ intent'[q] \in {"initiated", "expired"}
                        /\ settling'[q] = "order" => intent'[q] = "initiated" /\ money'[q] = "in time"
                        /\ q \in Cards => intent'[q] \in {"none", "paid"}
      BY DEF CheckoutIsCoherent
    <3>1. CASE q = o
      BY <2>2, <2>3, <3>1
    <3>2. CASE q # o
      BY <2>4, <3>2 DEF CheckoutInvariant, CheckoutIsCoherent
    <3> QED
      BY <3>1, <3>2
  <2>8. MoneyIsAccounted'
    <3> SUFFICES ASSUME NEW q \in Orders
                 PROVE  /\ order'[q] # "none" <=> intent'[q] = "paid"
                        /\ order'[q] # "none" => money'[q] = "in time"
                        /\ refunds'[q] = IF \/ intent'[q] = "refund_required"
                                            \/ order'[q] \in {"refunding", "refunded"}
                                           THEN 1 ELSE 0
      BY DEF MoneyIsAccounted
    <3>0. /\ order[q] # "none" <=> intent[q] = "paid"
          /\ order[q] # "none" => money[q] = "in time"
          /\ refunds[q] = IF intent[q] = "refund_required" \/ order[q] \in {"refunding", "refunded"}
                            THEN 1 ELSE 0
      BY DEF CheckoutInvariant, MoneyIsAccounted
    <3>1. CASE q = o
      BY <2>1, <2>2, <2>3, <3>0, <3>1
    <3>2. CASE q # o
      BY <2>1, <2>4, <3>0, <3>2
    <3> QED
      BY <3>1, <3>2
  <2>9. SessionMatchesOrder'
    <3> SUFFICES ASSUME NEW p \in Ports, NEW q \in Orders
                 PROVE  sessionPort'[p] = q <=>
                          q \in Cards /\ PortOf[q] = p /\ order'[q] \in {"paid", "charging"}
      BY DEF SessionMatchesOrder
    <3>1. sessionPort[p] = q <=>
             q \in Cards /\ PortOf[q] = p /\ order[q] \in {"paid", "charging"}
      BY DEF CheckoutInvariant, SessionMatchesOrder
    <3>2. CASE o \notin Cards /\ sessionPort' = sessionPort
      BY <2>3, <2>4, <3>1, <3>2
    <3>3. CASE /\ o \in Cards /\ sessionPort[PortOf[o]] = NoOrder
               /\ sessionPort' = [sessionPort EXCEPT ![PortOf[o]] = o]
      <4>1. /\ PortOf[o] \in Ports
            /\ sessionPort'[p] = IF p = PortOf[o] THEN o ELSE sessionPort[p]
        BY <3>3, PortOfAssumption DEF CheckoutInvariant, CheckoutTypeOK
      <4>2. CASE q = o
        BY <2>1, <2>3, <3>1, <3>3, <4>1, <4>2
      <4>3. CASE q # o
        BY <2>4, <3>1, <3>3, <4>1, <4>3, OrdersAssumption
      <4> QED
        BY <4>2, <4>3
    <3> QED
      BY <2>5, <3>2, <3>3
  <2> QED
    BY <2>6, <2>7, <2>8, <2>9 DEF CheckoutInvariant
<1> QED
  BY <1>1, <1>2 DEF Swipe

(* A late payment is queued for refund, once, and makes no order.           *)
LEMMA LateRefundKeeps ==
  ASSUME CheckoutInvariant, NEW o \in Orders, QueueLateRefund(o)
  PROVE  CheckoutInvariant'
<1> USE DEF To
<1>1. /\ intent[o] \in {"initiated", "expired"}
      /\ intent' = [intent EXCEPT ![o] = "refund_required"]
      /\ refunds' = [refunds EXCEPT ![o] = refunds[o] + 1]
      /\ settling' = [settling EXCEPT ![o] = "no"]
      /\ settling[o] = "refund"
      /\ UNCHANGED <<order, startReceipt, endReceipt, activePort>>
      /\ UNCHANGED <<request, lapsed, money, sessionPort, faults>>
  BY DEF QueueLateRefund, centralVars
<1>2. /\ intent' \in [Orders -> {"none", "initiated", "expired", "paid", "refund_required"}]
      /\ settling' \in [Orders -> {"no", "order", "refund"}]
      /\ intent'[o] = "refund_required" /\ settling'[o] = "no"
      /\ \A q \in Orders : q # o => intent'[q] = intent[q] /\ settling'[q] = settling[q]
  BY <1>1 DEF CheckoutInvariant, CheckoutTypeOK
<1>3. /\ refunds' \in [Orders -> Nat]
      /\ refunds'[o] = refunds[o] + 1
      /\ \A q \in Orders : q # o => refunds'[q] = refunds[q]
  <2>0. refunds \in [Orders -> Nat]
    BY DEF CheckoutInvariant, CheckoutTypeOK
  <2>1. refunds \in [Orders -> Nat] /\ refunds[o] + 1 \in Nat
    BY <2>0
  <2> QED
    BY <1>1, <2>1
<1>4. CheckoutTypeOK'
  BY <1>1, <1>2, <1>3 DEF CheckoutInvariant, CheckoutTypeOK, CentralTypeOK
<1>5. CheckoutIsCoherent'
  <2> SUFFICES ASSUME NEW q \in Orders
               PROVE  /\ request[q] # "idle" => intent'[q] = "none"
                      /\ money[q] # "none" => intent'[q] # "none"
                      /\ settling'[q] # "no" => q \in Scans /\ intent'[q] \in {"initiated", "expired"}
                      /\ settling'[q] = "order" => intent'[q] = "initiated" /\ money[q] = "in time"
                      /\ q \in Cards => intent'[q] \in {"none", "paid"}
    BY <1>1 DEF CheckoutIsCoherent
  <2>1. /\ request[q] # "idle" => intent[q] = "none"
        /\ money[q] # "none" => intent[q] # "none"
        /\ settling[q] # "no" => q \in Scans /\ intent[q] \in {"initiated", "expired"}
        /\ settling[q] = "order" => intent[q] = "initiated" /\ money[q] = "in time"
        /\ q \in Cards => intent[q] \in {"none", "paid"}
    BY DEF CheckoutInvariant, CheckoutIsCoherent
  <2>2. CASE q = o
    BY <1>1, <1>2, <2>1, <2>2
  <2>3. CASE q # o
    BY <1>2, <2>1, <2>3
  <2> QED
    BY <2>2, <2>3
<1>6. MoneyIsAccounted'
  <2> SUFFICES ASSUME NEW q \in Orders
               PROVE  /\ order[q] # "none" <=> intent'[q] = "paid"
                      /\ order[q] # "none" => money[q] = "in time"
                      /\ refunds'[q] = IF \/ intent'[q] = "refund_required"
                                          \/ order[q] \in {"refunding", "refunded"}
                                         THEN 1 ELSE 0
    BY <1>1 DEF MoneyIsAccounted
  <2>1. /\ order[q] # "none" <=> intent[q] = "paid"
        /\ order[q] # "none" => money[q] = "in time"
        /\ refunds[q] = IF intent[q] = "refund_required" \/ order[q] \in {"refunding", "refunded"}
                          THEN 1 ELSE 0
    BY DEF CheckoutInvariant, MoneyIsAccounted
  <2>2. CASE q = o
    <3>1. order[o] = "none" /\ refunds[o] = 0
      BY <1>1, <2>1, <2>2
    <3> QED
      BY <1>2, <1>3, <2>2, <3>1
  <2>3. CASE q # o
    BY <1>2, <1>3, <2>1, <2>3
  <2> QED
    BY <2>2, <2>3
<1>7. SessionMatchesOrder'
  BY <1>1 DEF CheckoutInvariant, SessionMatchesOrder
<1> QED
  BY <1>4, <1>5, <1>6, <1>7 DEF CheckoutInvariant

(* What the order does later: it stays paid for, a start that failed is     *)
(* refunded once, and the session closes with the order.                    *)
LEMMA OrderKeeps ==
  ASSUME CheckoutInvariant, NEW o \in Orders,
         Started(o) \/ NotStarted(o) \/ Ended(o) \/ Refunded(o)
  PROVE  CheckoutInvariant'
<1> DEFINE Open == {"paid", "charging"}
<1> DEFINE Back == {"refunding", "refunded"}
<1>1. /\ order[o] \in {"paid", "charging", "refunding"}
      /\ order' \in [Orders -> OrderStatus]
      /\ order'[o] # "none"
      /\ \A q \in Orders : q # o => order'[q] = order[q]
      /\ CentralTypeOK'
      /\ UNCHANGED <<request, intent, lapsed, money, settling, faults>>
      /\ \/ /\ order[o] \in Open /\ order'[o] \in Open
            /\ sessionPort' = sessionPort /\ refunds' = refunds
         \/ /\ order[o] \in Back /\ order'[o] \in Back
            /\ sessionPort' = sessionPort /\ refunds' = refunds
         \/ /\ order[o] \in Open /\ order'[o] = "completed"
            /\ SessionEnds(o) /\ refunds' = refunds
         \/ /\ order[o] \in Open /\ order'[o] \in Back
            /\ SessionEnds(o) /\ refunds' = [refunds EXCEPT ![o] = refunds[o] + 1]
  <2> USE DEF CheckoutInvariant, CheckoutTypeOK, CentralTypeOK, OrderStatus, intentVars, paymentVars
  <2>1. CASE Started(o)
    BY <2>1, PortOfAssumption DEF Started, ApplyStartOK, StartApplicable, Holders
  <2>2. CASE NotStarted(o)
    BY <2>2 DEF NotStarted, ApplyStartRefused, StartApplicable, To
  <2>3. CASE Ended(o)
    BY <2>3, PortOfAssumption DEF Ended, ApplyEnd, EndApplicable, Holders
  <2>4. CASE Refunded(o)
    BY <2>4 DEF Refunded, RefundSucceeded
  <2> QED
    BY <2>1, <2>2, <2>3, <2>4
<1>2. /\ refunds' \in [Orders -> Nat]
      /\ \A q \in Orders : q # o => refunds'[q] = refunds[q]
      /\ refunds'[o] = IF order'[o] \in Back /\ order[o] \notin Back
                         THEN refunds[o] + 1 ELSE refunds[o]
  <2>0. refunds \in [Orders -> Nat]
    BY DEF CheckoutInvariant, CheckoutTypeOK
  <2>1. refunds \in [Orders -> Nat] /\ refunds[o] + 1 \in Nat
    BY <2>0
  <2>2. CASE /\ refunds' = refunds
             /\ order'[o] \in Back => order[o] \in Back
    BY <2>1, <2>2
  <2>3. CASE /\ order[o] \in Open /\ order'[o] \in Back
             /\ refunds' = [refunds EXCEPT ![o] = refunds[o] + 1]
    BY <2>1, <2>3
  <2> QED
    BY <1>1, <2>2, <2>3
<1>3. CheckoutTypeOK'
  <2>1. sessionPort' \in [Ports -> Holders]
    BY <1>1 DEF CheckoutInvariant, CheckoutTypeOK, SessionEnds, Holders
  <2> QED
    BY <1>1, <1>2, <2>1 DEF CheckoutInvariant, CheckoutTypeOK
<1>4. CheckoutIsCoherent'
  BY <1>1 DEF CheckoutInvariant, CheckoutIsCoherent
<1>5. MoneyIsAccounted'
  <2> SUFFICES ASSUME NEW q \in Orders
               PROVE  /\ order'[q] # "none" <=> intent[q] = "paid"
                      /\ order'[q] # "none" => money[q] = "in time"
                      /\ refunds'[q] = IF intent[q] = "refund_required" \/ order'[q] \in Back
                                         THEN 1 ELSE 0
    BY <1>1 DEF MoneyIsAccounted
  <2>1. /\ order[q] # "none" <=> intent[q] = "paid"
        /\ order[q] # "none" => money[q] = "in time"
        /\ refunds[q] = IF intent[q] = "refund_required" \/ order[q] \in Back
                          THEN 1 ELSE 0
    BY DEF CheckoutInvariant, MoneyIsAccounted
  <2>2. CASE q = o
    <3>1. intent[o] = "paid" /\ money[o] = "in time" /\ order'[o] # "none"
      BY <1>1, <2>1, <2>2
    <3>2. refunds[o] = IF order[o] \in Back THEN 1 ELSE 0
      BY <2>1, <2>2, <3>1
    <3>3. order[o] \in Back => order'[o] \in Back
      BY <1>1
    <3>4. refunds'[o] = IF order'[o] \in Back THEN 1 ELSE 0
      BY <1>2, <3>2, <3>3
    <3> QED
      BY <2>2, <3>1, <3>4
  <2>3. CASE q # o
    BY <1>1, <1>2, <2>1, <2>3
  <2> QED
    BY <2>2, <2>3
<1>6. SessionMatchesOrder'
  <2> SUFFICES ASSUME NEW p \in Ports, NEW q \in Orders
               PROVE  sessionPort'[p] = q <=>
                        q \in Cards /\ PortOf[q] = p /\ order'[q] \in Open
    BY DEF SessionMatchesOrder
  <2>1. sessionPort[p] = q <=> q \in Cards /\ PortOf[q] = p /\ order[q] \in Open
    BY DEF CheckoutInvariant, SessionMatchesOrder
  <2>2. CASE sessionPort' = sessionPort /\ (order[o] \in Open <=> order'[o] \in Open)
    BY <1>1, <2>1, <2>2
  <2>3. CASE SessionEnds(o) /\ order'[o] \notin Open
    <3>1. sessionPort'[p] = IF sessionPort[p] = o THEN NoOrder ELSE sessionPort[p]
      BY <2>3 DEF SessionEnds
    <3>2. CASE q = o
      BY <2>3, <3>1, <3>2, OrdersAssumption
    <3>3. CASE q # o
      BY <1>1, <2>1, <3>1, <3>3, OrdersAssumption
    <3> QED
      BY <3>2, <3>3
  <2> QED
    BY <1>1, <2>2, <2>3
<1> QED
  BY <1>3, <1>4, <1>5, <1>6 DEF CheckoutInvariant

(* Every step of a request, of the channel or of an order keeps the books.  *)
LEMMA CheckoutStep ==
  ASSUME CheckoutInvariant, [CheckoutNext]_checkoutVars
  PROVE  CheckoutInvariant'
<1>1. CASE UNCHANGED checkoutVars
  <2>1. /\ CheckoutTypeOK' /\ CheckoutIsCoherent'
    BY <1>1 DEF CheckoutInvariant, CheckoutTypeOK, CentralTypeOK, CheckoutIsCoherent,
                checkoutVars, centralVars, intentVars, paymentVars
  <2>2. MoneyIsAccounted'
    BY <1>1 DEF CheckoutInvariant, MoneyIsAccounted, checkoutVars, centralVars, intentVars, paymentVars
  <2>3. SessionMatchesOrder'
    BY <1>1 DEF CheckoutInvariant, SessionMatchesOrder, checkoutVars, centralVars
  <2> QED
    BY <2>1, <2>2, <2>3 DEF CheckoutInvariant
<1>2. CASE RequestNext
  <2> PICK o \in Orders : Sweep(o) \/ Check(o) \/ Reserve(o) \/ Swipe(o)
    BY <1>2 DEF RequestNext
  <2> QED
    BY RequestsKeep, CreationKeeps
<1>3. CASE ChannelNext
  <2> PICK o \in Orders : \/ Lapse(o) \/ Capture(o) \/ Notify(o)
                          \/ SettleOrder(o) \/ QueueLateRefund(o) \/ CallbackFails(o)
    BY <1>3 DEF ChannelNext
  <2> QED
    BY RequestsKeep, CallbacksKeep, CreationKeeps, LateRefundKeeps
<1>4. CASE OrderNext
  <2> PICK o \in Orders : Started(o) \/ NotStarted(o) \/ Ended(o) \/ Refunded(o)
    BY <1>4 DEF OrderNext
  <2> QED
    BY OrderKeeps
<1> QED
  BY <1>1, <1>2, <1>3, <1>4 DEF CheckoutNext

(* The invariant of the checkout holds in every reachable state.            *)
THEOREM CheckoutInvariance == CheckoutSpec => []CheckoutInvariant
BY CheckoutStarts, CheckoutStep, PTL DEF CheckoutSpec

(* Money that was taken is an order or one refund, for any checkouts, cards *)
(* and ports and however their requests and callbacks interleave            *)
(* (payment_callback.go, start_result.go).                                  *)
THEOREM MoneyAccounted == CheckoutSpec => []MoneyIsAccounted
<1>1. CheckoutInvariant => MoneyIsAccounted
  BY DEF CheckoutInvariant
<1> QED
  BY <1>1, CheckoutInvariance, PTL

(* A card session holds its port exactly as long as its order is open       *)
(* (online_card.go, start_result.go, end_result.go).                        *)
THEOREM SessionsMatch == CheckoutSpec => []SessionMatchesOrder
<1>1. CheckoutInvariant => SessionMatchesOrder
  BY DEF CheckoutInvariant
<1> QED
  BY <1>1, CheckoutInvariance, PTL

(* Every variable of the checkout keeps its type.                           *)
THEOREM CheckoutTyped == CheckoutSpec => []CheckoutTypeOK
<1>1. CheckoutInvariant => CheckoutTypeOK
  BY DEF CheckoutInvariant
<1> QED
  BY <1>1, CheckoutInvariance, PTL

-----------------------------------------------------------------------------
(* Cards.                                                                   *)

Results == {"accepted", "denied", "balance"}
Busy(w) == worker[w].at # "idle"

CardTypeOK ==
  /\ reply \in [Events -> Results \cup {"none"}]
  /\ told \in [Events -> SUBSET Results]
  /\ worker \in [Workers -> [at : {"idle", "decide", "asked", "freeze", "send", "finish"},
                             event : Events \cup {"none"},
                             got : Results \cup {"none"}]]
  /\ calls \subseteq [event : Events, at : {"reading", "selling"}, rule : BOOLEAN,
                      caller : Workers \cup {"nobody"}]

\* What a round holds: an event, a decision, the reply it sends.
RoundsHold ==
  \A w \in Workers :
    /\ Busy(w) => EventOf(w) \in Events
    /\ At(w, "freeze") => worker[w].got \in Results
    /\ At(w, "send") => worker[w].got = reply[EventOf(w)] /\ worker[w].got \in Results

ToldIsFrozen == \A e \in Events : told[e] \subseteq {reply[e]} /\ "none" \notin told[e]

\* A request that has a caller is the one that its caller waits for.
CallersWait ==
  /\ \A c \in calls : c.caller \in Workers =>
       At(c.caller, "asked") /\ EventOf(c.caller) = c.event
  /\ \A c, d \in calls : c.caller = d.caller /\ c.caller \in Workers => c = d

\* An event that was never taken up twice at a time has one round, one request.
Alone ==
  \A e \in Events \ overlap :
    /\ \A v, w \in Workers : Busy(v) /\ Busy(w) /\ EventOf(v) = e /\ EventOf(w) = e => v = w
    /\ \A w \in Workers, c \in calls :
         Busy(w) /\ EventOf(w) = e /\ c.event = e => c.caller = w
    /\ \A c, d \in calls : c.event = e /\ d.event = e => c = d

\* Once its reply is frozen nobody decides it any more.
DecidedOnce ==
  \A e \in Events \ overlap : reply[e] # "none" =>
    /\ \A c \in calls : c.event # e
    /\ \A w \in Workers : Busy(w) /\ EventOf(w) = e => At(w, "send") \/ At(w, "finish")

\* What a round has decided, and what is frozen, is what was sold.
Told(e, result) ==
  /\ result = "accepted" => e \in op
  /\ result = "denied" => e \notin op \/ e \in overlap
DecisionsHold ==
  /\ \A w \in Workers : At(w, "freeze") => Told(EventOf(w), worker[w].got)
  /\ \A e \in Events : Told(e, reply[e])

CardInvariant ==
  /\ CardTypeOK /\ RoundsHold /\ ToldIsFrozen /\ CallersWait
  /\ Alone /\ DecidedOnce /\ DecisionsHold

-----------------------------------------------------------------------------
(* The steps                                                                *)

LEMMA CardInitially == CardInit => CardInvariant
BY DEF CardInit, CardInvariant, CardTypeOK, RoundsHold, ToldIsFrozen, CallersWait, Alone,
       DecidedOnce, DecisionsHold, Told, Busy, At, EventOf, Idle, Results

\* The board, the owner of the card and the clock touch nothing of this.
LEMMA OthersKeep ==
  ASSUME CardInvariant, UNCHANGED <<reply, told, worker, calls, op, overlap>>
  PROVE  CardInvariant'
BY DEF CardInvariant, CardTypeOK, RoundsHold, ToldIsFrozen, CallersWait, Alone,
       DecidedOnce, DecisionsHold, Told, Busy, At, EventOf

\* An answer ends its request and, if anybody waits, becomes his decision.
LEMMA AnswerKeeps ==
  ASSUME CardInvariant, NEW c \in calls, NEW result \in {"accepted", "denied"},
         Answer(c, result),
         UNCHANGED <<reply, told, overlap>>,
         op' = op \/ op' = op \cup {c.event},
         Told(c.event, result)'
  PROVE  CardInvariant'
<1> USE DEF CardInvariant, Busy, At, EventOf
<1>1. /\ c.event \in Events
      /\ calls' \subseteq calls
      /\ c \notin calls'
  BY DEF CardTypeOK, Answer
<1>2. \A w \in Workers : w # c.caller => worker'[w] = worker[w]
  BY DEF CardTypeOK, Answer
<1>3. ASSUME c.caller \in Workers
      PROVE  /\ worker[c.caller].at = "asked" /\ worker[c.caller].event = c.event
             /\ worker'[c.caller].at = "freeze" /\ worker'[c.caller].got = result
             /\ worker'[c.caller].event = c.event
  <2>1. worker[c.caller].at = "asked" /\ worker[c.caller].event = c.event
    BY <1>3 DEF CallersWait
  <2>2. worker' = [worker EXCEPT ![c.caller].at = "freeze", ![c.caller].got = result]
    BY <1>3 DEF Answer
  <2> QED
    BY <1>3, <2>1, <2>2 DEF CardTypeOK
<1>4. CardTypeOK'
  BY <1>1, SMTT(30) DEF CardTypeOK, Answer, Results
<1>5. RoundsHold'
  BY <1>1, <1>2, <1>3 DEF RoundsHold, Results
<1>6. ToldIsFrozen'
  BY DEF ToldIsFrozen
<1>7. CallersWait'
  BY <1>1, <1>2, <1>3 DEF CallersWait
<1>8. Alone'
  BY <1>1, <1>2, <1>3 DEF Alone
<1>9. DecidedOnce'
  BY <1>1, <1>2, <1>3 DEF DecidedOnce
<1>10. DecisionsHold'
  <2>1. ASSUME NEW w \in Workers, At(w, "freeze")'
        PROVE  Told(EventOf(w), worker[w].got)'
    <3>1. CASE w = c.caller
      BY <3>1, <1>3
    <3>2. CASE w # c.caller
      <4>1. worker'[w] = worker[w] /\ Told(EventOf(w), worker[w].got)
        BY <2>1, <3>2, <1>2 DEF DecisionsHold
      <4>2. worker[w].event = c.event => c.event \in overlap
        BY <1>1, <2>1, <3>2, <4>1 DEF Alone
      <4> QED
        BY <4>1, <4>2 DEF Told
    <3> QED
      BY <3>1, <3>2
  <2>2. ASSUME NEW e \in Events
        PROVE  Told(e, reply[e])'
    <3>1. Told(e, reply[e])
      BY DEF DecisionsHold
    <3>2. e = c.event /\ reply[e] = "denied" => e \in overlap
      BY DEF DecidedOnce
    <3> QED
      BY <3>1, <3>2 DEF Told
  <2> QED
    BY <2>1, <2>2 DEF DecisionsHold
<1> QED
  BY <1>4, <1>5, <1>6, <1>7, <1>8, <1>9, <1>10

LEMMA SwipeReadsKeeps ==
  ASSUME CardInvariant, NEW c \in calls, SwipeReads(c)
  PROVE  CardInvariant'
<1>1. CASE FirstAnswer(c) # "unknown"
  <2>1. PICK result \in {"accepted", "denied"} : result = FirstAnswer(c)
    BY <1>1 DEF FirstAnswer
  <2>2. Answer(c, result) /\ UNCHANGED <<reply, told, overlap, op>>
    BY <1>1, <2>1 DEF SwipeReads, deliveryVars, tradeVars
  <2>3. Told(c.event, result)'
    BY <2>1, <2>2 DEF Told, FirstAnswer
  <2> QED
    BY <2>2, <2>3, AnswerKeeps
<1>2. CASE FirstAnswer(c) = "unknown"
  <2> DEFINE d == [c EXCEPT !.at = "selling", !.rule = session.stage = "none"]
  <2> USE DEF CardInvariant, Busy, At, EventOf
  <2>1. /\ UNCHANGED <<reply, told, overlap, op, worker>>
        /\ calls' = (calls \ {c}) \cup {d}
    BY <1>2 DEF SwipeReads, deliveryVars, tradeVars
  <2>2. /\ d \in [event : Events, at : {"reading", "selling"}, rule : BOOLEAN,
                   caller : Workers \cup {"nobody"}]
        /\ d.event = c.event /\ d.caller = c.caller
    BY DEF CardTypeOK
  <2> HIDE DEF d
  <2>3. CardTypeOK'
    BY <2>1, <2>2 DEF CardTypeOK
  <2>4. RoundsHold' /\ ToldIsFrozen' /\ DecisionsHold'
    BY <2>1 DEF RoundsHold, ToldIsFrozen, DecisionsHold, Told
  <2>5. CallersWait'
    BY <2>1, <2>2 DEF CallersWait
  <2>6. Alone'
    BY <2>1, <2>2 DEF Alone
  <2>7. DecidedOnce'
    BY <2>1, <2>2 DEF DecidedOnce
  <2> QED
    BY <2>3, <2>4, <2>5, <2>6, <2>7
<1> QED
  BY <1>1, <1>2

LEMMA SwipeSellsKeeps ==
  ASSUME CardInvariant, NEW c \in calls, SwipeSells(c)
  PROVE  CardInvariant'
<1>1. PICK result \in {"accepted", "denied"} :
        result = "accepted" <=> c.event \in op \/ Sells(c)
  OBVIOUS
<1>2. Answer(c, result) /\ UNCHANGED <<reply, told, overlap>>
  BY <1>1 DEF SwipeSells, deliveryVars
<1>3. op' = IF Sells(c) THEN op \cup {c.event} ELSE op
  BY DEF SwipeSells, Sell
<1>4. Told(c.event, result)'
  BY <1>1, <1>3 DEF Told
<1> QED
  BY <1>2, <1>3, <1>4, AnswerKeeps

\* Who gives up leaves his request to nobody.
LEMMA LeavingKeeps ==
  ASSUME CardInvariant, NEW w \in Workers,
         worker' = [worker EXCEPT ![w] = Idle], calls' = Forsaken(w),
         UNCHANGED <<reply, told, op, overlap>>
  PROVE  CardInvariant'
<1> USE DEF CardInvariant, Busy, At, EventOf
<1> DEFINE Left(c) == IF c.caller = w THEN [c EXCEPT !.caller = "nobody"] ELSE c
<1>1. worker'[w].at = "idle" /\ \A v \in Workers : v # w => worker'[v] = worker[v]
  BY DEF CardTypeOK, Idle
<1>2. \A c \in calls : /\ Left(c).event = c.event
                       /\ Left(c).caller # w
                       /\ c.caller # w => Left(c) = c
                       /\ Left(c).caller \in Workers => Left(c) = c
                       /\ Left(c) \in [event : Events, at : {"reading", "selling"},
                                      rule : BOOLEAN, caller : Workers \cup {"nobody"}]
  BY CardDispatchConstants DEF CardTypeOK
<1>3. calls' = {Left(c) : c \in calls}
  BY DEF Forsaken
<1> HIDE DEF Left
<1>4. CardTypeOK'
  <2>1. calls' \subseteq [event : Events, at : {"reading", "selling"},
                          rule : BOOLEAN, caller : Workers \cup {"nobody"}]
    BY <1>2, <1>3
  <2> QED
    BY <2>1 DEF CardTypeOK, Idle
<1>5. RoundsHold'
  BY <1>1 DEF RoundsHold
<1>6. ToldIsFrozen'
  BY DEF ToldIsFrozen
<1>7. CallersWait'
  BY <1>1, <1>2, <1>3 DEF CallersWait
<1>8. Alone'
  <2>1. \A c \in calls, e \in Events \ overlap, v \in Workers :
          Busy(v)' /\ EventOf(v)' = e /\ Left(c).event = e => Left(c).caller = v
    BY <1>1, <1>2 DEF Alone, CallersWait
  <2> QED
    BY <1>1, <1>2, <1>3, <2>1 DEF Alone
<1>9. DecidedOnce'
  BY <1>1, <1>2, <1>3 DEF DecidedOnce
<1>10. DecisionsHold'
  BY <1>1 DEF DecisionsHold, Told
<1> QED
  BY <1>4, <1>5, <1>6, <1>7, <1>8, <1>9, <1>10

\* An event that is taken up while somebody is about it is noted in overlap.
LEMMA TakeKeeps ==
  ASSUME CardInvariant, NEW w \in Workers, NEW e \in Events, Take(w, e)
  PROVE  CardInvariant'
<1> USE DEF CardInvariant, Busy, At, EventOf
<1>1. /\ worker[w].at = "idle"
      /\ worker'[w].event = e /\ worker'[w].got = reply[e]
      /\ worker'[w].at = (IF reply[e] = "none" THEN "decide" ELSE Onward(reply[e]))
      /\ \A v \in Workers : v # w => worker'[v] = worker[v]
      /\ UNCHANGED <<reply, told, calls, op>>
  BY DEF Take, CardTypeOK, deliveryVars, tradeVars
<1>2. overlap \subseteq overlap'
  BY DEF Take
<1>3. e \notin overlap' => /\ \A v \in Workers : worker[v].event # e
                          /\ \A c \in calls : c.event # e
  BY DEF Take
<1>4. worker'[w].at \in {"decide", "send", "finish"}
  BY <1>1 DEF Onward
<1>5. worker'[w].at = "send" => reply[e] \in Results
  BY <1>1 DEF CardTypeOK
<1>6. CardTypeOK'
  <2>1. worker' = [worker EXCEPT ![w] =
          [at |-> IF reply[e] = "none" THEN "decide" ELSE Onward(reply[e]),
           event |-> e, got |-> reply[e]]]
    BY DEF Take
  <2> QED
    BY <1>1, <2>1 DEF CardTypeOK, Onward
<1>7. RoundsHold'
  BY <1>1, <1>4, <1>5 DEF RoundsHold
<1>8. ToldIsFrozen'
  BY <1>1 DEF ToldIsFrozen
<1>9. CallersWait'
  BY <1>1 DEF CallersWait
<1>10. Alone'
  BY <1>1, <1>2, <1>3 DEF Alone
<1>11. DecidedOnce'
  BY <1>1, <1>2, <1>3 DEF DecidedOnce, Onward
<1>12. DecisionsHold'
  BY <1>1, <1>2, <1>4 DEF DecisionsHold, Told
<1> QED
  BY <1>6, <1>7, <1>8, <1>9, <1>10, <1>11, <1>12

LEMMA AskKeeps ==
  ASSUME CardInvariant, NEW w \in Workers, Ask(w)
  PROVE  CardInvariant'
<1> USE DEF CardInvariant, Busy, At, EventOf
<1> DEFINE new == [event |-> EventOf(w), at |-> "reading", rule |-> FALSE, caller |-> w]
<1>1. /\ worker[w].at = "decide" /\ worker[w].event \in Events
      /\ calls' = calls \cup {new}
      /\ worker' = [worker EXCEPT ![w].at = "asked"]
      /\ UNCHANGED <<reply, told, op, overlap>>
  BY DEF Ask, Go, RoundsHold, deliveryVars, tradeVars
<1>2. /\ worker'[w].at = "asked" /\ worker'[w].event = worker[w].event
      /\ \A v \in Workers : v # w => worker'[v] = worker[v]
  BY <1>1 DEF CardTypeOK
<1>3. new.event = worker[w].event /\ new.caller = w
  OBVIOUS
<1>4. CardTypeOK'
  <2>1. new \in [event : Events, at : {"reading", "selling"}, rule : BOOLEAN,
                 caller : Workers \cup {"nobody"}]
    BY <1>1
  <2> HIDE DEF new
  <2> QED
    BY <1>1, <2>1 DEF CardTypeOK
<1> HIDE DEF new
<1>5. \A c \in calls : c.caller # w
  BY <1>1 DEF CallersWait
<1>6. RoundsHold'
  BY <1>1, <1>2 DEF RoundsHold
<1>7. ToldIsFrozen'
  BY <1>1 DEF ToldIsFrozen
<1>8. CallersWait'
  BY <1>1, <1>2, <1>3, <1>5 DEF CallersWait
<1>9. worker[w].event \notin overlap => \A c \in calls : c.event # worker[w].event
  BY <1>1, <1>5 DEF Alone
<1>10. Alone'
  BY <1>1, <1>2, <1>3, <1>9 DEF Alone
<1>11. DecidedOnce'
  BY <1>1, <1>2, <1>3 DEF DecidedOnce
<1>12. DecisionsHold'
  BY <1>1, <1>2 DEF DecisionsHold, Told
<1> QED
  BY <1>4, <1>6, <1>7, <1>8, <1>10, <1>11, <1>12

LEMMA AskBalanceKeeps ==
  ASSUME CardInvariant, NEW w \in Workers, AskBalance(w)
  PROVE  CardInvariant'
<1> USE DEF CardInvariant, Busy, At, EventOf
<1>1. worker[w].at = "decide" /\ UNCHANGED <<reply, told, calls, op, overlap>>
  BY DEF AskBalance, deliveryVars, tradeVars
<1>2. PICK result \in Results : result = "balance"
  BY DEF Results
<1>3. worker' = [worker EXCEPT ![w] = [at |-> "freeze", event |-> worker[w].event,
                                       got |-> result]]
  BY <1>2 DEF AskBalance
<1>4. /\ worker'[w].at = "freeze" /\ worker'[w].event = worker[w].event
      /\ worker'[w].got = result
      /\ \A v \in Workers : v # w => worker'[v] = worker[v]
  BY <1>3 DEF CardTypeOK
<1>5. CardTypeOK'
  BY <1>1, <1>3 DEF CardTypeOK
<1>6. RoundsHold'
  BY <1>1, <1>4 DEF RoundsHold
<1>7. ToldIsFrozen'
  BY <1>1 DEF ToldIsFrozen
<1>8. CallersWait'
  BY <1>1, <1>4 DEF CallersWait
<1>9. Alone'
  BY <1>1, <1>4 DEF Alone
<1>10. DecidedOnce'
  BY <1>1, <1>4 DEF DecidedOnce
<1>11. DecisionsHold'
  BY <1>1, <1>2, <1>4 DEF DecisionsHold, Told
<1> QED
  BY <1>5, <1>6, <1>7, <1>8, <1>9, <1>10, <1>11

LEMMA DecideFinishKeeps ==
  ASSUME CardInvariant, NEW w \in Workers, DecideFinish(w)
  PROVE  CardInvariant'
<1> USE DEF CardInvariant, Busy, At
<1> DEFINE e == EventOf(w)
           frozen == reply'[e]
<1>1. /\ e \in Events /\ worker[w].at = "freeze" /\ worker[w].got \in Results
      /\ Told(e, worker[w].got)
      /\ UNCHANGED <<told, calls, op, overlap>>
  BY DEF DecideFinish, RoundsHold, DecisionsHold, tradeVars
<1>2. /\ frozen \in Results /\ frozen # "none"
      /\ reply[e] = "none" => frozen = worker[w].got
      /\ reply[e] # "none" => frozen = reply[e]
      /\ \A f \in Events : f # e => reply'[f] = reply[f]
      /\ reply' \in [Events -> Results \cup {"none"}]
  BY <1>1 DEF DecideFinish, CardTypeOK, Results
<1>3. worker' = [worker EXCEPT ![w].at = Onward(frozen), ![w].got = frozen]
  BY DEF DecideFinish
<1>4. /\ worker'[w].at = Onward(frozen) /\ worker'[w].got = frozen /\ worker'[w].event = e
      /\ Onward(frozen) \in {"send", "finish"}
      /\ \A v \in Workers : v # w => worker'[v] = worker[v]
  BY <1>3 DEF CardTypeOK, Onward, EventOf
<1> HIDE DEF frozen
<1>5. CardTypeOK'
  BY <1>1, <1>2, <1>3, <1>4 DEF CardTypeOK
<1> USE DEF EventOf
<1>6. RoundsHold'
  <2>1. ASSUME NEW v \in Workers, v # w, worker[v].at = "send"
        PROVE  worker[v].got = reply'[worker[v].event]
    <3>1. worker[v].event \in Events /\ reply[worker[v].event] # "none"
          /\ worker[v].got = reply[worker[v].event]
      BY <2>1 DEF RoundsHold, Results
    <3> QED
      BY <3>1, <1>2 DEF frozen
  <2> QED
    BY <2>1, <1>1, <1>2, <1>4 DEF RoundsHold, frozen
<1>7. ToldIsFrozen'
  BY <1>1, <1>2 DEF ToldIsFrozen, frozen
<1>8. CallersWait' /\ Alone'
  BY <1>1, <1>4 DEF CallersWait, Alone
<1>9. e \notin overlap => /\ \A c \in calls : c.event # e
                        /\ \A v \in Workers : worker[v].at # "idle" /\ worker[v].event = e => v = w
  BY <1>1 DEF Alone, CallersWait
<1>10. DecidedOnce'
  BY <1>1, <1>2, <1>4, <1>9 DEF DecidedOnce
<1>11. DecisionsHold'
  <2>1. Told(e, frozen)
    BY <1>1, <1>2 DEF DecisionsHold
  <2> QED
    BY <2>1, <1>1, <1>2, <1>4 DEF DecisionsHold, Told, frozen
<1> QED
  BY <1>5, <1>6, <1>7, <1>8, <1>10, <1>11

LEMMA SendReplyKeeps ==
  ASSUME CardInvariant, NEW w \in Workers, SendReply(w)
  PROVE  CardInvariant'
<1> USE DEF CardInvariant, Busy, At, EventOf
<1> DEFINE e == worker[w].event
<1>1. /\ worker[w].at = "send" /\ e \in Events
      /\ worker[w].got = reply[e] /\ reply[e] \in Results
      /\ told' = [told EXCEPT ![e] = @ \cup {worker[w].got}]
      /\ worker' = [worker EXCEPT ![w].at = "finish"]
      /\ UNCHANGED <<reply, calls, op, overlap>>
  BY DEF SendReply, Go, RoundsHold, tradeVars
<1>2. /\ worker'[w].at = "finish" /\ worker'[w].event = worker[w].event
      /\ \A v \in Workers : v # w => worker'[v] = worker[v]
  BY <1>1 DEF CardTypeOK
<1>3. CardTypeOK'
  BY <1>1 DEF CardTypeOK
<1>4. ToldIsFrozen'
  BY <1>1 DEF ToldIsFrozen, CardTypeOK, Results
<1>5. RoundsHold'
  BY <1>1, <1>2 DEF RoundsHold
<1>6. CallersWait' /\ Alone'
  BY <1>1, <1>2 DEF CallersWait, Alone
<1>7. DecidedOnce' /\ DecisionsHold'
  BY <1>1, <1>2 DEF DecidedOnce, DecisionsHold, Told
<1> QED
  BY <1>3, <1>4, <1>5, <1>6, <1>7

LEMMA RoundsEnd ==
  ASSUME CardInvariant, NEW w \in Workers,
         AdvanceDone(w) \/ AdvanceRetry(w) \/ RoundEnds(w)
  PROVE  CardInvariant'
<1>1. CASE AdvanceDone(w)
  <2>1. \A c \in calls : c.caller # w
    BY <1>1 DEF AdvanceDone, At, CardInvariant, CallersWait
  <2>2. Forsaken(w) = calls
    BY <2>1 DEF Forsaken
  <2> QED
    BY <1>1, <2>2, LeavingKeeps DEF AdvanceDone, tradeVars
<1>2. CASE AdvanceRetry(w) \/ RoundEnds(w)
  BY <1>2, LeavingKeeps DEF AdvanceRetry, RoundEnds, deliveryVars, tradeVars
<1> QED
  BY <1>1, <1>2

LEMMA CardStep ==
  ASSUME CardInvariant, [CardNext]_cardVars
  PROVE  CardInvariant'
<1>1. CASE UNCHANGED cardVars
  BY <1>1, OthersKeep DEF cardVars, deliveryVars, tradeVars
<1>2. CASE \/ \E e \in Events : RecordCard(e) \/ Ages(e) \/ FallsDue(e)
           \/ Link \/ SessionGoesOn \/ CardStatus
  <2>1. UNCHANGED <<reply, told, worker, calls, op, overlap>>
    BY <1>2 DEF RecordCard, Ages, FallsDue, Link, SessionGoesOn, CardStatus,
                deliveryVars, tradeVars
  <2> QED
    BY <2>1, OthersKeep
<1>3. ASSUME NEW c \in calls, SwipeReads(c) \/ SwipeSells(c) PROVE CardInvariant'
  BY <1>3, SwipeReadsKeeps, SwipeSellsKeeps
<1>4. ASSUME NEW c \in calls, Cancelled(c) PROVE CardInvariant'
  <2>1. calls' \subseteq calls /\ UNCHANGED <<reply, told, worker, op, overlap>>
    BY <1>4 DEF Cancelled, deliveryVars, tradeVars
  <2> QED
    BY <2>1 DEF CardInvariant, CardTypeOK, RoundsHold, ToldIsFrozen, CallersWait, Alone,
                DecidedOnce, DecisionsHold, Told, Busy, At, EventOf
<1>5. ASSUME NEW w \in Workers, NEW e \in Events, Take(w, e) PROVE CardInvariant'
  BY <1>5, TakeKeeps
<1>6. ASSUME NEW w \in Workers, Ask(w) \/ AskBalance(w) \/ DecideFinish(w) \/ SendReply(w)
      PROVE  CardInvariant'
  BY <1>6, AskKeeps, AskBalanceKeeps, DecideFinishKeeps, SendReplyKeeps
<1>7. ASSUME NEW w \in Workers, AdvanceDone(w) \/ AdvanceRetry(w) \/ RoundEnds(w)
      PROVE  CardInvariant'
  BY <1>7, RoundsEnd
<1> QED
  BY <1>1, <1>2, <1>3, <1>4, <1>5, <1>6, <1>7 DEF CardNext

-----------------------------------------------------------------------------
(* The invariant of the rounds: what is sent is frozen, what is decided is  *)
(* what was sold (cards.go:92-117, worker_sync.go:429).                     *)
THEOREM CardInvariance == CardSpec => []CardInvariant
<1>1. CardInit => CardInvariant
  BY CardInitially
<1>2. CardInvariant /\ [CardNext]_cardVars => CardInvariant'
  BY CardStep
<1> QED
  BY <1>1, <1>2, PTL DEF CardSpec

(* However many rounds decide an event, the board hears one answer to it.   *)
THEOREM OneAnswerHeard == CardSpec => []BoardHearsOneAnswer
<1>1. CardInvariant => BoardHearsOneAnswer
  BY DEF CardInvariant, ToldIsFrozen, BoardHearsOneAnswer
<1> QED
  BY <1>1, CardInvariance, PTL

(* A swipe that was accepted was paid for, and a denied one was not unless  *)
(* two rounds were about it at a time.                                      *)
THEOREM DecisionsAreTrue == CardSpec => []DecisionIsTrue
<1>1. CardInvariant => DecisionIsTrue
  BY DEF CardInvariant, DecisionsHold, Told, DecisionIsTrue, Events
<1> QED
  BY <1>1, CardInvariance, PTL
=============================================================================
