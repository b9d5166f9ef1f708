---------------------------- MODULE PortCheckout ----------------------------
(***************************************************************************)
(* How a port comes to be paid for: internal/central/payment and the swipe *)
(* of internal/central/card.  A scanned checkout reserves the port with a  *)
(* payment intent for five minutes and becomes an order when WeChat's      *)
(* callback confirms the payment; a swipe debits the wallet and creates    *)
(* the order at once.  The order itself then moves as in CentralOrder.     *)
(*                                                                         *)
(* Requests are not atomic.  A scanned checkout sweeps overdue intents,    *)
(* asks whether the port is free, and inserts; a swipe asks in the         *)
(* snapshot of its transaction and inserts later.  Two unique keys guard   *)
(* the inserts: uk_active_port, one intent 'initiated' per port, and       *)
(* card_charge.active_port, one card session per port.  A callback holds   *)
(* the rows of its payment and intent from its decision to its commit, and *)
(* writers of those rows wait for it; readers do not.                      *)
(*                                                                         *)
(* An order is named from the start of the checkout that may create it.    *)
(* The gateway's view of the port, read before the request, is left out:   *)
(* it may be stale, and a request it refuses is one that is never made.    *)
(* So is the extension of a running card session, which makes no order.    *)
(* Nothing asks again when the order is created: CheckoutRace is TRUE.     *)
(***************************************************************************)
EXTENDS CentralOrder, Naturals

CONSTANT MaxFaults  \* bound on callbacks that fail before they commit

ASSUME MaxFaultsAssumption == MaxFaults \in Nat

VARIABLES
    request,      \* how far a checkout or swipe in progress has come
    intent,       \* charge_payment_intent.status
    lapsed,       \* intents whose expires_at has passed
    money,        \* what was taken: by WeChat before or after expires_at,
                  \*   or from the wallet
    settling,     \* PaymentCallbackStore.Apply decided and not committed
    refunds,      \* refund_record rows of the payment
    sessionPort,  \* card_charge.active_port
    faults

intentVars   == <<request, intent, lapsed>>
paymentVars  == <<money, settling, refunds>>
checkoutVars == <<centralVars, intentVars, paymentVars, sessionPort, faults>>

(* Wallet orders come from cards, WeChat orders from scanned codes.         *)
Cards == BalanceOrders
Scans == Orders \ BalanceOrders

CheckoutTypeOK ==
    /\ CentralTypeOK
    /\ request \in [Orders -> {"idle", "swept", "checked"}]
    /\ intent \in [Orders -> {"none", "initiated", "expired", "paid", "refund_required"}]
    /\ lapsed \subseteq Scans
    /\ money \in [Orders -> {"none", "in time", "late"}]
    /\ settling \in [Orders -> {"no", "order", "refund"}]
    /\ refunds \in [Orders -> Nat]
    /\ sessionPort \in [Ports -> Holders]
    /\ faults \in 0..MaxFaults

CheckoutInit ==
    /\ CentralInit
    /\ request = [o \in Orders |-> "idle"]
    /\ intent = [o \in Orders |-> "none"]
    /\ lapsed = {}
    /\ money = [o \in Orders |-> "none"]
    /\ settling = [o \in Orders |-> "no"]
    /\ refunds = [o \in Orders |-> 0]
    /\ sessionPort = [p \in Ports |-> NoOrder]
    /\ faults = 0

To(f, o, value) == [f EXCEPT ![o] = value]

-----------------------------------------------------------------------------
(* Reserve, and the first half of Swipe                                     *)

Initiated(p) == {o \in Scans : PortOf[o] = p /\ intent[o] = "initiated"}
Overdue == {o \in lapsed : intent[o] = "initiated"}

(* The sweep is a statement of its own; it waits for rows a callback holds. *)
Sweep(o) ==
    /\ o \in Scans /\ request[o] = "idle" /\ intent[o] = "none"
    /\ \A q \in Overdue : settling[q] = "no"
    /\ intent' = [q \in Orders |-> IF q \in Overdue THEN "expired" ELSE intent[q]]
    /\ request' = To(request, o, "swept")
    /\ UNCHANGED <<centralVars, lapsed, paymentVars, sessionPort, faults>>

(* CheckoutPortAvailable, without locks, on committed rows.                 *)
PortAvailable(p) == ~PortClaimed(p) /\ Initiated(p) \subseteq lapsed

Check(o) ==
    /\ intent[o] = "none"
    /\ request[o] = (IF o \in Scans THEN "swept" ELSE "idle")
    /\ request' = To(request, o, IF PortAvailable(PortOf[o]) THEN "checked" ELSE "idle")
    /\ UNCHANGED <<centralVars, intent, lapsed, paymentVars, sessionPort, faults>>

(* uk_active_port refuses a second initiated intent; the insert waits for a *)
(* callback that is moving the first one.                                   *)
Reserve(o) ==
    /\ o \in Scans /\ request[o] = "checked"
    /\ \A q \in Initiated(PortOf[o]) : settling[q] = "no"
    /\ request' = To(request, o, "idle")
    /\ intent' = IF Initiated(PortOf[o]) = {} THEN To(intent, o, "initiated") ELSE intent
    /\ UNCHANGED <<centralVars, lapsed, paymentVars, sessionPort, faults>>

Lapse(o) ==
    /\ intent[o] = "initiated" /\ o \notin lapsed
    /\ lapsed' = lapsed \cup {o}
    /\ UNCHANGED <<centralVars, request, intent, paymentVars, sessionPort, faults>>

-----------------------------------------------------------------------------
(* The second half of Swipe: the order is created paid, with its session.   *)

Swipe(o) ==
    /\ o \in Cards /\ request[o] = "checked"
    /\ request' = To(request, o, "idle")
    /\ \/ /\ sessionPort[PortOf[o]] = NoOrder
          /\ CreatePaidOrder(o)
          /\ intent' = To(intent, o, "paid")
          /\ money' = To(money, o, "in time")
          /\ sessionPort' = To(sessionPort, PortOf[o], o)
       \/ /\ sessionPort[PortOf[o]] # NoOrder
          /\ UNCHANGED <<centralVars, intent, money, sessionPort>>
    /\ UNCHANGED <<lapsed, settling, refunds, faults>>

-----------------------------------------------------------------------------
(* The customer pays WeChat, which notifies until it is answered            *)

Capture(o) ==
    /\ o \in Scans /\ intent[o] # "none" /\ money[o] = "none"
    /\ money' = To(money, o, IF o \in lapsed THEN "late" ELSE "in time")
    /\ UNCHANGED <<centralVars, intentVars, settling, refunds, sessionPort, faults>>

Settled(o) == intent[o] \in {"paid", "refund_required"}

(* Mutant: the status of the intent alone decides.                          *)
ActsOnStatus(o) == intent[o] = "initiated"

InTime(o) == intent[o] = "initiated" /\ o \notin lapsed /\ money[o] = "in time"

(* Apply up to its decision: the payment is not settled yet, rows locked.   *)
Notify(o) ==
    /\ o \in Scans /\ money[o] # "none" /\ ~Settled(o) /\ settling[o] = "no"
    /\ settling' = To(settling, o, IF InTime(o) THEN "order" ELSE "refund")
    /\ UNCHANGED <<centralVars, intentVars, money, refunds, sessionPort, faults>>

SettleOrder(o) ==
    /\ settling[o] = "order" /\ intent[o] = "initiated"
    /\ CreatePaidOrder(o)
    /\ intent' = To(intent, o, "paid")
    /\ settling' = To(settling, o, "no")
    /\ UNCHANGED <<request, lapsed, money, refunds, sessionPort, faults>>

(* Mutant: an intent that was swept is not looked for.                      *)
QueueInitiatedRefund(o) ==
    /\ settling[o] = "refund" /\ intent[o] = "initiated"
    /\ intent' = To(intent, o, "refund_required")
    /\ refunds' = To(refunds, o, refunds[o] + 1)
    /\ settling' = To(settling, o, "no")
    /\ UNCHANGED <<centralVars, request, lapsed, money, sessionPort, faults>>

QueueLateRefund(o) ==
    /\ settling[o] = "refund" /\ intent[o] \in {"initiated", "expired"}
    /\ intent' = To(intent, o, "refund_required")
    /\ refunds' = To(refunds, o, refunds[o] + 1)
    /\ settling' = To(settling, o, "no")
    /\ UNCHANGED <<centralVars, request, lapsed, money, sessionPort, faults>>

(* The transaction rolls back; WeChat notifies again.                       *)
CallbackFails(o) ==
    /\ settling[o] # "no"
    /\ faults < MaxFaults /\ faults' = faults + 1
    /\ settling' = To(settling, o, "no")
    /\ UNCHANGED <<centralVars, intentVars, money, refunds, sessionPort>>

-----------------------------------------------------------------------------
(* The order afterwards: start results, end results, refunds                *)

SessionEnds(o) ==
    sessionPort' = [p \in Ports |-> IF sessionPort[p] = o THEN NoOrder ELSE sessionPort[p]]

Started(o) ==
    /\ ApplyStartOK(o)
    /\ UNCHANGED <<intentVars, paymentVars, sessionPort, faults>>

(* Mutant: a refused start leaves active_port set.                          *)
NotStartedKeepsPort(o) ==
    /\ ApplyStartRefused(o)
    /\ refunds' = To(refunds, o, refunds[o] + 1)
    /\ UNCHANGED <<intentVars, money, settling, sessionPort, faults>>

NotStarted(o) ==
    /\ ApplyStartRefused(o)
    /\ refunds' = To(refunds, o, refunds[o] + 1)
    /\ SessionEnds(o)
    /\ UNCHANGED <<intentVars, money, settling, faults>>

Ended(o) ==
    /\ ApplyEnd(o)
    /\ SessionEnds(o)
    /\ UNCHANGED <<intentVars, paymentVars, faults>>

Refunded(o) ==
    /\ RefundSucceeded(o)
    /\ UNCHANGED <<intentVars, paymentVars, sessionPort, faults>>

RequestNext == \E o \in Orders : Sweep(o) \/ Check(o) \/ Reserve(o) \/ Swipe(o)

ChannelNext ==
    \E o \in Orders :
        \/ Lapse(o) \/ Capture(o) \/ Notify(o)
        \/ SettleOrder(o) \/ QueueLateRefund(o) \/ CallbackFails(o)

OrderNext == \E o \in Orders : Started(o) \/ NotStarted(o) \/ Ended(o) \/ Refunded(o)

CheckoutNext == RequestNext \/ ChannelNext \/ OrderNext

CheckoutSpec == CheckoutInit /\ [][CheckoutNext]_checkoutVars

(* WeChat repeats a notification that is not answered; a callback that has  *)
(* its rows finishes.                                                       *)
CheckoutFairness ==
    \A o \in Orders :
        /\ WF_checkoutVars(Notify(o))
        /\ WF_checkoutVars(SettleOrder(o) \/ QueueLateRefund(o))

FairCheckout == CheckoutSpec /\ CheckoutFairness

-----------------------------------------------------------------------------
(* Money taken is either an order or one refund, never both and never       *)
(* twice: an order comes from a payment made in time, a late payment gives  *)
(* no order, and the refund of a start that failed is the only other one    *)
(* (payment_callback.go, start_result.go).                                  *)
MoneyIsAccounted ==
    \A o \in Orders :
        /\ order[o] # "none" <=> intent[o] = "paid"
        /\ order[o] # "none" => money[o] = "in time"
        /\ refunds[o] = IF intent[o] = "refund_required" \/ order[o] \in {"refunding", "refunded"}
                          THEN 1 ELSE 0

(* card_charge.active_port is set exactly while its card order is open: set *)
(* too long it keeps the port from every card, cleared too early it lets a  *)
(* second card in (online_card.go, start_result.go, end_result.go).         *)
SessionMatchesOrder ==
    \A p \in Ports, o \in Orders :
        sessionPort[p] = o <=>
            o \in Cards /\ PortOf[o] = p /\ order[o] \in {"paid", "charging"}

(* Why these two hold: a request in progress has no intent yet, nothing is  *)
(* paid without one, a callback that is deciding holds an intent nobody     *)
(* else may move, and a card order never waits for a payment.               *)
CheckoutIsCoherent ==
    \A o \in Orders :
        /\ request[o] # "idle" => intent[o] = "none"
        /\ money[o] # "none" => intent[o] # "none"
        /\ settling[o] # "no" => o \in Scans /\ intent[o] \in {"initiated", "expired"}
        /\ settling[o] = "order" => intent[o] = "initiated" /\ money[o] = "in time"
        /\ o \in Cards => intent[o] \in {"none", "paid"}

CheckoutInvariant ==
    CheckoutTypeOK /\ CheckoutIsCoherent /\ MoneyIsAccounted /\ SessionMatchesOrder

(* What the customer paid becomes an order or a refund, however often the   *)
(* callback fails and whatever expires meanwhile (README.md:148).           *)
CapturedIsSettled == \A o \in Orders : money[o] # "none" ~> Settled(o)

(* No two open orders are paid for one port: the two unique keys leave no   *)
(* way to occupy it twice (checkout.go:14-16).                              *)
OnePaidOrderPerPort ==
    \A o, q \in Orders :
        /\ order[o] \in {"paid", "charging"} /\ order[q] \in {"paid", "charging"}
        /\ PortOf[o] = PortOf[q]
        => o = q
=============================================================================
