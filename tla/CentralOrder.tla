---------------------------- MODULE CentralOrder ----------------------------
(***************************************************************************)
(* central's charge order: internal/central/order.  Each action is one     *)
(* READ COMMITTED transaction that locks the order row, so it is atomic.   *)
(*                                                                         *)
(* Receipts make start-result and end-result safe to deliver again: a      *)
(* second delivery of the same fact is "replayed" and changes nothing, a   *)
(* different fact is a conflict (HTTP 409) and changes nothing either.     *)
(***************************************************************************)
EXTENDS ChargeBase

CONSTANTS
    BalanceOrders,  \* orders paid from the wallet (pay_method = 'balance')
    CheckoutRace    \* TRUE: two checkouts may both pass the availability check

ASSUME BalanceAssumption == BalanceOrders \subseteq Orders
ASSUME CheckoutRaceAssumption == CheckoutRace \in BOOLEAN

VARIABLES
    order,         \* charge_order.status; "none" before the row exists
    startReceipt,  \* charge_start_receipt: the outcome saved for the order
    endReceipt,    \* orders with a charge_end_receipt (and billing job)
    activePort     \* active_port_charge: the order charging on the port

centralVars == <<order, startReceipt, endReceipt, activePort>>

OrderStatus == {"none", "paid", "charging", "completed", "refunding", "refunded"}

CentralTypeOK ==
    /\ order \in [Orders -> OrderStatus]
    /\ startReceipt \in [Orders -> {"none", "ok", "refused"}]
    /\ endReceipt \subseteq Orders
    /\ activePort \in [Ports -> Holders]

CentralInit ==
    /\ order = [o \in Orders |-> "none"]
    /\ startReceipt = [o \in Orders |-> "none"]
    /\ endReceipt = {}
    /\ activePort = [p \in Ports |-> NoOrder]

-----------------------------------------------------------------------------
(* CheckoutPortAvailable counts the paid intents whose order is still open. *)
PortClaimed(p) ==
    \E o \in Orders : PortOf[o] = p /\ order[o] \in {"paid", "charging"}

(* The payment callback, or a card swipe, creates the order already paid.   *)
CreatePaidOrder(o) ==
    /\ order[o] = "none"
    /\ CheckoutRace \/ ~PortClaimed(PortOf[o])
    /\ order' = [order EXCEPT ![o] = "paid"]
    /\ UNCHANGED <<startReceipt, endReceipt, activePort>>

(***************************************************************************)
(* StartResultStore.Apply                                                  *)
(***************************************************************************)
StartReplayed(o, ok) == startReceipt[o] = (IF ok THEN "ok" ELSE "refused")

(* A success must also insert active_port_charge, whose key is the port.    *)
StartApplicable(o, ok) ==
    /\ startReceipt[o] = "none"
    /\ order[o] = "paid"
    /\ ok => activePort[PortOf[o]] = NoOrder

StartConflict(o, ok) == ~StartReplayed(o, ok) /\ ~StartApplicable(o, ok)

ApplyStartOK(o) ==
    /\ StartApplicable(o, TRUE)
    /\ startReceipt' = [startReceipt EXCEPT ![o] = "ok"]
    /\ activePort' = [activePort EXCEPT ![PortOf[o]] = o]
    /\ order' = [order EXCEPT ![o] = "charging"]
    /\ UNCHANGED endReceipt

(* A wallet payment is returned at once; a WeChat one is queued for refund. *)
ApplyStartRefused(o) ==
    /\ StartApplicable(o, FALSE)
    /\ startReceipt' = [startReceipt EXCEPT ![o] = "refused"]
    /\ order' = [order EXCEPT
                   ![o] = IF o \in BalanceOrders THEN "refunded" ELSE "refunding"]
    /\ UNCHANGED <<endReceipt, activePort>>

(***************************************************************************)
(* EndResultStore.Apply                                                    *)
(***************************************************************************)
EndReplayed(o) == o \in endReceipt

EndApplicable(o) ==
    /\ o \notin endReceipt
    /\ order[o] = "charging"
    /\ startReceipt[o] = "ok"
    /\ activePort[PortOf[o]] = o

EndConflict(o) == ~EndReplayed(o) /\ ~EndApplicable(o)

(* Mutant: the row of active_port_charge is left behind.                    *)
ApplyEndKeepingPort(o) ==
    /\ EndApplicable(o)
    /\ endReceipt' = endReceipt \cup {o}
    /\ order' = [order EXCEPT ![o] = "completed"]
    /\ UNCHANGED <<startReceipt, activePort>>

ApplyEnd(o) ==
    /\ EndApplicable(o)
    /\ endReceipt' = endReceipt \cup {o}
    /\ order' = [order EXCEPT ![o] = "completed"]
    /\ activePort' = [activePort EXCEPT ![PortOf[o]] = NoOrder]
    /\ UNCHANGED startReceipt

(* Executor.apply on a confirmed refund of a start failure.                 *)
RefundSucceeded(o) ==
    /\ order[o] = "refunding"
    /\ order' = [order EXCEPT ![o] = "refunded"]
    /\ UNCHANGED <<startReceipt, endReceipt, activePort>>

-----------------------------------------------------------------------------
(* active_port_charge and the order status are written by different        *)
(* statements of start_result.go and end_result.go; they must name the     *)
(* same charge at all times, or the next start on the port is refused      *)
(* (row left behind) or doubled (row lost).                                *)
ActivePortMatchesOrder ==
    \A o \in Orders : order[o] = "charging" <=> activePort[PortOf[o]] = o
=============================================================================
