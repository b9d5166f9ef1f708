------------------------------ MODULE RefundBooks ------------------------------
(***************************************************************************)
(* What central has on its books about money that goes back: payments,     *)
(* refund_record, the orders that were paid for, and the wallet of one     *)
(* customer (internal/central/refund, wallet, settlement).                 *)
(*                                                                         *)
(* A payment is a scan or a swipe that bought a charge, or a recharge of   *)
(* the wallet.  A refund is named as the code numbers it: by what asked    *)
(* for it (Fee for the unused rest of a charge, a request of the back      *)
(* office, a request of the customer) and the payment it goes back to.     *)
(* Amounts are cents; identities, digests and reasons are left out.        *)
(***************************************************************************)
EXTENDS Integers, FiniteSetsExt

CONSTANTS
    Scans,           \* charges paid through WeChat
    Swipes,          \* charges paid from the wallet
    Recharges,       \* payments into the wallet; all are payment_order ids
    Paid,            \* payment_order.total_cents
    ManualRequests,  \* request ids of manual refunds
    WalletRequests,  \* request ids of wallet refunds
    Fee              \* FEE-R, CARD-R: the refund of what a charge did not use

Charges  == Scans \cup Swipes
Payments == Charges \cup Recharges

ManualRefunds == ManualRequests \X Scans
Parts         == WalletRequests \X Recharges
Refunds       == ({Fee} \X Charges) \cup ManualRefunds \cup Parts

PaymentOf(r) == r[2]

ASSUME PaymentsAreNumbered == Payments \subseteq Nat \ {0}
ASSUME RowsAreFinite ==
    IsFiniteSet(Payments) /\ IsFiniteSet(ManualRequests) /\ IsFiniteSet(WalletRequests)
ASSUME PaidAssumption == Paid \in [Payments -> Nat \ {0}]
ASSUME KindsDiffer ==
    /\ Scans \cap Swipes = {} /\ Charges \cap Recharges = {}
    /\ Fee \notin ManualRequests \cup WalletRequests
    /\ ManualRequests \cap WalletRequests = {}

VARIABLES
    status,    \* refund_record.status
    policy,    \* refund_record.execution_policy
    cents,     \* refund_record.refund_cents
    due,       \* refunds whose next_attempt_at has passed
    receipts,  \* refund_success_receipt
    paid,      \* payments that were confirmed
    refunded,  \* payment_order.refunded_cents
    order,     \* charge_order.status
    balance,   \* wallet_account.balance_cents
    frozen,    \* wallet_account.frozen_cents
    entry      \* balance_after_cents of the latest wallet_txn

recordVars == <<status, policy, cents, due, receipts>>
walletVars == <<balance, frozen, entry>>
bookVars   == <<recordVars, paid, refunded, order, walletVars>>

Open == {"pending", "processing"}

RecordsTyped ==
    /\ status \in [Refunds -> Open \cup {"none", "success", "failed", "rejected"}]
    /\ policy \in [Refunds -> {"manual", "automatic"}]
    /\ due \subseteq Refunds
    /\ receipts \subseteq Refunds
    /\ paid \subseteq Payments
    /\ order \in [Charges -> {"none", "charging", "completed", "refunding", "refunded"}]

MoneyTyped ==
    /\ cents \in [Refunds -> Nat]
    /\ refunded \in [Payments -> Nat]
    /\ \A p \in Payments : refunded[p] <= Paid[p]
    /\ balance \in Nat /\ frozen \in Nat /\ entry \in Int

BooksInit ==
    /\ status = [r \in Refunds |-> "none"]
    /\ policy = [r \in Refunds |-> "automatic"]
    /\ cents = [r \in Refunds |-> 0]
    /\ due = {} /\ receipts = {}
    /\ paid = Scans
    /\ refunded = [p \in Payments |-> 0]
    /\ order = [p \in Charges |-> IF p \in Scans THEN "charging" ELSE "none"]
    /\ balance = 0 /\ frozen = 0 /\ entry = 0

-----------------------------------------------------------------------------
(* Sums over refunds                                                        *)

RefundsOf(p) == {r \in Refunds : PaymentOf(r) = p}
SumOf(S) == SumFunctionOnSet(cents, S)

(* The refunds that occupy what can be refunded.                            *)
Reserved == {r \in Refunds : status[r] \in Open}

(* What is left of p beside the refunds of S.                               *)
Left(p, S) == Paid[p] - refunded[p] - SumOf(S \cap RefundsOf(p))

-----------------------------------------------------------------------------
(* One row                                                                  *)

OpenRecord(r, amount, how) ==
    /\ status' = [status EXCEPT ![r] = "pending"]
    /\ policy' = [policy EXCEPT ![r] = how]
    /\ cents' = [cents EXCEPT ![r] = amount]
    /\ due' = due \cup {r}
    /\ UNCHANGED receipts

SetStatus(r, to) ==
    /\ status' = [status EXCEPT ![r] = to]
    /\ UNCHANGED <<policy, cents, due, receipts>>

SetOrder(p, from, to) ==
    order' = IF order[p] = from THEN [order EXCEPT ![p] = to] ELSE order

(* wallet.Move, on a row that is locked: the entry says the new balance.    *)
Move(amount) ==
    /\ balance' = balance + amount
    /\ entry' = balance + amount
    /\ UNCHANGED frozen
=============================================================================
