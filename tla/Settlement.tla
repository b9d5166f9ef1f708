------------------------------ MODULE Settlement ------------------------------
(***************************************************************************)
(* What refunds come from: the fee of a finished charge and the wallet of  *)
(* the customer (internal/central/settlement, billing, wallet, card,       *)
(* charge).  A charge ends, its fee is calculated once and frozen, by the  *)
(* meter or by a reviewer, and applied: what was paid and not used goes    *)
(* back to where it came from.  The customer recharges the wallet, swipes  *)
(* a card, or asks for the balance back, part by part to the recharges it  *)
(* came from.                                                              *)
(*                                                                         *)
(* Billing runs overlap as executors do.  Prices are those of any meter: a *)
(* fee is some amount up to what was paid.  Two charges of one order, its  *)
(* refused start and a late payment are in PortCheckout; the freeze of a   *)
(* wallet for asking three times is left out.                              *)
(***************************************************************************)
EXTENDS RefundExecution

CONSTANT Billers  \* runs of the billing service that may overlap

VARIABLES
    task,      \* charge_billing_job.status
    reviewed,  \* charges whose fee a reviewer has fixed
    fee,       \* fee_receipt: the fee that was calculated, once it was
    billed,    \* charge_fee_receipt
    billing,   \* the charge a billing run is applying
    billSeen   \* the reserved refunds that run saw

billVars == <<task, reviewed, fee, billed, billing, billSeen>>
settlementVars == <<bookVars, executionVars, billVars>>

NoFee == -1

BillingTyped ==
    /\ task \in [Charges -> {"none", "pending", "manual_review", "done"}]
    /\ reviewed \subseteq Charges /\ billed \subseteq Charges
    /\ fee \in [Charges -> Nat \cup {NoFee}]
    /\ billing \in [Billers -> Charges \cup {0}]
    /\ billSeen \in [Billers -> SUBSET Refunds]

ControlTyped == RecordsTyped /\ ExecutionTyped /\ BillingTyped
SettlementTypeOK == ControlTyped /\ MoneyTyped /\ SightTyped

SettlementInit ==
    /\ BooksInit /\ ExecutionInit
    /\ task = [p \in Charges |-> "none"]
    /\ reviewed = {} /\ billed = {}
    /\ fee = [p \in Charges |-> NoFee]
    /\ billing = [b \in Billers |-> 0]
    /\ billSeen = [b \in Billers |-> {}]

-----------------------------------------------------------------------------
(* The wallet                                                               *)

RechargeConfirmed(p) ==
    /\ p \in Recharges \ paid
    /\ paid' = paid \cup {p}
    /\ Move(Paid[p])
    /\ UNCHANGED <<recordVars, refunded, order, executionVars, billVars>>

Spendable == balance - frozen

Swipe(p) ==
    /\ p \in Swipes /\ order[p] = "none"
    /\ Paid[p] <= Spendable
    /\ paid' = paid \cup {p}
    /\ order' = [order EXCEPT ![p] = "charging"]
    /\ Move(-Paid[p])
    /\ UNCHANGED <<recordVars, refunded, executionVars, billVars>>

(* How a wallet refund is split: recharges give in the order of their ids.  *)
Available == [p \in Recharges |-> Left(p, Reserved)]
Givers == Recharges \cap paid
GivenBefore(p, amount) ==
    Min({amount, SumFunctionOnSet(Available, {q \in Givers : q < p})})
Shares(amount) ==
    [p \in Recharges |->
        IF p \in Givers THEN Min({amount - GivenBefore(p, amount), Available[p]}) ELSE 0]

ReserveRefund(q, amount) ==
    /\ amount <= Spendable
    /\ \A p \in Recharges : status[<<q, p>>] = "none"
    /\ SumFunction(Shares(amount)) = amount
    /\ LET share == Shares(amount)
           parts == {r \in Parts : r[1] = q /\ share[r[2]] > 0}
       IN  /\ status' = [r \in Refunds |-> IF r \in parts THEN "pending" ELSE status[r]]
           /\ cents' = [r \in Refunds |-> IF r \in parts THEN share[r[2]] ELSE cents[r]]
           /\ due' = due \cup parts
    /\ frozen' = frozen + amount
    /\ UNCHANGED <<policy, receipts, paid, refunded, order, balance, entry, executionVars, billVars>>

-----------------------------------------------------------------------------
(* The fee                                                                  *)

ChargeEnds(p) ==
    /\ order[p] = "charging"
    /\ order' = [order EXCEPT ![p] = "completed"]
    /\ task' = [task EXCEPT ![p] = "pending"]
    /\ UNCHANGED <<recordVars, paid, refunded, walletVars, executionVars,
                   reviewed, fee, billed, billing, billSeen>>

(* Calculate: the first fee stays, whatever is calculated again.            *)
Calculate(p, amount) ==
    /\ task[p] = "pending" /\ fee[p] = NoFee
    /\ fee' = [fee EXCEPT ![p] = amount]
    /\ UNCHANGED <<bookVars, executionVars, task, reviewed, billed, billing, billSeen>>

MeterInDoubt(p) ==
    /\ task[p] = "pending" /\ fee[p] = NoFee /\ p \notin reviewed
    /\ task' = [task EXCEPT ![p] = "manual_review"]
    /\ UNCHANGED <<bookVars, executionVars, reviewed, fee, billed, billing, billSeen>>

ResolveAmount(p) ==
    /\ task[p] = "manual_review"
    /\ task' = [task EXCEPT ![p] = "pending"]
    /\ reviewed' = reviewed \cup {p}
    /\ UNCHANGED <<bookVars, executionVars, fee, billed, billing, billSeen>>

(* Apply reads how the order was paid before it locks the payment.          *)
BeginBilling(b, p) ==
    /\ billing[b] = 0
    /\ fee[p] # NoFee /\ p \notin billed
    /\ billing' = [billing EXCEPT ![b] = p]
    /\ billSeen' = [billSeen EXCEPT ![b] = Reserved]
    /\ UNCHANGED <<bookVars, executionVars, task, reviewed, fee, billed>>

EndBilling(b) ==
    /\ billing' = [billing EXCEPT ![b] = 0]
    /\ billSeen' = [billSeen EXCEPT ![b] = {}]

(* RefundInTx: at once, into the wallet.                                    *)
ReturnToWallet(p, amount) ==
    /\ status' = [status EXCEPT ![<<Fee, p>>] = "success"]
    /\ cents' = [cents EXCEPT ![<<Fee, p>>] = amount]
    /\ refunded' = [refunded EXCEPT ![p] = @ + amount]
    /\ order' = [order EXCEPT ![p] = "refunded"]
    /\ Move(amount)
    /\ UNCHANGED <<policy, due, receipts>>

(* FEE-R: the executor will pay it.                                         *)
ReturnToWechat(p, amount) ==
    /\ OpenRecord(<<Fee, p>>, amount, "automatic")
    /\ SetOrder(p, "completed", "refunding")
    /\ UNCHANGED <<refunded, walletVars>>

Surplus(p, others) == Left(p, others) - fee[p]

ReturnSurplus(p, amount) ==
    IF amount <= 0 THEN UNCHANGED <<recordVars, refunded, order, walletVars>>
    ELSE IF p \in Swipes THEN ReturnToWallet(p, amount)
    ELSE ReturnToWechat(p, amount)

(* A receipt that is there already refuses; so does a fee that the payment  *)
(* no longer covers, and the job stays due.                                 *)
Apply(b) ==
    /\ billing[b] # 0
    /\ LET p == billing[b] IN
       IF p \notin billed /\ fee[p] <= Paid[p] - refunded[p]
         THEN /\ billed' = billed \cup {p}
              /\ task' = [task EXCEPT ![p] = "done"]
              /\ ReturnSurplus(p, Surplus(p, billSeen[b]))
         ELSE UNCHANGED <<billed, task, recordVars, refunded, order, walletVars>>
    /\ EndBilling(b)
    /\ UNCHANGED <<paid, executionVars, reviewed, fee>>

BillingFails(b) ==
    /\ billing[b] # 0
    /\ faults < MaxFaults /\ faults' = faults + 1
    /\ EndBilling(b)
    /\ UNCHANGED <<bookVars, manualVars, taskVars, channelVars, task, reviewed, fee, billed>>

-----------------------------------------------------------------------------
WalletNext ==
    \/ \E p \in Payments : RechargeConfirmed(p) \/ Swipe(p)
    \/ \E q \in WalletRequests :
          \E amount \in 1..SumFunctionOnSet(Paid, Recharges) : ReserveRefund(q, amount)

BillingNext ==
    \/ \E p \in Charges :
          \/ ChargeEnds(p) \/ MeterInDoubt(p) \/ ResolveAmount(p)
          \/ \E amount \in 0..Paid[p] : Calculate(p, amount)
    \/ \E b \in Billers : Apply(b) \/ BillingFails(b) \/ \E p \in Charges : BeginBilling(b, p)

SettlementNext ==
    \/ WalletNext
    \/ BillingNext
    \/ ExecutionNext /\ UNCHANGED billVars

SettlementSpec == SettlementInit /\ [][SettlementNext]_settlementVars

(* A run goes on; the worker asks for runs again and again, a lease runs    *)
(* out, and Batch takes the refunds that have been due longest, twenty at a *)
(* time: fewer than twenty are refused for ever here, so every due one is   *)
(* taken up some time.  WeChat decides.                                     *)
FairSettlement ==
    /\ SettlementSpec
    /\ \A e \in Executors :
          WF_settlementVars(
              /\ \/ Claim(e) \/ QueryRefund(e) \/ CreateRefund(e) \/ Answered(e)
                 \/ ApplyProcessing(e) \/ ApplyClosed(e) \/ ApplySuccess(e)
              /\ UNCHANGED billVars)
    /\ \A r \in Refunds :
          /\ SF_settlementVars(r \in due /\ (\E e \in Executors : BeginClaim(e, r)) /\ UNCHANGED billVars)
          /\ WF_settlementVars(FallsDue(r) /\ UNCHANGED billVars)
          /\ WF_settlementVars(ChannelTakes(r) /\ UNCHANGED billVars)
          /\ WF_settlementVars((\E v \in Verdicts : ChannelDecides(r, v)) /\ UNCHANGED billVars)

-----------------------------------------------------------------------------
(* What WeChat was asked to pay, counting requests still under way, never   *)
(* exceeds what the customer paid.  Requests that overlap may reserve more  *)
(* (WithinPayment fails); the second look of the claim is what keeps the    *)
(* money together (executor.go, claim).                                     *)
AtChannel ==
    {r \in Refunds : \/ channel[r] \in {"processing", "success"}
                     \/ channel[r] = "none" /\ r \in posted}

PaidOutWithinPayment ==
    \A p \in Payments : SumOf(AtChannel \cap RefundsOf(p)) <= Paid[p]

(* The books follow WeChat and never lead it: a refund succeeded only if    *)
(* WeChat paid it, failed only if WeChat closed it, has left no trace there *)
(* before it was claimed, and money that moves there belongs to a record    *)
(* that still waits for the verdict, or has booked it, once, with its       *)
(* receipt (executor.go, apply).                                            *)
Channelled == ({Fee} \X Scans) \cup ManualRefunds \cup Parts

BooksFollowChannel ==
    \A r \in Channelled :
        /\ status[r] \in {"none", "pending", "rejected"} => channel[r] = "none" /\ r \notin posted
        /\ status[r] = "success" => channel[r] = "success"
        /\ status[r] = "failed" => channel[r] = "closed"
        /\ r \in receipts <=> status[r] = "success"

(* Why they do: a refund is opened once, because a draft, the receipt of a   *)
(* fee or the parts of a request find no record; an executor goes to WeChat *)
(* only with a record that is processing or settled, and what it takes for  *)
(* the verdict is the verdict.                                              *)
RefundsAreCoherent ==
    /\ \A p \in Swipes : status[<<Fee, p>>] \in {"none", "success"}
    /\ \A p \in Charges \ billed : status[<<Fee, p>>] = "none"
    /\ \A r \in drafts : status[r] = "none"
    /\ posted \subseteq Channelled
    /\ \A r \in Refunds \ Channelled : channel[r] = "none"
    /\ \A e \in Executors :
          /\ step[e] # "idle" => job[e] \in Channelled
          /\ step[e] \in {"asking", "creating", "waiting", "applying"}
                => status[job[e]] \in {"processing", "success", "failed"}
          /\ step[e] = "applying" /\ answer[e] \in Verdicts
                => channel[job[e]] = answer[e]

SettlementInvariant == ControlTyped /\ RefundsAreCoherent /\ BooksFollowChannel

(* refunded_cents is the sum of the refunds that succeeded, frozen_cents    *)
(* the sum of the parts that wait, the balance what was recharged and not   *)
(* spent or returned, and it covers what is frozen (wallet_refund.go,       *)
(* reservation.go, ledger.go, billing.go).                                  *)
Succeeded == {r \in Refunds : status[r] = "success"}

Kept == [p \in Payments |-> Paid[p] - refunded[p]]

WalletBalances ==
    /\ balance = SumFunctionOnSet(Kept, Recharges \cap paid)
                   - SumFunctionOnSet(Kept, Swipes \cap paid)
    /\ frozen = SumOf(Parts \cap Reserved)
    /\ frozen <= balance

AccountsAgree ==
    /\ \A p \in Payments : refunded[p] = SumOf(Succeeded \cap RefundsOf(p))
    /\ WalletBalances

(* Why they agree: no recharge gives more than is left of it, a refund never *)
(* exceeds its payment, a fee belongs to a charge that was paid, and a part *)
(* to a recharge that arrived.                                              *)
RechargesCover == \A p \in Recharges : Left(p, Reserved) >= 0

MoneyHasSource ==
    /\ \A r \in Parts : status[r] # "none" => PaymentOf(r) \in paid
    /\ \A p \in Charges :
          /\ order[p] = "none" <=> p \notin paid
          /\ task[p] # "none" \/ fee[p] # NoFee \/ p \in billed => p \in paid
    /\ \A b \in Billers : billing[b] # 0 => fee[billing[b]] # NoFee

(* Why WeChat is never asked for too much.  Of two claims that overlap the  *)
(* one that began later saw every refund that is still open of those the    *)
(* earlier one saw, unless the earlier one saw its own.                     *)
ClaimsAreOrdered ==
    /\ \A e \in Executors :
          /\ step[e] = "claiming" => job[e] \in seen[e]
          /\ \A r \in seen[e] : status[r] # "none"
    /\ \A e, f \in Executors :
          step[e] = "claiming" /\ step[f] = "claiming"
          /\ status[job[f]] \in Open /\ job[f] \notin seen[e]
             => seen[e] \cap Reserved \subseteq seen[f]

(* So the refunds the latest successful claim counted, W, hold everything   *)
(* that was claimed and fit the payment, and who claims another refund has  *)
(* seen those of W that are open.                                           *)
Covers(W, p) ==
    /\ {r \in RefundsOf(p) : status[r] \in {"processing", "success"}} \subseteq W
    /\ \A r \in W : status[r] # "none"
    /\ SumOf(W) <= Paid[p]
    /\ \A e \in Executors :
          step[e] = "claiming" /\ PaymentOf(job[e]) = p /\ status[job[e]] \in Open
          /\ job[e] \notin W
             => W \cap Reserved \subseteq seen[e]

ClaimsFit == \A p \in Payments : \E W \in SUBSET RefundsOf(p) : Covers(W, p)

MoneyInvariant ==
    /\ SettlementInvariant /\ MoneyTyped /\ SightTyped
    /\ AccountsAgree /\ RechargesCover /\ MoneyHasSource
    /\ ClaimsAreOrdered /\ ClaimsFit

(* A wallet refund comes to an end, however often calls are cut short: the  *)
(* money is not frozen for ever (README.md:176).                            *)
PartsConclude ==
    \A r \in Parts : status[r] = "pending" ~> status[r] \in {"success", "failed"}

(* What succeeded and what is reserved together stay within the payment     *)
(* (README.md:180).                                                         *)
WithinPayment ==
    \A p \in Payments : SumOf((Reserved \cup Succeeded) \cap RefundsOf(p)) <= Paid[p]

(* What a charge did not use goes back (README.md:180): once it is billed,  *)
(* no refund is open and WeChat refused none, only the fee is kept.         *)
SurplusReturned ==
    \A p \in billed :
        (\A r \in RefundsOf(p) : status[r] \notin Open \cup {"failed"})
            => refunded[p] + fee[p] >= Paid[p]

(* The latest entry of the ledger says the balance after it, as its column  *)
(* promises (0001_init.sql:827).                                            *)
EntryIsBalance == entry = balance
=============================================================================
