------------------------------ MODULE WalletRisk ------------------------------
(***************************************************************************)
(* A customer asks for money back from the wallet (charge/user_account.go, *)
(* admin/wallet_risks.go).  The third request within five minutes reserves *)
(* nothing: it freezes the wallet until the back office has reviewed the   *)
(* request and released the freeze.  A request that is repeated is         *)
(* answered with its receipt and changes nothing.                          *)
(*                                                                         *)
(* Each operation is one step.  Customers and channel take the wallet's    *)
(* row first; a review and a release lock the request and read, and come   *)
(* to the wallet later (wallet_risks.go:119, 196-225).  What may commit in *)
(* between is a credit, the end of a refund or a change of the customer:   *)
(* one request at most is without its release, and until then the wallet   *)
(* is frozen and reserves nothing for anybody else.  The end of a refund   *)
(* still counted as pending can only make an approval fail, and the rest   *)
(* comes out as if the step had been taken when it read.                   *)
(*                                                                         *)
(* All amounts are of one unit.  How a refund is then carried out is the   *)
(* matter of module Settlement; here it ends well, ends badly or waits.    *)
(***************************************************************************)
EXTENDS Integers, FiniteSets

CONSTANTS
  RefundRequests,   \* request ids, in the order the customer uses them
  Recharges,        \* recharges the customer asks for
  RechargeAmount,
  Minutes,          \* how far back requests are counted (five)
  MaxClock          \* bound: the last minute

ASSUME WalletRiskConstants ==
  /\ RefundRequests \subseteq Nat /\ IsFiniteSet(RefundRequests)
  /\ {RechargeAmount, Minutes, MaxClock} \subseteq Nat

VARIABLES
  clock,
  customer,   \* user.status
  recharge,   \* payment_order of a recharge: none, initiated, payable, paid
  wallet,     \* wallet_account: status, balance_cents, frozen_cents
  asked,      \* wallet_refund_request.created_at, -1 for none
  part,       \* refund_record of the request's part
  freeze,     \* risk_freeze_log of the request
  review      \* wallet_risk_review: none, approved, rejected

riskVars == <<clock, customer, recharge, wallet, asked, part, freeze, review>>

RiskInit ==
  /\ clock = 0 /\ customer = "active"
  /\ recharge = [q \in Recharges |-> "none"]
  /\ wallet = [status |-> "none", balance |-> 0, held |-> 0]
  /\ asked = [r \in RefundRequests |-> -1]
  /\ part = [r \in RefundRequests |-> "none"]
  /\ freeze = [r \in RefundRequests |-> "none"]
  /\ review = [r \in RefundRequests |-> "none"]

TimePasses ==
  /\ clock < MaxClock /\ clock' = clock + 1
  /\ UNCHANGED <<customer, recharge, wallet, asked, part, freeze, review>>

CustomerStatus ==
  /\ customer' = IF customer = "active" THEN "disabled" ELSE "active"
  /\ UNCHANGED <<clock, recharge, wallet, asked, part, freeze, review>>

---------------------------------------------------------------------------
(* Recharges                                                               *)

\* The first recharge opens the wallet; a frozen wallet takes no request,
\* not even the same one again.
WalletRecharge(q) ==
  /\ recharge[q] = "none" /\ wallet.status \in {"none", "active"}
  /\ recharge' = [recharge EXCEPT ![q] = "initiated"]
  /\ wallet' = [wallet EXCEPT !.status = "active"]
  /\ UNCHANGED <<clock, customer, asked, part, freeze, review>>

\* The parameters the channel gave are kept: whoever asks again gets the same.
\* A call that is under way asks the channel even if the wallet freezes now.
PrepayRecharge(q) ==
  /\ recharge[q] = "initiated"
  /\ recharge' = [recharge EXCEPT ![q] = "payable"]
  /\ UNCHANGED <<clock, customer, wallet, asked, part, freeze, review>>

Credited(q) ==
  /\ recharge[q] = "payable"
  /\ recharge' = [recharge EXCEPT ![q] = "paid"]
  /\ wallet' = [wallet EXCEPT !.balance = @ + RechargeAmount]
  /\ UNCHANGED <<clock, customer, asked, part, freeze, review>>

\* Move: a charge is paid for only out of a wallet that is active.
Spend ==
  /\ wallet.status = "active" /\ wallet.balance - wallet.held >= 1
  /\ wallet' = [wallet EXCEPT !.balance = @ - 1]
  /\ UNCHANGED <<clock, customer, recharge, asked, part, freeze, review>>

---------------------------------------------------------------------------
(* Refunds                                                                 *)

\* What the recharges can still return: paid, not returned, not promised.
Returnable ==
  RechargeAmount * Cardinality({q \in Recharges : recharge[q] = "paid"})
    - Cardinality({r \in RefundRequests : part[r] \in {"pending", "success"}})

CanReserve == wallet.balance - wallet.held >= 1 /\ Returnable >= 1

ReserveRefund(r) ==
  /\ part' = [part EXCEPT ![r] = "pending"]
  /\ wallet' = [wallet EXCEPT !.held = @ + 1]

\* Mutant: the request that is being made is not counted.
Recent_Others(r) == {q \in RefundRequests \ {r} : asked[q] >= 0 /\ asked[q] >= clock - Minutes}

\* The requests of the last minutes, the one that is being made included.
Recent(r) ==
  {r} \cup {q \in RefundRequests : asked[q] >= 0 /\ asked[q] >= clock - Minutes}

WalletRefund(r) ==
  /\ asked[r] = -1 /\ \A q \in RefundRequests : q < r => asked[q] # -1
  /\ wallet.status = "active" /\ wallet.balance - wallet.held >= 1
  /\ asked' = [asked EXCEPT ![r] = clock]
  /\ \/ /\ Cardinality(Recent(r)) >= 3
        /\ freeze' = [freeze EXCEPT ![r] = "frozen"]
        /\ wallet' = [wallet EXCEPT !.status = "frozen"]
        /\ UNCHANGED part
     \/ /\ Cardinality(Recent(r)) < 3
        /\ CanReserve /\ ReserveRefund(r)
        /\ UNCHANGED freeze
  /\ UNCHANGED <<clock, customer, recharge, review>>

\* The outcome of the refund: the money leaves, or it is no longer held.
RefundEnds(r) ==
  /\ part[r] = "pending"
  /\ \E outcome \in {"success", "failed"} :
       /\ part' = [part EXCEPT ![r] = outcome]
       /\ wallet' = [wallet EXCEPT !.held = @ - 1,
                       !.balance = IF outcome = "success" THEN @ - 1 ELSE @]
  /\ UNCHANGED <<clock, customer, recharge, asked, freeze, review>>

\* The status the customer is shown of a request.
RefundStatus(r) ==
  IF freeze[r] # "none" /\ review[r] = "none" THEN "manual_review"
  ELSE IF review[r] = "rejected" THEN "rejected"
  ELSE IF part[r] = "failed" THEN "needs_review"
  ELSE part[r]

---------------------------------------------------------------------------
(* Finance and customer service                                            *)

CanReview(r) == freeze[r] # "none" /\ review[r] = "none"

\* An approval reserves what was asked, or fails as a whole.
ReviewWalletRisk(r) ==
  /\ CanReview(r)
  /\ \/ /\ CanReserve /\ ReserveRefund(r)
        /\ review' = [review EXCEPT ![r] = "approved"]
     \/ /\ review' = [review EXCEPT ![r] = "rejected"]
        /\ UNCHANGED <<part, wallet>>
  /\ UNCHANGED <<clock, customer, recharge, asked, freeze>>

CanRelease(r) == review[r] # "none" /\ freeze[r] = "frozen"

Unfrozen(r) == [freeze EXCEPT ![r] = "unfrozen"]

\* The wallet opens again if no other freeze is left and the customer is active.
ReleaseWalletRisk(r) ==
  /\ CanRelease(r)
  /\ freeze' = Unfrozen(r)
  /\ wallet' = IF (\A q \in RefundRequests : Unfrozen(r)[q] # "frozen") /\ customer = "active"
               THEN [wallet EXCEPT !.status = "active"] ELSE wallet
  /\ UNCHANGED <<clock, customer, recharge, asked, part, review>>

RiskNext ==
  \/ TimePasses \/ CustomerStatus \/ Spend
  \/ \E q \in Recharges : WalletRecharge(q) \/ PrepayRecharge(q) \/ Credited(q)
  \/ \E r \in RefundRequests :
       WalletRefund(r) \/ RefundEnds(r) \/ ReviewWalletRisk(r) \/ ReleaseWalletRisk(r)

RiskSpec == RiskInit /\ [][RiskNext]_riskVars

---------------------------------------------------------------------------
(* Properties                                                              *)

Unwatched == {r \in RefundRequests : part[r] # "none" /\ review[r] = "none"}

(* No more than two refunds of any five minutes go out without a person    *)
(* having looked at them, whatever was released in between; a wallet that  *)
(* is open has no freeze left; and what the customer sees as under review  *)
(* or rejected holds none of the money (user_account.go:327-349,           *)
(* wallet_risks.go:144-156).                                               *)
RefundsAreWatched ==
  /\ \A r \in Unwatched :
       Cardinality({q \in Unwatched : asked[q] \in (asked[r] - Minutes)..asked[r]}) <= 2
  /\ wallet.status = "active" => \A r \in RefundRequests : freeze[r] # "frozen"
  /\ \A r \in RefundRequests :
       RefundStatus(r) \in {"manual_review", "rejected"} => part[r] = "none"
  /\ wallet.held = Cardinality({r \in RefundRequests : part[r] = "pending"})
  /\ wallet.held <= wallet.balance
=============================================================================
