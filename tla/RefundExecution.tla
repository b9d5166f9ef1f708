---------------------------- MODULE RefundExecution ----------------------------
(***************************************************************************)
(* How a refund gets paid: RefundExecutor.Batch, called by the worker, and *)
(* the requests of the back office that open, sign, reject or hasten one   *)
(* (internal/central/refund).  WeChat keeps one refund per refund_no: it   *)
(* may receive a request after its sender has given up, and reaches its    *)
(* verdict when it likes.                                                  *)
(*                                                                         *)
(* central's transactions run at the database's default, REPEATABLE READ:  *)
(* the first plain read fixes what all plain reads of the transaction see, *)
(* while FOR UPDATE reads the present.  A transaction whose first plain    *)
(* read precedes its first lock is two steps here, what it saw and its     *)
(* commit; the others are one.  Executors overlap, because a dispatch that *)
(* timed out at the worker goes on at central.                             *)
(*                                                                         *)
(* A signature is counted, not named; a second one is somebody else's.     *)
(***************************************************************************)
EXTENDS RefundBooks

CONSTANTS
    Executors,   \* runs of Batch that may overlap
    MaxFaults    \* bound on runs that are cut short

ASSUME MaxFaultsAssumption == MaxFaults \in Nat

VARIABLES
    drafts,      \* open ManualCreate transactions
    glimpse,     \* the reserved refunds such a transaction saw
    signed,      \* manual refunds with a first signature
    step,        \* how far an executor is with its refund
    job,         \* that refund
    seen,        \* the reserved refunds its claim saw
    sawWallet,   \* the balance and frozen money its settlement saw
    answer,      \* what WeChat answered
    posted,      \* CreateRefund requests under way
    channel,     \* refunds at WeChat
    faults

manualVars  == <<drafts, glimpse, signed>>
taskVars    == <<step, job, seen, sawWallet, answer>>
channelVars == <<posted, channel>>
executionVars == <<manualVars, taskVars, channelVars, faults>>

Verdicts == {"success", "closed"}
NoJob == <<Fee, 0>>  \* an idle executor; no payment has the id 0
Nothing == <<0, 0>>

ExecutionTyped ==
    /\ drafts \subseteq ManualRefunds /\ signed \subseteq ManualRefunds
    /\ glimpse \in [ManualRefunds -> SUBSET Refunds]
    /\ step \in [Executors -> {"idle", "claiming", "asking", "creating", "waiting", "applying"}]
    /\ job \in [Executors -> Refunds \cup {NoJob}]
    /\ seen \in [Executors -> SUBSET Refunds]
    /\ answer \in [Executors -> Verdicts \cup {"none", "processing"}]
    /\ posted \subseteq Refunds
    /\ channel \in [Refunds -> Verdicts \cup {"none", "processing"}]

SightTyped == sawWallet \in [Executors -> Nat \X Nat] /\ faults \in 0..MaxFaults

ExecutionInit ==
    /\ drafts = {} /\ signed = {}
    /\ glimpse = [r \in ManualRefunds |-> {}]
    /\ step = [e \in Executors |-> "idle"]
    /\ job = [e \in Executors |-> NoJob]
    /\ seen = [e \in Executors |-> {}]
    /\ sawWallet = [e \in Executors |-> Nothing]
    /\ answer = [e \in Executors |-> "none"]
    /\ posted = {}
    /\ channel = [r \in Refunds |-> "none"]
    /\ faults = 0

-----------------------------------------------------------------------------
(* The back office                                                          *)

(* One request id opens one refund.                                         *)
Unused(r) == \A q \in ManualRefunds : q[1] = r[1] => status[q] = "none" /\ q \notin drafts

(* ManualCreate reads the order before it locks the payment.                *)
BeginManual(r) ==
    /\ r \in ManualRefunds /\ Unused(r)
    /\ drafts' = drafts \cup {r}
    /\ glimpse' = [glimpse EXCEPT ![r] = Reserved]
    /\ UNCHANGED <<bookVars, signed, taskVars, channelVars, faults>>

EndDraft(r) ==
    /\ drafts' = drafts \ {r}
    /\ glimpse' = [glimpse EXCEPT ![r] = {}]
    /\ UNCHANGED <<signed, taskVars, channelVars, faults>>

(* Order and payment are locked and current; the sum of what is reserved is *)
(* a plain read.                                                            *)
ManualCreate(r, amount) ==
    /\ r \in drafts
    /\ order[PaymentOf(r)] = "completed"
    /\ amount <= Left(PaymentOf(r), glimpse[r])
    /\ OpenRecord(r, amount, "manual")
    /\ EndDraft(r)
    /\ UNCHANGED <<paid, refunded, order, walletVars>>

(* Refused, or never finished: nothing is written.                          *)
DropDraft(r) ==
    /\ r \in drafts
    /\ EndDraft(r)
    /\ UNCHANGED bookVars

UnderReview(r) == r \in ManualRefunds /\ status[r] = "pending" /\ policy[r] = "manual"

SignFirst(r) ==
    /\ UnderReview(r) /\ r \notin signed
    /\ cents[r] <= Paid[PaymentOf(r)] - refunded[PaymentOf(r)]
    /\ signed' = signed \cup {r}
    /\ UNCHANGED <<bookVars, drafts, glimpse, taskVars, channelVars, faults>>

SignSecond(r) ==
    /\ UnderReview(r) /\ r \in signed
    /\ cents[r] <= Paid[PaymentOf(r)] - refunded[PaymentOf(r)]
    /\ policy' = [policy EXCEPT ![r] = "automatic"]
    /\ due' = due \cup {r}
    /\ UNCHANGED <<status, cents, receipts, paid, refunded, order, walletVars, executionVars>>

Reject(r) ==
    /\ UnderReview(r)
    /\ SetStatus(r, "rejected")
    /\ UNCHANGED <<paid, refunded, order, walletVars, executionVars>>

(* Retry sets next_attempt_at to now; without it the lease runs out.        *)
FallsDue(r) ==
    /\ policy[r] = "automatic" /\ status[r] \in Open /\ r \notin due
    /\ due' = due \cup {r}
    /\ UNCHANGED <<status, policy, cents, receipts, paid, refunded, order, walletVars, executionVars>>

-----------------------------------------------------------------------------
(* An executor                                                              *)

At(e, where) == step' = [step EXCEPT ![e] = where]

Leave(e) ==
    /\ At(e, "idle")
    /\ job' = [job EXCEPT ![e] = NoJob]
    /\ seen' = [seen EXCEPT ![e] = {}]
    /\ sawWallet' = [sawWallet EXCEPT ![e] = Nothing]
    /\ answer' = [answer EXCEPT ![e] = "none"]

(* Batch has listed r, perhaps a while ago; claim reads it before it locks. *)
BeginClaim(e, r) ==
    /\ step[e] = "idle"
    /\ policy[r] = "automatic" /\ status[r] \in Open
    /\ At(e, "claiming")
    /\ job' = [job EXCEPT ![e] = r]
    /\ seen' = [seen EXCEPT ![e] = Reserved]
    /\ UNCHANGED <<bookVars, manualVars, sawWallet, answer, channelVars, faults>>

(* Mutant: a refund in doubt is not taken up again.                         *)
ClaimableOnce(r) == policy[r] = "automatic" /\ status[r] = "pending" /\ r \in due

Claimable(r) == policy[r] = "automatic" /\ status[r] \in Open /\ r \in due

(* Mutant: what the other refunds of the payment reserve is not looked at.  *)
FitsAlone(r, others) ==
    cents[r] > 0 /\ cents[r] <= Paid[PaymentOf(r)] - refunded[PaymentOf(r)]

Fits(r, others) == cents[r] > 0 /\ cents[r] <= Left(PaymentOf(r), others \ {r})

Claim(e) ==
    /\ step[e] = "claiming"
    /\ IF Claimable(job[e]) /\ Fits(job[e], seen[e])
         THEN /\ status' = [status EXCEPT ![job[e]] = "processing"]
              /\ due' = due \ {job[e]}
              /\ At(e, "asking")
              /\ seen' = [seen EXCEPT ![e] = {}]
              /\ UNCHANGED <<job, sawWallet, answer>>
         ELSE Leave(e) /\ UNCHANGED <<status, due>>
    /\ UNCHANGED <<policy, cents, receipts, paid, refunded, order, walletVars,
                   manualVars, channelVars, faults>>

(* An answer is taken up by a transaction, which for a part of a wallet     *)
(* refund reads the part, and so the past, before it locks the wallet.      *)
TakeAnswer(e) ==
    /\ answer' = [answer EXCEPT ![e] = channel[job[e]]]
    /\ sawWallet' = [sawWallet EXCEPT ![e] =
                       IF job[e] \in Parts THEN <<balance, frozen>> ELSE Nothing]
    /\ At(e, "applying")

QueryRefund(e) ==
    /\ step[e] = "asking"
    /\ IF channel[job[e]] = "none"
         THEN At(e, "creating") /\ UNCHANGED <<sawWallet, answer>>
         ELSE TakeAnswer(e)
    /\ UNCHANGED <<bookVars, manualVars, job, seen, channelVars, faults>>

CreateRefund(e) ==
    /\ step[e] = "creating"
    /\ posted' = posted \cup {job[e]}
    /\ At(e, "waiting")
    /\ UNCHANGED <<bookVars, manualVars, job, seen, sawWallet, answer, channel, faults>>

Answered(e) ==
    /\ step[e] = "waiting" /\ job[e] \notin posted
    /\ TakeAnswer(e)
    /\ UNCHANGED <<bookVars, manualVars, job, seen, channelVars, faults>>

(* Mutant: a call without an answer is taken for a refusal.                 *)
GivesUpAsFailed(e) ==
    /\ step[e] # "idle"
    /\ faults < MaxFaults /\ faults' = faults + 1
    /\ IF step[e] \in {"asking", "creating", "waiting"} /\ status[job[e]] = "processing"
         THEN SetStatus(job[e], "failed") ELSE UNCHANGED recordVars
    /\ Leave(e)
    /\ UNCHANGED <<paid, refunded, order, walletVars, manualVars, channelVars>>

(* Timeout, error or crash: the refund stays processing until its lease is  *)
(* over.                                                                    *)
GivesUp(e) ==
    /\ step[e] # "idle"
    /\ faults < MaxFaults /\ faults' = faults + 1
    /\ Leave(e)
    /\ UNCHANGED <<bookVars, manualVars, channelVars>>

-----------------------------------------------------------------------------
(* apply                                                                    *)

ApplyProcessing(e) ==
    /\ step[e] = "applying" /\ answer[e] = "processing"
    /\ Leave(e)
    /\ UNCHANGED <<bookVars, manualVars, channelVars, faults>>

(* Mutant: a refund that failed keeps the wallet's money frozen.            *)
KeepFrozen(r) == UNCHANGED walletVars

ReleaseFailedRefund(r) ==
    /\ frozen' = IF r \in Parts THEN frozen - cents[r] ELSE frozen
    /\ UNCHANGED <<balance, entry>>

ApplyClosed(e) ==
    /\ step[e] = "applying" /\ answer[e] = "closed"
    /\ IF status[job[e]] = "processing"
         THEN SetStatus(job[e], "failed") /\ ReleaseFailedRefund(job[e])
         ELSE UNCHANGED <<recordVars, walletVars>>
    /\ Leave(e)
    /\ UNCHANGED <<paid, refunded, order, manualVars, channelVars, faults>>

(* The new entry is reckoned from the balance that was seen.                *)
SettleRefundWallet(r, saw) ==
    IF r \in Parts
      THEN /\ balance' = balance - cents[r]
           /\ frozen' = frozen - cents[r]
           /\ entry' = saw - cents[r]
      ELSE UNCHANGED walletVars

(* The order of a charge: refunded when all is back, completed again when   *)
(* nothing more is on its way.                                              *)
SettleOrder(r) ==
    IF r \in Parts THEN UNCHANGED order
    ELSE IF refunded[PaymentOf(r)] + cents[r] = Paid[PaymentOf(r)]
      THEN SetOrder(PaymentOf(r), "refunding", "refunded")
    ELSE IF Reserved \cap RefundsOf(PaymentOf(r)) \subseteq {r}
      THEN SetOrder(PaymentOf(r), "refunding", "completed")
    ELSE UNCHANGED order

(* Mutant: what was booked before is not looked at.                         *)
BookableAgain(e) ==
    job[e] \in Parts => \A i \in {1, 2} : sawWallet[e][i] >= cents[job[e]]

(* A record that is no longer processing, or a receipt, refuses.            *)
Bookable(e) ==
    /\ status[job[e]] = "processing" /\ job[e] \notin receipts
    /\ cents[job[e]] <= Paid[PaymentOf(job[e])] - refunded[PaymentOf(job[e])]
    /\ job[e] \in Parts => \A i \in {1, 2} : sawWallet[e][i] >= cents[job[e]]

Book(r, saw) ==
    /\ receipts' = receipts \cup {r}
    /\ status' = [status EXCEPT ![r] = "success"]
    /\ refunded' = [refunded EXCEPT ![PaymentOf(r)] = @ + cents[r]]
    /\ SettleOrder(r)
    /\ SettleRefundWallet(r, saw)
    /\ UNCHANGED <<policy, cents, due>>

ApplySuccess(e) ==
    /\ step[e] = "applying" /\ answer[e] = "success"
    /\ IF Bookable(e)
         THEN Book(job[e], sawWallet[e][1])
         ELSE UNCHANGED <<recordVars, refunded, order, walletVars>>
    /\ Leave(e)
    /\ UNCHANGED <<paid, manualVars, channelVars, faults>>

-----------------------------------------------------------------------------
(* WeChat: one refund per refund_no, whatever is sent again                 *)

ChannelTakes(r) ==
    /\ r \in posted
    /\ posted' = posted \ {r}
    /\ channel' = IF channel[r] = "none" THEN [channel EXCEPT ![r] = "processing"] ELSE channel
    /\ UNCHANGED <<bookVars, manualVars, taskVars, faults>>

ChannelDecides(r, verdict) ==
    /\ channel[r] = "processing"
    /\ channel' = [channel EXCEPT ![r] = verdict]
    /\ UNCHANGED <<bookVars, manualVars, taskVars, posted, faults>>

-----------------------------------------------------------------------------
OfficeNext ==
    \E r \in Refunds :
        \/ BeginManual(r)
        \/ \E amount \in 1..Paid[PaymentOf(r)] : ManualCreate(r, amount)
        \/ DropDraft(r) \/ SignFirst(r) \/ SignSecond(r) \/ Reject(r) \/ FallsDue(r)

ExecutorNext ==
    \E e \in Executors :
        \/ \E r \in Refunds : BeginClaim(e, r)
        \/ Claim(e) \/ QueryRefund(e) \/ CreateRefund(e) \/ Answered(e) \/ GivesUp(e)
        \/ ApplyProcessing(e) \/ ApplyClosed(e) \/ ApplySuccess(e)

ChannelNext ==
    \E r \in Refunds :
        ChannelTakes(r) \/ \E verdict \in Verdicts : ChannelDecides(r, verdict)

ExecutionNext == OfficeNext \/ ExecutorNext \/ ChannelNext
=============================================================================
