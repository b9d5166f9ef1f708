--------------------------- MODULE SettlementProofs ---------------------------
(***************************************************************************)
(* The books of refunds follow WeChat, the accounts agree with the books,  *)
(* and WeChat is never asked for more than was paid, for any payments,     *)
(* requests, executors, billing runs and number of failures.  The first    *)
(* half needs no amounts; the second adds them up.                         *)
(***************************************************************************)
EXTENDS Settlement, SumTheorems

(* What the kinds of refunds have to do with each other.                    *)
LEMMA Kinds ==
  /\ Channelled \subseteq Refunds
  /\ ManualRefunds \subseteq Channelled
  /\ Parts \subseteq Channelled
  /\ Parts \cap ManualRefunds = {}
  /\ \A p \in Charges : /\ <<Fee, p>> \in Refunds
                        /\ <<Fee, p>> \notin ManualRefunds
                        /\ <<Fee, p>> \notin Parts
  /\ \A p \in Swipes : <<Fee, p>> \notin Channelled
  /\ \A r \in Refunds \ Channelled : \E p \in Swipes : r = <<Fee, p>>
BY KindsDiffer DEF Channelled, Refunds, ManualRefunds, Parts, Charges

(* Before the first charge ends nothing was refunded.                       *)
LEMMA BooksStart == SettlementInit => SettlementInvariant
<1> SUFFICES ASSUME SettlementInit PROVE SettlementInvariant
  OBVIOUS
<1> USE DEF SettlementInit, BooksInit, ExecutionInit
<1>1. RecordsTyped
  BY DEF RecordsTyped, Open, Payments, Charges
<1>2. ExecutionTyped
  BY DEF ExecutionTyped, Verdicts
<1>3. BillingTyped
  BY DEF BillingTyped, NoFee
<1>4. RefundsAreCoherent
  BY Kinds DEF RefundsAreCoherent, Charges
<1>5. BooksFollowChannel
  BY Kinds DEF BooksFollowChannel
<1> QED
  BY <1>1, <1>2, <1>3, <1>4, <1>5 DEF SettlementInvariant, ControlTyped

-----------------------------------------------------------------------------
(* The back office                                                          *)

(* The back office opens, signs and rejects manual refunds.                 *)
LEMMA OfficeKeeps ==
  ASSUME SettlementInvariant, NEW r \in Refunds, UNCHANGED billVars,
         \/ BeginManual(r)
         \/ \E amount \in 1..Paid[PaymentOf(r)] : ManualCreate(r, amount)
         \/ DropDraft(r) \/ SignFirst(r) \/ SignSecond(r) \/ Reject(r) \/ FallsDue(r)
  PROVE  SettlementInvariant'
<1> USE Kinds DEF SettlementInvariant, ControlTyped, billVars
<1>1. /\ UNCHANGED <<receipts, posted, channel, paid, order, step, job, seen, answer>>
      /\ due' \subseteq Refunds /\ signed' \subseteq ManualRefunds
      /\ policy' \in [Refunds -> {"manual", "automatic"}]
      /\ glimpse' \in [ManualRefunds -> SUBSET Refunds]
  BY DEF RecordsTyped, ExecutionTyped, BeginManual, ManualCreate, DropDraft, SignFirst, SignSecond,
         Reject, FallsDue, OpenRecord, SetStatus, EndDraft, UnderReview, Reserved,
         bookVars, recordVars, walletVars, taskVars, channelVars, executionVars, manualVars
<1>2. \/ /\ status' = status
         /\ drafts' \subseteq ManualRefunds
         /\ \A q \in drafts' : status[q] = "none"
      \/ /\ r \in ManualRefunds
         /\ \/ status[r] = "none" /\ status' = [status EXCEPT ![r] = "pending"]
            \/ status[r] = "pending" /\ status' = [status EXCEPT ![r] = "rejected"]
         /\ drafts' \subseteq drafts \ {r}
  <2>1. CASE BeginManual(r)
    BY <2>1 DEF BeginManual, Unused, ExecutionTyped, RefundsAreCoherent, bookVars, recordVars
  <2>2. ASSUME NEW amount \in 1..Paid[PaymentOf(r)], ManualCreate(r, amount)
        PROVE  r \in ManualRefunds /\ status[r] = "none" /\ drafts' = drafts \ {r}
               /\ status' = [status EXCEPT ![r] = "pending"]
    BY <2>2 DEF ManualCreate, OpenRecord, EndDraft, ExecutionTyped, RefundsAreCoherent
  <2>3. CASE DropDraft(r)
    BY <2>3 DEF DropDraft, EndDraft, ExecutionTyped, RefundsAreCoherent, bookVars, recordVars
  <2>4. CASE SignFirst(r) \/ SignSecond(r) \/ FallsDue(r)
    BY <2>4 DEF SignFirst, SignSecond, FallsDue, ExecutionTyped, RefundsAreCoherent,
                bookVars, recordVars, executionVars, manualVars
  <2>5. CASE Reject(r)
    BY <2>5 DEF Reject, UnderReview, SetStatus, ExecutionTyped, RefundsAreCoherent,
                executionVars, manualVars
  <2> QED
    BY <2>1, <2>2, <2>3, <2>4, <2>5
<1>3. status' \in [Refunds -> Open \cup {"none", "success", "failed", "rejected"}]
  BY <1>2 DEF RecordsTyped, Open
<1>4. RecordsTyped'
  BY <1>1, <1>3 DEF RecordsTyped
<1>5. ExecutionTyped'
  BY <1>1, <1>2 DEF ExecutionTyped
<1>6. BillingTyped'
  BY DEF BillingTyped
<1>7. RefundsAreCoherent'
  BY <1>1, <1>2 DEF RefundsAreCoherent, RecordsTyped, ExecutionTyped, Charges
<1>8. BooksFollowChannel'
  BY <1>1, <1>2 DEF BooksFollowChannel, RecordsTyped
<1> QED
  BY <1>4, <1>5, <1>6, <1>7, <1>8

-----------------------------------------------------------------------------
(* An executor                                                              *)

(* A job that is given up leaves nothing to keep.                           *)
LEMMA Leaving ==
  ASSUME ExecutionTyped, NEW e \in Executors, Leave(e)
  PROVE  /\ step' \in [Executors -> {"idle", "claiming", "asking", "creating", "waiting", "applying"}]
         /\ job' \in [Executors -> Refunds \cup {NoJob}]
         /\ seen' \in [Executors -> SUBSET Refunds]
         /\ answer' \in [Executors -> Verdicts \cup {"none", "processing"}]
         /\ step'[e] = "idle"
         /\ \A f \in Executors \ {e} : step'[f] = step[f] /\ job'[f] = job[f] /\ answer'[f] = answer[f]
BY DEF ExecutionTyped, Leave, At

(* A run that is cut short, or is told to wait, leaves the books alone.     *)
LEMMA GivingUpKeeps ==
  ASSUME SettlementInvariant, NEW e \in Executors, UNCHANGED billVars,
         GivesUp(e) \/ ApplyProcessing(e)
  PROVE  SettlementInvariant'
<1> USE DEF SettlementInvariant, ControlTyped
<1>1. /\ UNCHANGED <<status, policy, due, receipts, paid, order>>
      /\ UNCHANGED <<drafts, glimpse, signed, posted, channel>>
      /\ UNCHANGED <<task, reviewed, fee, billed, billing, billSeen>>
      /\ Leave(e)
  BY DEF GivesUp, ApplyProcessing, bookVars, recordVars, manualVars, channelVars, billVars
<1>2. RecordsTyped' /\ BillingTyped'
  BY <1>1 DEF RecordsTyped, BillingTyped
<1>3. ExecutionTyped'
  BY <1>1, Leaving DEF ExecutionTyped
<1>4. RefundsAreCoherent'
  BY <1>1, Leaving DEF RefundsAreCoherent
<1>5. BooksFollowChannel'
  BY <1>1 DEF BooksFollowChannel
<1> QED
  BY <1>2, <1>3, <1>4, <1>5

(* A claim begins with a record that an executor may pay.                   *)
LEMMA BeginClaimKeeps ==
  ASSUME SettlementInvariant, NEW e \in Executors, NEW r \in Refunds, UNCHANGED billVars,
         BeginClaim(e, r)
  PROVE  SettlementInvariant'
<1> USE DEF SettlementInvariant, ControlTyped
<1>1. /\ UNCHANGED <<status, policy, due, receipts, paid, order>>
      /\ UNCHANGED <<drafts, glimpse, signed, posted, channel, answer>>
      /\ UNCHANGED <<task, reviewed, fee, billed, billing, billSeen>>
      /\ step' = [step EXCEPT ![e] = "claiming"]
      /\ job' = [job EXCEPT ![e] = r]
      /\ seen' = [seen EXCEPT ![e] = Reserved]
      /\ status[r] \in Open
  BY DEF BeginClaim, At, bookVars, recordVars, manualVars, channelVars, billVars
<1>2. r \in Channelled
  BY <1>1, Kinds DEF RefundsAreCoherent, Open
<1>3. RecordsTyped' /\ BillingTyped'
  BY <1>1 DEF RecordsTyped, BillingTyped
<1>4. ExecutionTyped'
  BY <1>1 DEF ExecutionTyped, Reserved
<1>5. RefundsAreCoherent'
  BY <1>1, <1>2 DEF RefundsAreCoherent, ExecutionTyped
<1>6. BooksFollowChannel'
  BY <1>1 DEF BooksFollowChannel
<1> QED
  BY <1>3, <1>4, <1>5, <1>6

(* It takes the record up, or leaves it.                                    *)
LEMMA ClaimKeeps ==
  ASSUME SettlementInvariant, NEW e \in Executors, UNCHANGED billVars, Claim(e)
  PROVE  SettlementInvariant'
<1> USE DEF SettlementInvariant, ControlTyped
<1>1. /\ UNCHANGED <<policy, receipts, paid, order>>
      /\ UNCHANGED <<drafts, glimpse, signed, posted, channel>>
      /\ UNCHANGED <<task, reviewed, fee, billed, billing, billSeen>>
      /\ step[e] = "claiming"
  BY DEF Claim, manualVars, channelVars, billVars
<1>2. job[e] \in Channelled /\ job[e] \in Refunds
  BY <1>1, Kinds DEF RefundsAreCoherent
<1>3. RecordsTyped' /\ BillingTyped'
  BY <1>1, <1>2 DEF Claim, RecordsTyped, BillingTyped, Open
<1>4. CASE Claimable(job[e]) /\ Fits(job[e], seen[e])
  <2>1. /\ status' = [status EXCEPT ![job[e]] = "processing"]
        /\ step' = [step EXCEPT ![e] = "asking"]
        /\ seen' = [seen EXCEPT ![e] = {}]
        /\ UNCHANGED <<job, answer>>
        /\ status[job[e]] \in Open
    BY <1>4 DEF Claim, At, Claimable
  <2>2. ExecutionTyped'
    BY <1>1, <2>1 DEF ExecutionTyped
  <2>3. RefundsAreCoherent'
    BY <1>1, <1>2, <2>1, Kinds DEF RefundsAreCoherent, ExecutionTyped, RecordsTyped, Open
  <2>4. BooksFollowChannel'
    BY <1>1, <1>2, <2>1, Kinds DEF BooksFollowChannel, RecordsTyped, Open
  <2> QED
    BY <1>3, <2>2, <2>3, <2>4
<1>5. CASE ~(Claimable(job[e]) /\ Fits(job[e], seen[e]))
  <2>1. Leave(e) /\ UNCHANGED status
    BY <1>5 DEF Claim
  <2>2. ExecutionTyped'
    BY <1>1, <2>1, Leaving DEF ExecutionTyped
  <2>3. RefundsAreCoherent'
    BY <1>1, <2>1, Leaving DEF RefundsAreCoherent
  <2>4. BooksFollowChannel'
    BY <1>1, <2>1 DEF BooksFollowChannel
  <2> QED
    BY <1>3, <2>2, <2>3, <2>4
<1> QED
  BY <1>4, <1>5

(* WeChat is asked about a record that is processing.                       *)
LEMMA AskingKeeps ==
  ASSUME SettlementInvariant, NEW e \in Executors, UNCHANGED billVars,
         QueryRefund(e) \/ CreateRefund(e) \/ Answered(e)
  PROVE  SettlementInvariant'
<1> USE DEF SettlementInvariant, ControlTyped
<1>1. /\ UNCHANGED <<status, policy, due, receipts, paid, order>>
      /\ UNCHANGED <<drafts, glimpse, signed, job, seen, channel>>
      /\ UNCHANGED <<task, reviewed, fee, billed, billing, billSeen>>
      /\ step[e] \in {"asking", "creating", "waiting"}
  BY DEF QueryRefund, CreateRefund, Answered, bookVars, recordVars, manualVars, channelVars, billVars
<1>2. job[e] \in Channelled /\ job[e] \in Refunds
      /\ status[job[e]] \in {"processing", "success", "failed"}
  BY <1>1, Kinds DEF RefundsAreCoherent
<1>3. \/ /\ step' = [step EXCEPT ![e] = "creating"]
         /\ UNCHANGED <<answer, posted>>
      \/ /\ step' = [step EXCEPT ![e] = "waiting"]
         /\ posted' = posted \cup {job[e]}
         /\ UNCHANGED answer
      \/ /\ step' = [step EXCEPT ![e] = "applying"]
         /\ answer' = [answer EXCEPT ![e] = channel[job[e]]]
         /\ UNCHANGED posted
  BY DEF QueryRefund, CreateRefund, Answered, TakeAnswer, At, channelVars
<1>4. RecordsTyped' /\ BillingTyped'
  BY <1>1 DEF RecordsTyped, BillingTyped
<1>5. ExecutionTyped'
  BY <1>1, <1>2, <1>3 DEF ExecutionTyped
<1>6. RefundsAreCoherent'
  BY <1>1, <1>2, <1>3 DEF RefundsAreCoherent, ExecutionTyped
<1>7. BooksFollowChannel'
  BY <1>1, <1>2, <1>3 DEF BooksFollowChannel
<1> QED
  BY <1>4, <1>5, <1>6, <1>7

(* What is written on a verdict is what WeChat said.                        *)
LEMMA ApplyKeeps ==
  ASSUME SettlementInvariant, NEW e \in Executors, UNCHANGED billVars,
         ApplyClosed(e) \/ ApplySuccess(e)
  PROVE  SettlementInvariant'
<1> USE DEF SettlementInvariant, ControlTyped
<1>1. /\ UNCHANGED <<drafts, glimpse, signed, posted, channel, paid>>
      /\ UNCHANGED <<task, reviewed, fee, billed, billing, billSeen>>
      /\ UNCHANGED <<policy, due>>
      /\ Leave(e)
      /\ step[e] = "applying" /\ answer[e] \in Verdicts
  BY DEF ApplyClosed, ApplySuccess, SetStatus, Book, recordVars, manualVars, channelVars,
         billVars, Verdicts
<1>2. /\ job[e] \in Channelled /\ job[e] \in Refunds
      /\ channel[job[e]] = answer[e]
  BY <1>1, Kinds DEF RefundsAreCoherent
<1>3. \/ UNCHANGED <<status, receipts>>
      \/ /\ status[job[e]] = "processing" /\ answer[e] = "closed"
         /\ status' = [status EXCEPT ![job[e]] = "failed"]
         /\ UNCHANGED receipts
      \/ /\ status[job[e]] = "processing" /\ answer[e] = "success"
         /\ status' = [status EXCEPT ![job[e]] = "success"]
         /\ receipts' = receipts \cup {job[e]}
  BY DEF ApplyClosed, ApplySuccess, SetStatus, Book, Bookable, recordVars
<1>4. order' \in [Charges -> {"none", "charging", "completed", "refunding", "refunded"}]
  <2>1. \/ UNCHANGED order
        \/ SetOrder(PaymentOf(job[e]), "refunding", "refunded")
        \/ SetOrder(PaymentOf(job[e]), "refunding", "completed")
    BY DEF ApplyClosed, ApplySuccess, Book, SettleOrder
  <2> QED
    BY <2>1 DEF SetOrder, RecordsTyped
<1>5. RecordsTyped' /\ BillingTyped'
  BY <1>1, <1>2, <1>3, <1>4 DEF RecordsTyped, BillingTyped
<1>6. ExecutionTyped'
  BY <1>1, Leaving DEF ExecutionTyped
<1>7. RefundsAreCoherent'
  <2>1. \A q \in Refunds : \/ status'[q] = status[q]
                          \/ /\ q \in Channelled /\ status[q] = "processing"
                             /\ status'[q] \in {"success", "failed"}
    BY <1>2, <1>3 DEF RecordsTyped
  <2>2. /\ \A p \in Swipes : status'[<<Fee, p>>] \in {"none", "success"}
        /\ \A p \in Charges \ billed : status'[<<Fee, p>>] = "none"
    BY <2>1, Kinds DEF RefundsAreCoherent, Charges
  <2>3. \A r \in drafts : status'[r] = "none"
    BY <2>1 DEF RefundsAreCoherent, ExecutionTyped, Refunds
  <2>4. ASSUME NEW f \in Executors
        PROVE  /\ step'[f] # "idle" => job'[f] \in Channelled
               /\ step'[f] \in {"asking", "creating", "waiting", "applying"}
                     => status'[job'[f]] \in {"processing", "success", "failed"}
               /\ step'[f] = "applying" /\ answer'[f] \in Verdicts
                     => channel[job'[f]] = answer'[f]
    <3>1. CASE f = e
      BY <3>1, <1>1, Leaving
    <3>2. CASE f # e
      <4>1. step'[f] = step[f] /\ job'[f] = job[f] /\ answer'[f] = answer[f]
        BY <3>2, <1>1, Leaving
      <4> QED
        BY <4>1, <2>1, Kinds DEF RefundsAreCoherent
    <3> QED
      BY <3>1, <3>2
  <2> QED
    BY <1>1, <2>2, <2>3, <2>4 DEF RefundsAreCoherent
<1>8. BooksFollowChannel'
  BY <1>1, <1>2, <1>3, Kinds DEF BooksFollowChannel, RecordsTyped
<1> QED
  BY <1>5, <1>6, <1>7, <1>8

-----------------------------------------------------------------------------
(* WeChat                                                                   *)

(* WeChat takes what was posted, and decides.                               *)
LEMMA ChannelKeeps ==
  ASSUME SettlementInvariant, NEW r \in Refunds, UNCHANGED billVars,
         ChannelTakes(r) \/ \E verdict \in Verdicts : ChannelDecides(r, verdict)
  PROVE  SettlementInvariant'
<1> USE DEF SettlementInvariant, ControlTyped
<1>1. /\ UNCHANGED <<status, policy, due, receipts, paid, order>>
      /\ UNCHANGED <<drafts, glimpse, signed, step, job, seen, answer>>
      /\ UNCHANGED <<task, reviewed, fee, billed, billing, billSeen>>
  BY DEF ChannelTakes, ChannelDecides, bookVars, recordVars, manualVars, taskVars, billVars
<1>2. \/ r \in posted /\ posted' = posted \ {r} /\ UNCHANGED channel
      \/ /\ r \in posted /\ posted' = posted \ {r}
         /\ channel[r] = "none" /\ channel' = [channel EXCEPT ![r] = "processing"]
      \/ /\ UNCHANGED posted
         /\ channel[r] = "processing"
         /\ \E verdict \in Verdicts : channel' = [channel EXCEPT ![r] = verdict]
  BY DEF ChannelTakes, ChannelDecides
<1>3. RecordsTyped' /\ BillingTyped'
  BY <1>1 DEF RecordsTyped, BillingTyped
<1>4. ExecutionTyped'
  BY <1>1, <1>2 DEF ExecutionTyped
<1>5. RefundsAreCoherent'
  BY <1>1, <1>2, Kinds DEF RefundsAreCoherent, ExecutionTyped, Verdicts
<1>6. BooksFollowChannel'
  BY <1>1, <1>2, Kinds DEF BooksFollowChannel, ExecutionTyped
<1> QED
  BY <1>3, <1>4, <1>5, <1>6

-----------------------------------------------------------------------------
(* The wallet                                                               *)

(* Recharges and swipes do not touch refunds.                               *)
LEMMA PurseKeeps ==
  ASSUME SettlementInvariant, NEW p \in Payments, RechargeConfirmed(p) \/ Swipe(p)
  PROVE  SettlementInvariant'
<1> USE DEF SettlementInvariant, ControlTyped
<1>1. /\ UNCHANGED <<status, policy, due, receipts>>
      /\ UNCHANGED <<drafts, glimpse, signed, step, job, seen, answer, posted, channel>>
      /\ UNCHANGED <<task, reviewed, fee, billed, billing, billSeen>>
      /\ paid' = paid \cup {p}
      /\ UNCHANGED order \/ order' = [order EXCEPT ![p] = "charging"]
  BY DEF RechargeConfirmed, Swipe, recordVars, executionVars, manualVars, taskVars, channelVars, billVars
<1>2. RecordsTyped' /\ BillingTyped'
  BY <1>1 DEF RecordsTyped, BillingTyped
<1>3. ExecutionTyped'
  BY <1>1 DEF ExecutionTyped
<1>4. RefundsAreCoherent'
  BY <1>1 DEF RefundsAreCoherent
<1>5. BooksFollowChannel'
  BY <1>1 DEF BooksFollowChannel
<1> QED
  BY <1>2, <1>3, <1>4, <1>5

(* The parts of a request are all new.                                      *)
LEMMA ReserveKeeps ==
  ASSUME SettlementInvariant, NEW q \in WalletRequests, NEW amount, ReserveRefund(q, amount)
  PROVE  SettlementInvariant'
<1> USE DEF SettlementInvariant, ControlTyped
<1> DEFINE parts == {r \in Parts : r[1] = q /\ Shares(amount)[r[2]] > 0}
<1>1. /\ UNCHANGED <<policy, receipts, paid, order>>
      /\ UNCHANGED <<drafts, glimpse, signed, step, job, seen, answer, posted, channel>>
      /\ UNCHANGED <<task, reviewed, fee, billed, billing, billSeen>>
      /\ status' = [r \in Refunds |-> IF r \in parts THEN "pending" ELSE status[r]]
      /\ due' = due \cup parts
      /\ \A p \in Recharges : status[<<q, p>>] = "none"
  BY DEF ReserveRefund, executionVars, manualVars, taskVars, channelVars, billVars
<1>2. parts \subseteq Parts /\ \A r \in parts : status[r] = "none"
  <2>1. \A r \in parts : \E p \in Recharges : r = <<q, p>>
    BY DEF Parts
  <2> QED
    BY <1>1, <2>1
<1> HIDE DEF parts
<1>3. RecordsTyped' /\ BillingTyped'
  BY <1>1, <1>2, Kinds DEF RecordsTyped, BillingTyped, Open
<1>4. ExecutionTyped'
  BY <1>1 DEF ExecutionTyped
<1>5. RefundsAreCoherent'
  <2>1. \A r \in Refunds : status'[r] = status[r] \/ (r \in Parts /\ status[r] = "none")
    BY <1>1, <1>2
  <2>2. /\ \A p \in Swipes : status'[<<Fee, p>>] \in {"none", "success"}
        /\ \A p \in Charges \ billed : status'[<<Fee, p>>] = "none"
    BY <2>1, Kinds DEF RefundsAreCoherent, Charges
  <2>3. \A r \in drafts : status'[r] = "none"
    BY <2>1, Kinds DEF RefundsAreCoherent, ExecutionTyped
  <2>4. \A e \in Executors :
           step[e] \in {"asking", "creating", "waiting", "applying"}
              => status'[job[e]] \in {"processing", "success", "failed"}
    BY <2>1, Kinds DEF RefundsAreCoherent
  <2> QED
    BY <1>1, <2>2, <2>3, <2>4 DEF RefundsAreCoherent
<1>6. BooksFollowChannel'
  BY <1>1, <1>2, Kinds DEF BooksFollowChannel
<1> QED
  BY <1>3, <1>4, <1>5, <1>6

-----------------------------------------------------------------------------
(* Billing                                                                  *)

(* Until a fee is applied no refund hears of it.                            *)
LEMMA FeeKeeps ==
  ASSUME SettlementInvariant,
         \/ \E p \in Charges : \/ ChargeEnds(p) \/ MeterInDoubt(p) \/ ResolveAmount(p)
                               \/ \E amount \in 0..Paid[p] : Calculate(p, amount)
         \/ \E b \in Billers : BillingFails(b) \/ \E p \in Charges : BeginBilling(b, p)
  PROVE  SettlementInvariant'
<1> USE DEF SettlementInvariant, ControlTyped
<1>1. /\ UNCHANGED <<status, policy, due, receipts, paid>>
      /\ UNCHANGED <<drafts, glimpse, signed, step, job, seen, answer, posted, channel, billed>>
  BY DEF ChargeEnds, MeterInDoubt, ResolveAmount, Calculate, BillingFails, BeginBilling,
         bookVars, recordVars, executionVars, manualVars, taskVars, channelVars
<1>2. RecordsTyped' /\ BillingTyped'
  <2>1. ASSUME NEW p \in Charges, ChargeEnds(p)
        PROVE  RecordsTyped' /\ BillingTyped'
    BY <2>1, <1>1 DEF ChargeEnds, RecordsTyped, BillingTyped
  <2>2. ASSUME NEW p \in Charges, MeterInDoubt(p) \/ ResolveAmount(p)
        PROVE  RecordsTyped' /\ BillingTyped'
    BY <2>2, <1>1 DEF MeterInDoubt, ResolveAmount, RecordsTyped, BillingTyped, bookVars
  <2>3. ASSUME NEW p \in Charges, NEW amount \in 0..Paid[p], Calculate(p, amount)
        PROVE  RecordsTyped' /\ BillingTyped'
    <3>1. amount \in Nat
      BY <2>3, PaidAssumption DEF Payments
    <3> QED
      BY <2>3, <3>1, <1>1 DEF Calculate, RecordsTyped, BillingTyped, bookVars
  <2>4. ASSUME NEW b \in Billers, BillingFails(b)
        PROVE  RecordsTyped' /\ BillingTyped'
    BY <2>4, <1>1 DEF BillingFails, EndBilling, RecordsTyped, BillingTyped, bookVars
  <2>5. ASSUME NEW b \in Billers, NEW p \in Charges, BeginBilling(b, p)
        PROVE  RecordsTyped' /\ BillingTyped'
    BY <2>5, <1>1 DEF BeginBilling, Reserved, RecordsTyped, BillingTyped, bookVars
  <2> QED
    BY <2>1, <2>2, <2>3, <2>4, <2>5
<1>3. ExecutionTyped'
  BY <1>1 DEF ExecutionTyped
<1>4. RefundsAreCoherent'
  BY <1>1 DEF RefundsAreCoherent
<1>5. BooksFollowChannel'
  BY <1>1 DEF BooksFollowChannel
<1> QED
  BY <1>2, <1>3, <1>4, <1>5

(* The receipt of a fee lets its refund be opened once.                     *)
LEMMA ApplyFeeKeeps ==
  ASSUME SettlementInvariant, NEW b \in Billers, Apply(b)
  PROVE  SettlementInvariant'
<1> USE DEF SettlementInvariant, ControlTyped
<1> DEFINE p == billing[b]
           r == <<Fee, p>>
<1>1. /\ UNCHANGED <<receipts, paid, reviewed, fee>>
      /\ UNCHANGED <<drafts, glimpse, signed, step, job, seen, answer, posted, channel>>
      /\ billing' = [billing EXCEPT ![b] = 0]
      /\ billSeen' = [billSeen EXCEPT ![b] = {}]
  BY DEF Apply, EndBilling, ReturnSurplus, ReturnToWallet, ReturnToWechat, OpenRecord,
         recordVars, executionVars, manualVars, taskVars, channelVars
<1>2. p \in Charges
  BY DEF Apply, BillingTyped
<1>3. CASE UNCHANGED <<billed, task, recordVars, order>>
  <2>1. RecordsTyped' /\ BillingTyped'
    BY <1>1, <1>3 DEF RecordsTyped, BillingTyped, recordVars
  <2>2. ExecutionTyped'
    BY <1>1 DEF ExecutionTyped
  <2>3. RefundsAreCoherent'
    BY <1>1, <1>3 DEF RefundsAreCoherent, recordVars
  <2>4. BooksFollowChannel'
    BY <1>1, <1>3 DEF BooksFollowChannel, recordVars
  <2> QED
    BY <2>1, <2>2, <2>3, <2>4
<1>4. CASE /\ p \notin billed
           /\ billed' = billed \cup {p}
           /\ task' = [task EXCEPT ![p] = "done"]
           /\ ReturnSurplus(p, Surplus(p, billSeen[b]))
  <2>1. r \in Refunds /\ status[r] = "none"
    BY <1>2, <1>4, Kinds DEF RefundsAreCoherent
  <2>2. /\ policy' \in [Refunds -> {"manual", "automatic"}]
        /\ due' \subseteq Refunds
        /\ order' \in [Charges -> {"none", "charging", "completed", "refunding", "refunded"}]
    BY <1>2, <1>4, <2>1 DEF ReturnSurplus, ReturnToWallet, ReturnToWechat, OpenRecord, SetOrder,
                            RecordsTyped, recordVars
  <2>3. \/ status' = status
        \/ p \in Swipes /\ status' = [status EXCEPT ![r] = "success"]
        \/ p \in Scans /\ status' = [status EXCEPT ![r] = "pending"]
    BY <1>2, <1>4 DEF ReturnSurplus, ReturnToWallet, ReturnToWechat, OpenRecord, recordVars, Charges
  <2>4. RecordsTyped' /\ BillingTyped'
    <3>1. status' \in [Refunds -> Open \cup {"none", "success", "failed", "rejected"}]
      BY <2>1, <2>3 DEF RecordsTyped, Open
    <3>2. RecordsTyped'
      BY <1>1, <2>2, <3>1 DEF RecordsTyped
    <3>3. BillingTyped'
      BY <1>1, <1>2, <1>4 DEF BillingTyped
    <3> QED
      BY <3>2, <3>3
  <2>5. ExecutionTyped'
    BY <1>1 DEF ExecutionTyped
  <2>6. \A q \in Refunds : q # r => status'[q] = status[q]
    BY <2>3 DEF RecordsTyped
  <2>7. RefundsAreCoherent'
    <3>1. \A s \in Swipes : status'[<<Fee, s>>] \in {"none", "success"}
      BY <2>1, <2>3, KindsDiffer, Kinds DEF RefundsAreCoherent, RecordsTyped, Charges
    <3>2. \A s \in Charges \ billed' : status'[<<Fee, s>>] = "none"
      BY <1>4, <2>6, Kinds DEF RefundsAreCoherent
    <3>3. \A q \in drafts : status'[q] = "none"
      BY <1>2, <2>6, Kinds DEF RefundsAreCoherent, ExecutionTyped
    <3>4. \A e \in Executors :
             step[e] \in {"asking", "creating", "waiting", "applying"}
                => status'[job[e]] \in {"processing", "success", "failed"}
      BY <2>1, <2>6, Kinds DEF RefundsAreCoherent
    <3> QED
      BY <1>1, <3>1, <3>2, <3>3, <3>4 DEF RefundsAreCoherent
  <2>8. BooksFollowChannel'
    BY <1>1, <1>2, <2>1, <2>3, <2>6, Kinds DEF BooksFollowChannel, RecordsTyped
  <2> QED
    BY <2>4, <2>5, <2>7, <2>8
<1> QED
  BY <1>3, <1>4 DEF Apply

-----------------------------------------------------------------------------
(* Every step keeps the invariant: between what the office, the executors,  *)
(* WeChat, the customer and billing do in any order, a refund is opened     *)
(* once and settled on WeChat's verdict.                                    *)
LEMMA SettlementStep ==
  SettlementInvariant /\ [SettlementNext]_settlementVars => SettlementInvariant'
<1> SUFFICES ASSUME SettlementInvariant, [SettlementNext]_settlementVars
             PROVE  SettlementInvariant'
  OBVIOUS
<1>1. CASE WalletNext
  BY <1>1, PurseKeeps, ReserveKeeps DEF WalletNext
<1>2. CASE BillingNext
  BY <1>2, FeeKeeps, ApplyFeeKeeps DEF BillingNext
<1>3. CASE OfficeNext /\ UNCHANGED billVars
  BY <1>3, OfficeKeeps DEF OfficeNext
<1>4. CASE ExecutorNext /\ UNCHANGED billVars
  BY <1>4, BeginClaimKeeps, ClaimKeeps, AskingKeeps, GivingUpKeeps, ApplyKeeps DEF ExecutorNext
<1>5. CASE ChannelNext /\ UNCHANGED billVars
  BY <1>5, ChannelKeeps DEF ChannelNext
<1>6. CASE UNCHANGED settlementVars
  <2>1. /\ UNCHANGED <<status, policy, due, receipts, paid, order>>
        /\ UNCHANGED <<drafts, glimpse, signed, step, job, seen, answer, posted, channel>>
        /\ UNCHANGED <<task, reviewed, fee, billed, billing, billSeen>>
    BY <1>6 DEF settlementVars, bookVars, recordVars, executionVars, manualVars, taskVars,
                channelVars, billVars
  <2> USE DEF SettlementInvariant, ControlTyped
  <2>2. RecordsTyped' /\ BillingTyped'
    BY <2>1 DEF RecordsTyped, BillingTyped
  <2>3. ExecutionTyped'
    BY <2>1 DEF ExecutionTyped
  <2>4. RefundsAreCoherent' /\ BooksFollowChannel'
    BY <2>1 DEF RefundsAreCoherent, BooksFollowChannel
  <2> QED
    BY <2>2, <2>3, <2>4
<1> QED
  BY <1>1, <1>2, <1>3, <1>4, <1>5, <1>6 DEF SettlementNext, ExecutionNext

(* So it holds in every state (internal/central/refund).                    *)
THEOREM SettlementInvariance == SettlementSpec => []SettlementInvariant
BY SettlementStep, BooksStart, PTL DEF SettlementSpec

(* The books of refunds never lead WeChat and never contradict it           *)
(* (internal/central/refund/executor.go, claim and apply).                  *)
THEOREM BooksFollow == SettlementSpec => []BooksFollowChannel
<1>1. SettlementInvariant => BooksFollowChannel
  BY DEF SettlementInvariant
<1> QED
  BY <1>1, SettlementInvariance, PTL


-----------------------------------------------------------------------------
(* Sums of refunds                                                          *)

(* The rows are finitely many, and a refund tells whose money it is.        *)
LEMMA Rows ==
  /\ IsFiniteSet(Refunds) /\ IsFiniteSet(Payments)
  /\ IsFiniteSet(Recharges) /\ IsFiniteSet(Parts)
  /\ \A r \in Refunds : /\ PaymentOf(r) \in Payments
                        /\ r \in Parts <=> PaymentOf(r) \in Recharges
                        /\ PaymentOf(r) \in Swipes => r = <<Fee, PaymentOf(r)>>
  /\ \A p \in Payments : RefundsOf(p) \subseteq Refunds
  /\ \A p \in Payments : Paid[p] \in Nat
<1>1. /\ IsFiniteSet(Charges) /\ IsFiniteSet(Scans) /\ IsFiniteSet(Recharges)
  BY RowsAreFinite, FS_Subset DEF Payments, Charges
<1>2. /\ IsFiniteSet({Fee} \X Charges) /\ IsFiniteSet(ManualRefunds) /\ IsFiniteSet(Parts)
  BY <1>1, RowsAreFinite, FS_Singleton, FS_Product DEF ManualRefunds, Parts
<1>3. IsFiniteSet(Refunds)
  BY <1>2, FS_Union DEF Refunds
<1>4. ASSUME NEW r \in Refunds
      PROVE  /\ PaymentOf(r) \in Payments
             /\ r \in Parts <=> PaymentOf(r) \in Recharges
             /\ PaymentOf(r) \in Swipes => r = <<Fee, PaymentOf(r)>>
  BY KindsDiffer DEF Refunds, ManualRefunds, Parts, PaymentOf, Payments, Charges
<1>5. \A p \in Payments : RefundsOf(p) \subseteq Refunds /\ Paid[p] \in Nat
  BY PaidAssumption DEF RefundsOf
<1> QED
  BY <1>1, <1>2, <1>3, <1>4, <1>5, RowsAreFinite

(* Sums of cents are amounts, and a larger set sums up to more.             *)
LEMMA SumsAreAmounts ==
  ASSUME cents \in [Refunds -> Nat], NEW S \in SUBSET Refunds
  PROVE  /\ SumOf(S) \in Nat
         /\ \A T \in SUBSET S : SumOf(T) \in Nat /\ SumOf(T) <= SumOf(S)
<1>1. IsFiniteSet(S) /\ \A r \in S : cents[r] \in Nat
  BY Rows, FS_Subset
<1> QED
  BY <1>1, SumNat, SumSubset DEF SumOf

(* What a row counts for among those that are open and those that           *)
(* succeeded.                                                               *)
OpenPart(s, c)    == IF s \in Open THEN c ELSE 0
SuccessPart(s, c) == IF s = "success" THEN c ELSE 0
OpenChange(r, to, c)    == OpenPart(to, c) - OpenPart(status[r], cents[r])
SuccessChange(r, to, c) == SuccessPart(to, c) - SuccessPart(status[r], cents[r])

(* A row is given a status and an amount.                                   *)
SetRow(r, to, c) ==
  /\ status' = [status EXCEPT ![r] = to]
  /\ cents' = [cents EXCEPT ![r] = c]

(* The sums over F move by what that row counts.                            *)
SumsMove(r, to, c, F) ==
  /\ OpenChange(r, to, c) \in Int /\ SuccessChange(r, to, c) \in Int
  /\ r \notin F => /\ SumOf(Reserved \cap F)' = SumOf(Reserved \cap F)
                   /\ SumOf(Succeeded \cap F)' = SumOf(Succeeded \cap F)
  /\ r \in F =>
        /\ SumOf(Reserved \cap F)' = SumOf(Reserved \cap F) + OpenChange(r, to, c)
        /\ SumOf(Succeeded \cap F)' = SumOf(Succeeded \cap F) + SuccessChange(r, to, c)

(* What is open among F, and what succeeded, changes by the amount of that  *)
(* row.                                                                     *)
LEMMA OneRow ==
  ASSUME RecordsTyped, cents \in [Refunds -> Nat],
         NEW r \in Refunds, NEW to, NEW c \in Nat, SetRow(r, to, c),
         NEW F \in SUBSET Refunds
  PROVE  SumsMove(r, to, c, F)
<1> USE DEF SetRow
<1>1. IsFiniteSet(Refunds)
  BY Rows
<1>2. /\ \A x \in Refunds \ {r} : cents'[x] = cents[x] /\ status'[x] = status[x]
      /\ cents'[r] = c /\ status'[r] = to
  BY DEF RecordsTyped
<1>3. ASSUME NEW A \in SUBSET Refunds, NEW B \in SUBSET Refunds,
             \A x \in Refunds \ {r} : x \in A <=> x \in B
      PROVE  /\ SumFunctionOnSet(cents, A) \in Int
             /\ SumFunctionOnSet(cents', B) = SumFunctionOnSet(cents, A)
                   + ((IF r \in B THEN c ELSE 0) - (IF r \in A THEN cents[r] ELSE 0))
  <2>1. SameBut(r, Refunds, cents, A, cents', B)
    BY <1>2, <1>3 DEF SameBut
  <2>2. /\ SumFunctionOnSet(cents, A) \in Int
        /\ SumFunctionOnSet(cents', B) = SumFunctionOnSet(cents, A)
              + (Count(r, cents', B) - Count(r, cents, A))
    BY <1>1, <2>1, SumMoves
  <2> QED
    BY <1>2, <2>2 DEF Count
<1>4. /\ (Reserved \cap F)' \in SUBSET Refunds /\ Reserved \cap F \in SUBSET Refunds
      /\ \A x \in Refunds \ {r} : x \in Reserved \cap F <=> x \in (Reserved \cap F)'
      /\ r \in (Reserved \cap F)' <=> r \in F /\ to \in Open
      /\ r \in Reserved \cap F <=> r \in F /\ status[r] \in Open
  BY <1>2 DEF Reserved
<1>5. /\ (Succeeded \cap F)' \in SUBSET Refunds /\ Succeeded \cap F \in SUBSET Refunds
      /\ \A x \in Refunds \ {r} : x \in Succeeded \cap F <=> x \in (Succeeded \cap F)'
      /\ r \in (Succeeded \cap F)' <=> r \in F /\ to = "success"
      /\ r \in Succeeded \cap F <=> r \in F /\ status[r] = "success"
  BY <1>2 DEF Succeeded
<1> HIDE DEF Reserved, Succeeded
<1>6. /\ SumOf(Reserved \cap F) \in Int
      /\ SumOf(Reserved \cap F)' = SumOf(Reserved \cap F)
            + ((IF r \in (Reserved \cap F)' THEN c ELSE 0)
               - (IF r \in Reserved \cap F THEN cents[r] ELSE 0))
  BY <1>3, <1>4 DEF SumOf
<1>7. /\ SumOf(Succeeded \cap F) \in Int
      /\ SumOf(Succeeded \cap F)' = SumOf(Succeeded \cap F)
            + ((IF r \in (Succeeded \cap F)' THEN c ELSE 0)
               - (IF r \in Succeeded \cap F THEN cents[r] ELSE 0))
  BY <1>3, <1>5 DEF SumOf
<1>8. c \in Int /\ cents[r] \in Int
  OBVIOUS
<1> QED
  BY <1>4, <1>5, <1>6, <1>7, <1>8 DEF SumsMove, OpenChange, SuccessChange, OpenPart, SuccessPart

-----------------------------------------------------------------------------
(* The ledger                                                               *)

(* What the accounts say, and what keeps them from running out.             *)
Ledger == RecordsTyped /\ MoneyTyped /\ AccountsAgree /\ RechargesCover

(* What is kept of some payments, when one of them is refunded.             *)
LEMMA KeptChanges ==
  ASSUME refunded \in [Payments -> Nat], NEW p \in Payments, NEW d \in Int,
         refunded' = [refunded EXCEPT ![p] = @ + d], NEW P \in SUBSET Payments
  PROVE  /\ SumFunctionOnSet(Kept, P) \in Int
         /\ p \notin P => SumFunctionOnSet(Kept', P) = SumFunctionOnSet(Kept, P)
         /\ p \in P => SumFunctionOnSet(Kept', P) = SumFunctionOnSet(Kept, P) - d
<1>1. IsFiniteSet(Payments)
  BY Rows
<1>2. \A q \in Payments : Kept[q] \in Int /\ Kept'[q] \in Int /\ Kept'[q] = IF q = p THEN Kept[q] - d ELSE Kept[q]
  <2>1. \A q \in Payments : /\ Kept[q] = Paid[q] - refunded[q]
                            /\ Kept'[q] = Paid[q] - refunded'[q]
    BY DEF Kept
  <2> HIDE DEF Kept
  <2>2. \A q \in Payments : Paid[q] \in Int /\ refunded[q] \in Int
    BY Rows
  <2> QED
    BY <2>1, <2>2
<1> HIDE DEF Kept
<1>3. IsFiniteSet(P) /\ \A q \in P : Kept[q] \in Int /\ Kept'[q] \in Int
  BY <1>1, <1>2, FS_Subset
<1>4. SumFunctionOnSet(Kept, P) \in Int
  BY <1>3, SumInt
<1>5. CASE p \notin P
  <2>1. \A q \in P : Kept'[q] = Kept[q]
    BY <1>2, <1>5
  <2>2. ASSUME NEW f, NEW g, \A q \in P : g[q] = f[q]
        PROVE  SumFunctionOnSet(g, P) = SumFunctionOnSet(f, P)
    BY <2>2, <1>3, SumSame
  <2> QED
    BY <1>4, <1>5, <2>1, <2>2
<1>6. CASE p \in P
  <2>1. /\ \A q \in P \ {p} : Kept'[q] = Kept[q]
        /\ Kept'[p] = Kept[p] - d
    BY <1>2, <1>6
  <2>2. ASSUME NEW f, NEW g, \A q \in P : f[q] \in Int,
               \A q \in P \ {p} : g[q] = f[q], g[p] \in Int
        PROVE  SumFunctionOnSet(g, P) = SumFunctionOnSet(f, P) + (g[p] - f[p])
    BY <2>2, <1>3, <1>6, SumChange
  <2>3. SumFunctionOnSet(Kept', P) = SumFunctionOnSet(Kept, P) + (Kept'[p] - Kept[p])
    BY <1>3, <1>6, <2>1, <2>2
  <2> QED
    BY <1>2, <1>4, <1>6, <2>1, <2>3
<1> QED
  BY <1>5, <1>6

(* A row changes, and with it what was refunded of its payment and the      *)
(* wallet: the parts of wallet refunds are paid out of it, what a swipe did *)
(* not use comes back into it.                                              *)
LedgerStep(r, to, c, o, d) ==
  /\ SetRow(r, to, c)
  /\ o = OpenChange(r, to, c) /\ d = SuccessChange(r, to, c)
  /\ refunded' = [refunded EXCEPT ![PaymentOf(r)] = @ + d]
  /\ 0 <= refunded[PaymentOf(r)] + d /\ refunded[PaymentOf(r)] + d <= Paid[PaymentOf(r)]
  /\ paid' = paid /\ entry' \in Int
  /\ r \in Parts => /\ PaymentOf(r) \in paid /\ o + d <= 0
                    /\ frozen' = frozen + o /\ balance' = balance - d
  /\ r \notin Parts =>
        /\ frozen' = frozen /\ d >= 0
        /\ balance' = IF PaymentOf(r) \in Swipes \cap paid THEN balance + d ELSE balance

(* Such a step keeps the accounts in agreement.                             *)
LEMMA RowKeepsLedger ==
  ASSUME Ledger, RecordsTyped', NEW r \in Refunds, NEW to, NEW c \in Nat,
         NEW o, NEW d, LedgerStep(r, to, c, o, d)
  PROVE  Ledger'
<1> DEFINE p == PaymentOf(r)
<1>0. /\ p \in Payments /\ p = PaymentOf(r) /\ SetRow(r, to, c)
      /\ o = OpenChange(r, to, c) /\ d = SuccessChange(r, to, c)
      /\ refunded' = [refunded EXCEPT ![p] = @ + d]
      /\ 0 <= refunded[p] + d /\ refunded[p] + d <= Paid[p]
      /\ paid' = paid /\ entry' \in Int
      /\ r \in Parts => /\ p \in paid /\ o + d <= 0
                        /\ frozen' = frozen + o /\ balance' = balance - d
      /\ r \notin Parts => /\ frozen' = frozen /\ d >= 0
                           /\ balance' = IF p \in Swipes \cap paid THEN balance + d ELSE balance
  BY Rows DEF LedgerStep
<1> HIDE DEF p
<1> USE <1>0
<1>1. /\ o \in Int /\ d \in Int
      /\ \A F \in SUBSET Refunds :
           /\ r \notin F => /\ SumOf(Reserved \cap F)' = SumOf(Reserved \cap F)
                            /\ SumOf(Succeeded \cap F)' = SumOf(Succeeded \cap F)
           /\ r \in F => /\ SumOf(Reserved \cap F)' = SumOf(Reserved \cap F) + o
                         /\ SumOf(Succeeded \cap F)' = SumOf(Succeeded \cap F) + d
  <2>1. RecordsTyped /\ cents \in [Refunds -> Nat]
    BY DEF Ledger, MoneyTyped
  <2>2. \A F \in SUBSET Refunds : SumsMove(r, to, c, F)
    BY <2>1, OneRow
  <2>3. SumsMove(r, to, c, {})
    BY <2>2
  <2> QED
    BY <2>2, <2>3 DEF SumsMove
<1>2. \A q \in Payments : /\ RefundsOf(q) \in SUBSET Refunds
                          /\ r \in RefundsOf(q) <=> q = p
                          /\ SumOf(Reserved \cap RefundsOf(q)) \in Nat
                          /\ refunded[q] \in Nat /\ Paid[q] \in Nat /\ refunded[q] <= Paid[q]
  BY SumsAreAmounts, Rows DEF Ledger, MoneyTyped, RefundsOf
<1>3. \A q \in Payments : refunded'[q] = IF q = p THEN refunded[q] + d ELSE refunded[q]
  BY DEF Ledger, MoneyTyped
<1>4. /\ refunded' \in [Payments -> Nat]
      /\ \A q \in Payments : refunded'[q] <= Paid[q]
  BY <1>1, <1>2, <1>3 DEF Ledger, MoneyTyped
<1>5. cents' \in [Refunds -> Nat]
  BY DEF SetRow, Ledger, MoneyTyped
<1>6. \A q \in Payments : refunded'[q] = SumOf(Succeeded \cap RefundsOf(q))'
  <2> SUFFICES ASSUME NEW q \in Payments
               PROVE  refunded'[q] = SumOf(Succeeded \cap RefundsOf(q))'
    OBVIOUS
  <2>1. RefundsOf(q) \in SUBSET Refunds /\ refunded[q] = SumOf(Succeeded \cap RefundsOf(q))
    BY <1>2 DEF Ledger, AccountsAgree
  <2>2. CASE q = p
    BY <2>1, <2>2, <1>1, <1>2, <1>3
  <2>3. CASE q # p
    BY <2>1, <2>3, <1>1, <1>2, <1>3
  <2> QED
    BY <2>2, <2>3
<1>7. RechargesCover'
  <2> SUFFICES ASSUME NEW q \in Recharges
               PROVE  Paid[q] - refunded'[q] - SumOf(Reserved \cap RefundsOf(q))' >= 0
    BY DEF RechargesCover, Left
  <2>1. q \in Payments
    BY DEF Payments
  <2>2. Paid[q] - refunded[q] - SumOf(Reserved \cap RefundsOf(q)) >= 0
    BY DEF Ledger, RechargesCover, Left
  <2>3. CASE q = p
    <3>1. r \in Parts /\ o + d <= 0
      BY <2>3, Rows
    <3>2. /\ SumOf(Reserved \cap RefundsOf(q))' = SumOf(Reserved \cap RefundsOf(q)) + o
          /\ refunded'[q] = refunded[q] + d
      BY <2>1, <2>3, <1>1, <1>2, <1>3
    <3> QED
      BY <2>1, <2>2, <3>1, <3>2, <1>1, <1>2
  <2>4. CASE q # p
    BY <2>1, <2>2, <2>4, <1>1, <1>2, <1>3
  <2> QED
    BY <2>3, <2>4
<1>8. frozen' = SumOf(Parts \cap Reserved)' /\ frozen \in Nat
  <2>1. Parts \in SUBSET Refunds /\ Parts \cap Reserved = Reserved \cap Parts
    BY Kinds
  <2>2. frozen = SumOf(Reserved \cap Parts)
    BY <2>1 DEF Ledger, AccountsAgree, WalletBalances
  <2> QED
    BY <1>1, <2>1, <2>2 DEF Ledger, MoneyTyped
<1>9. balance' = SumFunctionOnSet(Kept', Recharges \cap paid') - SumFunctionOnSet(Kept', Swipes \cap paid')
  <2>1. \A P \in SUBSET Payments :
          /\ SumFunctionOnSet(Kept, P) \in Int
          /\ p \notin P => SumFunctionOnSet(Kept', P) = SumFunctionOnSet(Kept, P)
          /\ p \in P => SumFunctionOnSet(Kept', P) = SumFunctionOnSet(Kept, P) - d
    BY <1>1, KeptChanges DEF Ledger, MoneyTyped
  <2>2. /\ Recharges \cap paid \in SUBSET Payments /\ Swipes \cap paid \in SUBSET Payments
        /\ r \in Parts <=> p \in Recharges
        /\ ~(p \in Recharges /\ p \in Swipes)
    BY Rows, KindsDiffer DEF Payments, Charges
  <2>3. balance = SumFunctionOnSet(Kept, Recharges \cap paid) - SumFunctionOnSet(Kept, Swipes \cap paid)
    BY DEF Ledger, AccountsAgree, WalletBalances
  <2> HIDE DEF Kept
  <2>4. CASE r \in Parts
    BY <1>1, <2>1, <2>2, <2>3, <2>4
  <2>5. CASE r \notin Parts
    BY <1>1, <2>1, <2>2, <2>3, <2>5
  <2> QED
    BY <2>4, <2>5
<1>10. frozen' <= balance' /\ frozen' \in Int /\ balance' \in Int
  BY <1>1, <1>8 DEF Ledger, MoneyTyped, AccountsAgree, WalletBalances
<1>11. frozen' \in Nat
  <2>1. (Parts \cap Reserved)' \in SUBSET Refunds
    BY Kinds
  <2>2. IsFiniteSet((Parts \cap Reserved)') /\ \A x \in (Parts \cap Reserved)' : cents'[x] \in Nat
    BY <1>5, <2>1, Rows, FS_Subset
  <2> QED
    BY <1>8, <2>2, SumNat DEF SumOf
<1> QED
  BY <1>4, <1>5, <1>6, <1>7, <1>8, <1>9, <1>10, <1>11
  DEF Ledger, MoneyTyped, AccountsAgree, WalletBalances

-----------------------------------------------------------------------------
(* What each step does to the ledger                                        *)

(* Most steps do nothing to it.                                             *)
LEMMA QuietLedger ==
  ASSUME Ledger, RecordsTyped',
         UNCHANGED <<status, cents, refunded, paid, balance, frozen, entry>>
  PROVE  Ledger'
BY DEF Ledger, MoneyTyped, AccountsAgree, WalletBalances, RechargesCover, Left, SumOf,
       Succeeded, Reserved, Kept

(* A draft opens what was not there, a rejection closes what was open.      *)
LEMMA OfficeLedger ==
  ASSUME SettlementInvariant, Ledger, RecordsTyped', NEW r \in Refunds,
         \/ BeginManual(r)
         \/ \E amount \in 1..Paid[PaymentOf(r)] : ManualCreate(r, amount)
         \/ DropDraft(r) \/ SignFirst(r) \/ SignSecond(r) \/ Reject(r) \/ FallsDue(r)
  PROVE  Ledger'
<1> USE Rows
<1>1. /\ RefundsAreCoherent /\ ExecutionTyped /\ RecordsTyped
      /\ refunded \in [Payments -> Nat] /\ cents \in [Refunds -> Nat]
      /\ refunded[PaymentOf(r)] <= Paid[PaymentOf(r)] /\ refunded[PaymentOf(r)] \in Nat
      /\ cents[r] \in Nat /\ Paid[PaymentOf(r)] \in Nat
      /\ balance \in Nat /\ frozen \in Nat /\ entry \in Int
  BY DEF SettlementInvariant, ControlTyped, Ledger, MoneyTyped
<1>2. ASSUME NEW amount \in 1..Paid[PaymentOf(r)], ManualCreate(r, amount)
      PROVE  Ledger'
  <2>1. amount \in Nat /\ r \in ManualRefunds /\ status[r] = "none" /\ r \notin Parts
        /\ PaymentOf(r) \notin Swipes
    BY <1>1, <1>2, Kinds, KindsDiffer DEF ManualCreate, ExecutionTyped, RefundsAreCoherent, ManualRefunds, PaymentOf
  <2>2. SetRow(r, "pending", amount) /\ UNCHANGED <<paid, refunded, balance, frozen, entry>>
    BY <1>2 DEF ManualCreate, OpenRecord, SetRow, walletVars
  <2>3. LedgerStep(r, "pending", amount, amount, 0)
    BY <1>1, <2>1, <2>2 DEF LedgerStep, OpenChange, SuccessChange, OpenPart, SuccessPart, Open
  <2> QED
    BY <1>1, <2>1, <2>3, RowKeepsLedger
<1>3. CASE Reject(r)
  <2>1. r \in ManualRefunds /\ status[r] = "pending" /\ r \notin Parts /\ PaymentOf(r) \notin Swipes
    BY <1>3, Kinds, KindsDiffer DEF Reject, UnderReview, ManualRefunds, PaymentOf
  <2>2. SetRow(r, "rejected", cents[r]) /\ UNCHANGED <<paid, refunded, balance, frozen, entry>>
    BY <1>1, <1>3 DEF Reject, SetStatus, SetRow, walletVars
  <2>3. LedgerStep(r, "rejected", cents[r], 0 - cents[r], 0)
    BY <1>1, <2>1, <2>2 DEF LedgerStep, OpenChange, SuccessChange, OpenPart, SuccessPart, Open
  <2> QED
    BY <1>1, <2>3, RowKeepsLedger
<1>4. CASE BeginManual(r) \/ DropDraft(r) \/ SignFirst(r) \/ SignSecond(r) \/ FallsDue(r)
  BY <1>4, QuietLedger DEF BeginManual, DropDraft, SignFirst, SignSecond, FallsDue,
                           bookVars, recordVars, walletVars
<1> QED
  BY <1>2, <1>3, <1>4

(* A claim moves what is open to what is open, a verdict what is open to    *)
(* what succeeded or failed.                                                *)
LEMMA ExecutorLedger ==
  ASSUME SettlementInvariant, MoneyHasSource, SightTyped, Ledger, RecordsTyped', NEW e \in Executors,
         \/ \E r \in Refunds : BeginClaim(e, r)
         \/ Claim(e) \/ QueryRefund(e) \/ CreateRefund(e) \/ Answered(e) \/ GivesUp(e)
         \/ ApplyProcessing(e) \/ ApplyClosed(e) \/ ApplySuccess(e)
  PROVE  Ledger'
<1> USE Rows
<1> DEFINE r == job[e]
<1>1. CASE \/ \E q \in Refunds : BeginClaim(e, q)
           \/ QueryRefund(e) \/ CreateRefund(e) \/ Answered(e) \/ GivesUp(e) \/ ApplyProcessing(e)
  BY <1>1, QuietLedger DEF BeginClaim, QueryRefund, CreateRefund, Answered, GivesUp, ApplyProcessing,
                           bookVars, recordVars, walletVars
<1>2. /\ refunded \in [Payments -> Nat] /\ cents \in [Refunds -> Nat] /\ RecordsTyped
      /\ balance \in Nat /\ frozen \in Nat /\ entry \in Int
      /\ \A i \in {1, 2} : sawWallet[e][i] \in Nat
      /\ \A q \in Parts : status[q] # "none" => PaymentOf(q) \in paid
      /\ \A p \in Payments : refunded[p] <= Paid[p]
  BY DEF SettlementInvariant, ControlTyped, Ledger, MoneyTyped, MoneyHasSource, SightTyped
<1>3. CASE step[e] # "idle"
  <2>1. r \in Channelled /\ r \in Refunds /\ PaymentOf(r) \notin Swipes /\ cents[r] \in Nat
    <3>1. r \in Channelled /\ r \in Refunds
      BY <1>3, Kinds DEF SettlementInvariant, RefundsAreCoherent
    <3>2. PaymentOf(r) \notin Swipes
      BY <3>1, KindsDiffer DEF Channelled, ManualRefunds, Parts, PaymentOf, Payments, Charges
    <3> QED
      BY <1>2, <3>1, <3>2
  <2>2. /\ PaymentOf(r) \in Payments
        /\ refunded[PaymentOf(r)] \in Nat /\ Paid[PaymentOf(r)] \in Nat
        /\ refunded[PaymentOf(r)] <= Paid[PaymentOf(r)]
    BY <1>2, <2>1
  <2>3. CASE Claim(e)
    <3>1. CASE UNCHANGED status
      BY <2>3, <3>1, QuietLedger DEF Claim, walletVars
    <3>2. CASE status[r] \in Open /\ status' = [status EXCEPT ![r] = "processing"]
      <4>1. SetRow(r, "processing", cents[r]) /\ UNCHANGED <<paid, refunded, balance, frozen, entry>>
        BY <1>2, <2>1, <2>3, <3>2 DEF Claim, SetRow, walletVars
      <4>2. r \in Parts => PaymentOf(r) \in paid
        BY <1>2, <3>2 DEF Open
      <4> HIDE DEF r
      <4>3. LedgerStep(r, "processing", cents[r], 0, 0)
        BY <1>2, <2>1, <2>2, <3>2, <4>1, <4>2 DEF LedgerStep, OpenChange, SuccessChange, OpenPart, SuccessPart, Open
      <4> QED
        BY <2>1, <4>3, RowKeepsLedger
    <3> QED
      BY <2>3, <3>1, <3>2 DEF Claim, Claimable
  <2>4. CASE ApplyClosed(e)
    <3>1. CASE UNCHANGED <<status, cents, walletVars>>
      BY <2>4, <3>1, QuietLedger DEF ApplyClosed, walletVars
    <3>2. CASE status[r] = "processing" /\ SetStatus(r, "failed") /\ ReleaseFailedRefund(r)
      <4>1. SetRow(r, "failed", cents[r]) /\ UNCHANGED <<paid, refunded, balance, entry>>
        BY <1>2, <2>1, <2>4, <3>2 DEF ApplyClosed, SetStatus, ReleaseFailedRefund, SetRow
      <4>2. r \in Parts => PaymentOf(r) \in paid
        BY <1>2, <3>2
      <4>3. frozen' = IF r \in Parts THEN frozen - cents[r] ELSE frozen
        BY <3>2 DEF ReleaseFailedRefund
      <4> HIDE DEF r
      <4>4. LedgerStep(r, "failed", cents[r], 0 - cents[r], 0)
        BY <1>2, <2>1, <2>2, <3>2, <4>1, <4>2, <4>3
        DEF LedgerStep, OpenChange, SuccessChange, OpenPart, SuccessPart, Open
      <4> QED
        BY <2>1, <4>4, RowKeepsLedger
    <3> QED
      BY <2>4, <3>1, <3>2 DEF ApplyClosed, recordVars
  <2>5. CASE ApplySuccess(e)
    <3>1. CASE UNCHANGED <<recordVars, refunded, order, walletVars>>
      BY <2>5, <3>1, QuietLedger DEF ApplySuccess, recordVars, walletVars
    <3>2. CASE Bookable(e) /\ Book(r, sawWallet[e][1])
      <4>1. /\ status[r] = "processing"
            /\ cents[r] <= Paid[PaymentOf(r)] - refunded[PaymentOf(r)]
        BY <3>2 DEF Bookable
      <4>2. /\ SetRow(r, "success", cents[r]) /\ UNCHANGED paid
            /\ refunded' = [refunded EXCEPT ![PaymentOf(r)] = @ + cents[r]]
            /\ IF r \in Parts THEN /\ balance' = balance - cents[r]
                                   /\ frozen' = frozen - cents[r]
                                   /\ entry' = sawWallet[e][1] - cents[r]
               ELSE UNCHANGED <<balance, frozen, entry>>
        BY <1>2, <2>1, <2>5, <3>2 DEF ApplySuccess, Book, SettleRefundWallet, SetRow, walletVars
      <4>3. r \in Parts => PaymentOf(r) \in paid
        BY <1>2, <4>1
      <4> HIDE DEF r
      <4>4. LedgerStep(r, "success", cents[r], 0 - cents[r], cents[r])
        BY <1>2, <2>1, <2>2, <4>1, <4>2, <4>3
        DEF LedgerStep, OpenChange, SuccessChange, OpenPart, SuccessPart, Open
      <4> QED
        BY <2>1, <4>4, RowKeepsLedger
    <3> QED
      BY <2>5, <3>1, <3>2 DEF ApplySuccess
  <2> QED
    BY <1>1, <2>3, <2>4, <2>5
<1> QED
  BY <1>1, <1>3 DEF Claim, ApplyClosed, ApplySuccess

(* What a fee leaves of a payment goes back into the wallet, or waits for   *)
(* WeChat.                                                                  *)
LEMMA ApplyFeeLedger ==
  ASSUME SettlementInvariant, MoneyHasSource, Ledger, RecordsTyped', NEW b \in Billers, Apply(b)
  PROVE  Ledger'
<1> DEFINE p == billing[b]
           r == <<Fee, p>>
           amount == Surplus(p, billSeen[b])
<1>1. /\ refunded \in [Payments -> Nat] /\ cents \in [Refunds -> Nat] /\ RecordsTyped
      /\ balance \in Nat /\ frozen \in Nat /\ entry \in Int
      /\ refunded[p] <= Paid[p] /\ refunded[p] \in Nat /\ Paid[p] \in Nat
      /\ p \in Charges /\ p \in paid /\ p \in Payments /\ fee[p] \in Nat
      /\ r \in Refunds /\ r \notin Parts /\ PaymentOf(r) = p
  <2>1. p \in Charges /\ p \in paid /\ p \in Payments /\ fee[p] \in Nat
    BY DEF Apply, SettlementInvariant, ControlTyped, BillingTyped, MoneyHasSource, Payments
  <2> QED
    BY <2>1, Rows, Kinds DEF Ledger, MoneyTyped, PaymentOf
<1>2. CASE UNCHANGED <<recordVars, refunded, walletVars>>
  BY <1>2, QuietLedger DEF Apply, recordVars, walletVars
<1>3. CASE /\ amount > 0 /\ p \notin billed
           /\ \/ p \in Swipes /\ ReturnToWallet(p, amount)
              \/ p \notin Swipes /\ ReturnToWechat(p, amount)
  <2>1. SumOf(billSeen[b] \cap RefundsOf(p)) \in Nat
    <3>1. billSeen[b] \cap RefundsOf(p) \in SUBSET Refunds
      BY DEF RefundsOf
    <3> QED
      BY <1>1, <3>1, SumsAreAmounts
  <2>2. amount \in Nat /\ amount <= Paid[p] - refunded[p]
    BY <1>1, <1>3, <2>1 DEF Surplus, Left
  <2>3. status[r] = "none"
    BY <1>1, <1>3 DEF SettlementInvariant, RefundsAreCoherent
  <2>4. CASE p \in Swipes /\ ReturnToWallet(p, amount)
    <3>1. /\ SetRow(r, "success", amount) /\ UNCHANGED <<paid, frozen>>
          /\ refunded' = [refunded EXCEPT ![p] = @ + amount]
          /\ balance' = balance + amount /\ entry' = balance + amount
      BY <2>4 DEF Apply, ReturnToWallet, Move, SetRow
    <3> HIDE DEF p, r, amount
    <3>2. LedgerStep(r, "success", amount, 0, amount)
      BY <1>1, <2>2, <2>3, <2>4, <3>1
      DEF LedgerStep, OpenChange, SuccessChange, OpenPart, SuccessPart, Open
    <3> QED
      BY <1>1, <2>2, <3>2, RowKeepsLedger
  <2>5. CASE p \notin Swipes /\ ReturnToWechat(p, amount)
    <3>1. SetRow(r, "pending", amount) /\ UNCHANGED <<paid, refunded, balance, frozen, entry>>
      BY <2>5 DEF Apply, ReturnToWechat, OpenRecord, SetRow, walletVars
    <3> HIDE DEF p, r, amount
    <3>2. LedgerStep(r, "pending", amount, amount, 0)
      BY <1>1, <2>2, <2>3, <2>5, <3>1
      DEF LedgerStep, OpenChange, SuccessChange, OpenPart, SuccessPart, Open
    <3> QED
      BY <1>1, <2>2, <3>2, RowKeepsLedger
  <2> QED
    BY <1>3, <2>4, <2>5
<1>4. amount \in Int
  <2>1. SumOf(billSeen[b] \cap RefundsOf(p)) \in Nat
    <3>1. billSeen[b] \cap RefundsOf(p) \in SUBSET Refunds
      BY DEF RefundsOf
    <3> QED
      BY <1>1, <3>1, SumsAreAmounts
  <2> QED
    BY <1>1, <2>1 DEF Surplus, Left
<1> QED
  BY <1>2, <1>3, <1>4 DEF Apply, ReturnSurplus

(* A recharge arrives, or a swipe is paid for: nothing of it was refunded   *)
(* before.                                                                  *)
LEMMA PurseLedger ==
  ASSUME SettlementInvariant, MoneyHasSource, Ledger, RecordsTyped', NEW p \in Payments,
         RechargeConfirmed(p) \/ Swipe(p)
  PROVE  Ledger'
<1>1. /\ refunded \in [Payments -> Nat] /\ cents \in [Refunds -> Nat] /\ RecordsTyped
      /\ balance \in Nat /\ frozen \in Nat /\ entry \in Int /\ Paid[p] \in Nat
      /\ frozen <= balance
  BY Rows DEF Ledger, MoneyTyped, AccountsAgree, WalletBalances
<1>2. /\ UNCHANGED <<status, cents, refunded, frozen>>
      /\ paid' = paid \cup {p}
      /\ \/ p \in Recharges /\ balance' = balance + Paid[p] /\ entry' = balance + Paid[p]
         \/ /\ p \in Swipes /\ Paid[p] <= balance - frozen
            /\ balance' = balance + (-Paid[p]) /\ entry' = balance + (-Paid[p])
  BY DEF RechargeConfirmed, Swipe, Spendable, Move, recordVars
<1>3. p \notin paid
  BY DEF RechargeConfirmed, Swipe, MoneyHasSource, Charges
<1>4. refunded[p] = 0
  <2>1. \A r \in RefundsOf(p) : status[r] # "success"
    <3>1. CASE p \in Recharges
      BY <1>3, <3>1, Rows DEF MoneyHasSource, RefundsOf
    <3>2. CASE p \in Swipes
      <4>1. p \notin billed /\ status[<<Fee, p>>] = "none"
        BY <1>3, <3>2 DEF MoneyHasSource, SettlementInvariant, RefundsAreCoherent, Charges
      <4> QED
        BY <3>2, <4>1, Rows DEF RefundsOf
    <3> QED
      BY <1>2, <3>1, <3>2
  <2>2. Succeeded \cap RefundsOf(p) = {}
    BY <2>1 DEF Succeeded
  <2> QED
    BY <2>2, SumEmpty DEF Ledger, AccountsAgree, SumOf
<1>5. Kept[p] = Paid[p] /\ \A q \in Payments : Kept[q] \in Int
  BY <1>1, <1>4, Rows DEF Kept
<1>6. Kept' = Kept
  BY <1>2 DEF Kept
<1>7. /\ SumFunctionOnSet(Kept, Recharges \cap paid) \in Int
      /\ SumFunctionOnSet(Kept, Swipes \cap paid) \in Int
  <2>1. \A S \in SUBSET Payments : SumFunctionOnSet(Kept, S) \in Int
    <3> SUFFICES ASSUME NEW S \in SUBSET Payments
                 PROVE  SumFunctionOnSet(Kept, S) \in Int
      OBVIOUS
    <3>1. IsFiniteSet(S) /\ \A q \in S : Kept[q] \in Int
      BY <1>5, Rows, FS_Subset
    <3> QED
      BY <3>1, SumInt
  <2> QED
    BY <2>1 DEF Payments, Charges
<1>8. ASSUME NEW S \in SUBSET Payments, p \in S
      PROVE  SumFunctionOnSet(Kept, S \cap (paid \cup {p}))
                = SumFunctionOnSet(Kept, S \cap paid) + Paid[p]
  <2>1. S \cap (paid \cup {p}) = (S \cap paid) \cup {p} /\ p \notin S \cap paid
    BY <1>3, <1>8
  <2>2. IsFiniteSet(S \cap paid) /\ \A q \in S \cap paid : Kept[q] \in Int
    <3>1. S \cap paid \in SUBSET Payments
      BY <1>8
    <3> QED
      BY <1>5, <3>1, Rows, FS_Subset
  <2>3. SumFunctionOnSet(Kept, S \cap paid) \in Int
    BY <2>2, SumInt
  <2> HIDE DEF Kept
  <2>4. SumFunctionOnSet(Kept, (S \cap paid) \cup {p}) = Kept[p] + SumFunctionOnSet(Kept, S \cap paid)
    BY <1>5, <2>1, <2>2, SumAdd
  <2> QED
    BY <1>1, <1>5, <2>1, <2>3, <2>4
<1>9. balance' = SumFunctionOnSet(Kept', Recharges \cap paid') - SumFunctionOnSet(Kept', Swipes \cap paid')
  <2>1. balance = SumFunctionOnSet(Kept, Recharges \cap paid) - SumFunctionOnSet(Kept, Swipes \cap paid)
    BY DEF Ledger, AccountsAgree, WalletBalances
  <2>2. CASE p \in Recharges /\ balance' = balance + Paid[p]
    <3>1. Swipes \cap paid' = Swipes \cap paid /\ Recharges \in SUBSET Payments
      BY <1>2, <2>2, KindsDiffer DEF Payments, Charges
    <3>2. SumFunctionOnSet(Kept, Recharges \cap (paid \cup {p}))
             = SumFunctionOnSet(Kept, Recharges \cap paid) + Paid[p]
      BY <1>8, <2>2, <3>1
    <3>3. /\ SumFunctionOnSet(Kept', Recharges \cap paid') = SumFunctionOnSet(Kept, Recharges \cap (paid \cup {p}))
          /\ SumFunctionOnSet(Kept', Swipes \cap paid') = SumFunctionOnSet(Kept, Swipes \cap paid)
      BY <1>2, <1>6, <3>1
    <3> QED
      BY <1>1, <1>7, <2>1, <2>2, <3>2, <3>3
  <2>3. CASE p \in Swipes /\ balance' = balance + (-Paid[p])
    <3>1. Recharges \cap paid' = Recharges \cap paid /\ Swipes \in SUBSET Payments
      BY <1>2, <2>3, KindsDiffer DEF Payments, Charges
    <3>2. SumFunctionOnSet(Kept, Swipes \cap (paid \cup {p}))
             = SumFunctionOnSet(Kept, Swipes \cap paid) + Paid[p]
      BY <1>8, <2>3, <3>1
    <3>3. /\ SumFunctionOnSet(Kept', Swipes \cap paid') = SumFunctionOnSet(Kept, Swipes \cap (paid \cup {p}))
          /\ SumFunctionOnSet(Kept', Recharges \cap paid') = SumFunctionOnSet(Kept, Recharges \cap paid)
      BY <1>2, <1>6, <3>1
    <3> QED
      BY <1>1, <1>7, <2>1, <2>3, <3>2, <3>3
  <2> QED
    BY <1>2, <2>2, <2>3
<1>10. /\ balance' \in Nat /\ frozen' <= balance' /\ entry' \in Int
  BY <1>1, <1>2
<1>11. /\ \A q \in Payments : refunded'[q] = SumOf(Succeeded \cap RefundsOf(q))'
       /\ frozen' = SumOf(Parts \cap Reserved)'
       /\ RechargesCover'
  BY <1>2 DEF Ledger, AccountsAgree, WalletBalances, RechargesCover, Left, SumOf, Succeeded, Reserved
<1>12. MoneyTyped'
  BY <1>2, <1>10 DEF Ledger, MoneyTyped
<1> QED
  BY <1>9, <1>10, <1>11, <1>12 DEF Ledger, AccountsAgree, WalletBalances

(* A wallet refund takes from each recharge no more than is left of it.     *)
LEMMA SharesFit ==
  ASSUME Ledger, NEW amount \in Nat
  PROVE  \A p \in Recharges : /\ Shares(amount)[p] \in Nat
                              /\ Shares(amount)[p] <= Left(p, Reserved)
                              /\ Shares(amount)[p] > 0 => p \in paid
<1>1. \A p \in Recharges : Available[p] \in Nat
  <2> SUFFICES ASSUME NEW p \in Recharges
               PROVE  Left(p, Reserved) \in Nat
    BY DEF Available
  <2>1. p \in Payments /\ Reserved \cap RefundsOf(p) \in SUBSET Refunds
    BY DEF Payments, RefundsOf
  <2>2. Left(p, Reserved) \in Int
    BY <2>1, SumsAreAmounts, Rows DEF Left, Ledger, MoneyTyped
  <2> QED
    BY <2>2 DEF Ledger, RechargesCover
<1>2. \A a, b \in Int : Min({a, b}) \in {a, b} /\ Min({a, b}) <= a /\ Min({a, b}) <= b
  <2> SUFFICES ASSUME NEW a \in Int, NEW b \in Int
               PROVE  Min({a, b}) \in {a, b} /\ Min({a, b}) <= a /\ Min({a, b}) <= b
    OBVIOUS
  <2>1. \E x \in {a, b} : \A y \in {a, b} : x <= y
    OBVIOUS
  <2> QED
    BY <2>1 DEF Min
<1>3. ASSUME NEW p \in Recharges
      PROVE  GivenBefore(p, amount) \in Int /\ GivenBefore(p, amount) <= amount
  <2> DEFINE before == {q \in Givers : q < p}
  <2>1. IsFiniteSet(before) /\ \A q \in before : Available[q] \in Int
    <3>1. before \in SUBSET Recharges
      BY DEF Givers
    <3> QED
      BY <1>1, <3>1, Rows, FS_Subset
  <2>2. SumFunctionOnSet(Available, before) \in Int
    BY <2>1, SumInt
  <2> DEFINE given == SumFunctionOnSet(Available, before)
  <2>3. GivenBefore(p, amount) = Min({amount, given}) /\ given \in Int /\ amount \in Int
    BY <2>2 DEF GivenBefore
  <2> HIDE DEF given
  <2>4. Min({amount, given}) \in {amount, given} /\ Min({amount, given}) <= amount
    BY <1>2, <2>3
  <2> QED
    BY <2>3, <2>4
<1> SUFFICES ASSUME NEW p \in Recharges
             PROVE  /\ Shares(amount)[p] \in Nat
                    /\ Shares(amount)[p] <= Available[p]
                    /\ Shares(amount)[p] > 0 => p \in paid
  BY DEF Available
<1> HIDE DEF Available
<1>4. Shares(amount)[p] = IF p \in Givers THEN Min({amount - GivenBefore(p, amount), Available[p]}) ELSE 0
  BY DEF Shares
<1>5. amount - GivenBefore(p, amount) \in Nat /\ Available[p] \in Nat
  BY <1>1, <1>3
<1> DEFINE wanted == amount - GivenBefore(p, amount)
           there == Available[p]
<1>6. wanted \in Int /\ there \in Int
  BY <1>5
<1> HIDE DEF wanted, there
<1>7. Min({wanted, there}) \in {wanted, there} /\ Min({wanted, there}) <= there
  BY <1>2, <1>6
<1>8. wanted \in Nat /\ there \in Nat /\ there = Available[p]
      /\ Shares(amount)[p] = IF p \in Givers THEN Min({wanted, there}) ELSE 0
  BY <1>4, <1>5 DEF wanted, there
<1> QED
  BY <1>7, <1>8 DEF Givers

(* The parts of a request are reserved and frozen together.                 *)
LEMMA ReserveLedger ==
  ASSUME SettlementInvariant, Ledger, RecordsTyped', NEW q \in WalletRequests,
         NEW amount \in Nat, ReserveRefund(q, amount)
  PROVE  Ledger'
<1> DEFINE share == Shares(amount)
           part == [p \in Recharges |-> <<q, p>>]
           parts == {r \in Parts : r[1] = q /\ share[r[2]] > 0}
<1>1. /\ status' = [r \in Refunds |-> IF r \in parts THEN "pending" ELSE status[r]]
      /\ cents' = [r \in Refunds |-> IF r \in parts THEN share[r[2]] ELSE cents[r]]
      /\ \A p \in Recharges : status[<<q, p>>] = "none"
      /\ amount <= balance - frozen /\ frozen' = frozen + amount
      /\ SumFunctionOnSet(share, Recharges) = amount
      /\ UNCHANGED <<paid, refunded, balance, entry>>
  <2>1. SumFunction(share) = SumFunctionOnSet(share, Recharges)
    BY DEF Shares, SumFunction, FoldFunction, SumFunctionOnSet
  <2> QED
    BY <2>1 DEF ReserveRefund, Spendable
<1>2. /\ refunded \in [Payments -> Nat] /\ cents \in [Refunds -> Nat]
      /\ balance \in Nat /\ frozen \in Nat /\ entry \in Int
  BY DEF Ledger, MoneyTyped
<1>3. \A p \in Recharges : share[p] \in Nat /\ share[p] <= Left(p, Reserved)
  BY SharesFit
<1> HIDE DEF share
<1>4. /\ parts \subseteq Parts /\ parts \subseteq Refunds /\ IsFiniteSet(parts)
      /\ \A p \in Recharges : /\ part[p] = <<q, p>> /\ part[p] \in Parts /\ PaymentOf(part[p]) = p
                              /\ part[p] \in parts <=> share[p] > 0
      /\ \A r \in parts : /\ PaymentOf(r) \in Recharges /\ r = part[PaymentOf(r)]
                          /\ status[r] = "none" /\ share[PaymentOf(r)] \in Nat
  <2>1. \A p \in Recharges : /\ part[p] = <<q, p>> /\ part[p] \in Parts /\ PaymentOf(part[p]) = p
                             /\ part[p] \in parts <=> share[p] > 0
    BY DEF Parts, PaymentOf
  <2>2. \A r \in parts : /\ PaymentOf(r) \in Recharges /\ r = part[PaymentOf(r)]
                         /\ status[r] = "none" /\ share[PaymentOf(r)] \in Nat
    BY <1>1, <1>3 DEF Parts, PaymentOf
  <2>3. parts \subseteq Parts /\ parts \subseteq Refunds
    BY Kinds
  <2> QED
    BY <2>1, <2>2, <2>3, Rows, FS_Subset
<1>5. /\ \A r \in Refunds : /\ r \in parts => cents'[r] = share[PaymentOf(r)] /\ status'[r] = "pending"
                            /\ r \notin parts => cents'[r] = cents[r] /\ status'[r] = status[r]
      /\ cents' \in [Refunds -> Nat]
  BY <1>1, <1>2, <1>4 DEF PaymentOf
<1> HIDE DEF parts, part
<1>6. ASSUME NEW F \in SUBSET Refunds
      PROVE  /\ SumOf(Reserved \cap F) \in Int /\ SumFunctionOnSet(cents', parts \cap F) \in Int
             /\ SumOf(Reserved \cap F)' = SumOf(Reserved \cap F) + SumFunctionOnSet(cents', parts \cap F)
             /\ SumOf(Succeeded \cap F)' = SumOf(Succeeded \cap F)
  <2> DEFINE old == Reserved \cap F
             new == parts \cap F
             done == Succeeded \cap F
  <2>1. /\ (Reserved \cap F)' = old \cup new /\ old \cap new = {}
        /\ (Succeeded \cap F)' = done /\ done \cap parts = {}
    BY <1>4, <1>5 DEF Reserved, Succeeded, Open
  <2>2. /\ old \in SUBSET Refunds /\ new \in SUBSET Refunds /\ done \in SUBSET Refunds
    BY DEF Reserved, Succeeded
  <2>3. /\ IsFiniteSet(old) /\ IsFiniteSet(new) /\ IsFiniteSet(done)
    BY <2>2, Rows, FS_Subset
  <2>4. /\ \A r \in old : cents'[r] = cents[r]
        /\ \A r \in done : cents'[r] = cents[r]
        /\ \A r \in old \cup new : cents'[r] \in Int
        /\ \A r \in old : cents[r] \in Int
    BY <1>2, <1>5, <2>1, <2>2
  <2> HIDE DEF old, new, done
  <2>5. SumFunctionOnSet(cents', old \cup new) = SumFunctionOnSet(cents', old) + SumFunctionOnSet(cents', new)
    BY <2>1, <2>3, <2>4, SumUnion
  <2>6. /\ SumFunctionOnSet(cents', old) = SumFunctionOnSet(cents, old)
        /\ SumFunctionOnSet(cents', done) = SumFunctionOnSet(cents, done)
    BY <2>3, <2>4, SumSame
  <2>7. SumFunctionOnSet(cents, old) \in Int /\ SumFunctionOnSet(cents', new) \in Int
    BY <2>3, <2>4, SumInt
  <2> QED
    BY <2>1, <2>5, <2>6, <2>7 DEF SumOf, old, new, done
<1>7. SumFunctionOnSet(cents', parts) = amount
  <2> DEFINE some == {p \in Recharges : share[p] > 0}
             rest == {p \in Recharges : share[p] = 0}
  <2>1. /\ some \cup rest = Recharges /\ some \cap rest = {}
        /\ some \in SUBSET Recharges /\ rest \in SUBSET Recharges
    BY <1>3
  <2>2. /\ IsFiniteSet(some) /\ IsFiniteSet(rest)
    BY <2>1, Rows, FS_Subset
  <2>3. parts = {part[p] : p \in some}
    BY <1>4
  <2>4. /\ \A p \in some : cents'[part[p]] = share[p] /\ share[p] \in Int
        /\ \A p, s \in some : part[p] = part[s] => p = s
        /\ \A p \in rest : share[p] = 0
        /\ \A p \in some \cup rest : share[p] \in Int
    BY <1>3, <1>4, <1>5
  <2> HIDE DEF some, rest
  <2>5. SumFunctionOnSet(cents', {part[p] : p \in some}) = SumFunctionOnSet(share, some)
    BY <2>2, <2>4, SumRenamed
  <2>6. SumFunctionOnSet(share, rest) = 0
    BY <2>2, <2>4, SumZero
  <2>7. SumFunctionOnSet(share, some \cup rest) = SumFunctionOnSet(share, some) + SumFunctionOnSet(share, rest)
    BY <2>1, <2>2, <2>4, SumUnion
  <2>8. SumFunctionOnSet(share, some) \in Int
    BY <2>2, <2>4, SumInt
  <2>9. /\ SumFunctionOnSet(cents', parts) = SumFunctionOnSet(cents', {part[p] : p \in some})
        /\ SumFunctionOnSet(share, Recharges) = SumFunctionOnSet(share, some \cup rest)
    BY <2>1, <2>3
  <2> QED
    BY <1>1, <2>5, <2>6, <2>7, <2>8, <2>9
<1>8. RechargesCover'
  <2> SUFFICES ASSUME NEW p \in Recharges
               PROVE  Paid[p] - refunded[p] - SumOf(Reserved \cap RefundsOf(p))' >= 0
    BY <1>1 DEF RechargesCover, Left
  <2>1. p \in Payments /\ RefundsOf(p) \in SUBSET Refunds /\ Paid[p] \in Nat /\ refunded[p] \in Nat
    BY <1>2, Rows DEF Payments
  <2>2. SumFunctionOnSet(cents', parts \cap RefundsOf(p)) <= share[p]
    <3>1. CASE share[p] > 0
      <4>1. parts \cap RefundsOf(p) = {} \cup {part[p]} /\ cents'[part[p]] = share[p]
        BY <1>4, <1>5, <3>1 DEF RefundsOf
      <4>2. SumFunctionOnSet(cents', {} \cup {part[p]}) = cents'[part[p]] + SumFunctionOnSet(cents', {})
        BY <1>3, <4>1, SumAdd, FS_EmptySet
      <4> QED
        BY <1>3, <4>1, <4>2, SumEmpty
    <3>2. CASE share[p] = 0
      <4>1. parts \cap RefundsOf(p) = {}
        BY <1>4, <3>2 DEF RefundsOf
      <4> QED
        BY <3>2, <4>1, SumEmpty
    <3> QED
      BY <1>3, <3>1, <3>2
  <2>3. share[p] <= Paid[p] - refunded[p] - SumOf(Reserved \cap RefundsOf(p)) /\ share[p] \in Nat
    BY <1>3 DEF Left
  <2>4. /\ SumOf(Reserved \cap RefundsOf(p)) \in Int
        /\ SumFunctionOnSet(cents', parts \cap RefundsOf(p)) \in Int
        /\ SumOf(Reserved \cap RefundsOf(p))'
              = SumOf(Reserved \cap RefundsOf(p)) + SumFunctionOnSet(cents', parts \cap RefundsOf(p))
    BY <1>6, <2>1
  <2> QED
    BY <2>1, <2>2, <2>3, <2>4
<1>9. frozen' = SumOf(Parts \cap Reserved)'
  <2>1. Parts \in SUBSET Refunds /\ Parts \cap Reserved = Reserved \cap Parts
        /\ (Parts \cap Reserved)' = (Reserved \cap Parts)' /\ parts \cap Parts = parts
    BY <1>4, Kinds
  <2>2. frozen = SumOf(Reserved \cap Parts)
    BY <2>1 DEF Ledger, AccountsAgree, WalletBalances
  <2>3. SumOf(Reserved \cap Parts)' = SumOf(Reserved \cap Parts) + SumFunctionOnSet(cents', parts)
    BY <1>6, <2>1
  <2> QED
    BY <1>1, <1>7, <2>1, <2>2, <2>3
<1>10. \A p \in Payments : refunded'[p] = SumOf(Succeeded \cap RefundsOf(p))'
  <2>1. \A p \in Payments : RefundsOf(p) \in SUBSET Refunds /\ refunded[p] = SumOf(Succeeded \cap RefundsOf(p))
    BY Rows DEF Ledger, AccountsAgree
  <2> QED
    BY <1>1, <1>6, <2>1
<1>11. balance' = SumFunctionOnSet(Kept', Recharges \cap paid') - SumFunctionOnSet(Kept', Swipes \cap paid')
  BY <1>1 DEF Ledger, AccountsAgree, WalletBalances, Kept
<1>12. MoneyTyped' /\ frozen' <= balance'
  BY <1>1, <1>2, <1>5 DEF Ledger, MoneyTyped
<1> QED
  BY <1>8, <1>9, <1>10, <1>11, <1>12 DEF Ledger, AccountsAgree, WalletBalances

-----------------------------------------------------------------------------
(* Claims                                                                   *)

(* A record that is there stays, with its amount, and is not opened again;  *)
(* outside of a claim none is taken up; and a claim that goes on has seen   *)
(* what it has seen.                                                        *)
RowsGoOn ==
  \A r \in Refunds :
     /\ status[r] # "none" => status'[r] # "none" /\ cents'[r] = cents[r]
     /\ status'[r] \in Open => status[r] \in Open \cup {"none"}

TakenUp(r) == r \in Channelled /\ status[r] \in {"processing", "success"}

NoneTakenUp == \A r \in Refunds : TakenUp(r)' => TakenUp(r)

ClaimsGoOn ==
  \A e \in Executors :
     /\ seen'[e] \subseteq seen[e]
     /\ step'[e] = "claiming" =>
           step[e] = "claiming" /\ job'[e] = job[e] /\ seen'[e] = seen[e]

NoClaim == RowsGoOn /\ NoneTakenUp /\ ClaimsGoOn

(* Steps that touch neither records nor executors.                          *)
LEMMA QuietIsNoClaim ==
  ASSUME UNCHANGED <<status, cents, step, job, seen>>
  PROVE  NoClaim
BY DEF NoClaim, RowsGoOn, NoneTakenUp, TakenUp, ClaimsGoOn

(* The back office opens a record, or closes one that is open.              *)
LEMMA OfficeIsNoClaim ==
  ASSUME SettlementInvariant, cents \in [Refunds -> Nat], NEW r \in Refunds,
         \/ BeginManual(r)
         \/ \E amount \in 1..Paid[PaymentOf(r)] : ManualCreate(r, amount)
         \/ DropDraft(r) \/ SignFirst(r) \/ SignSecond(r) \/ Reject(r) \/ FallsDue(r)
  PROVE  NoClaim
<1>1. RecordsTyped /\ RefundsAreCoherent
  BY DEF SettlementInvariant, ControlTyped
<1>2. UNCHANGED <<step, job, seen>>
  BY DEF BeginManual, ManualCreate, DropDraft, SignFirst, SignSecond, Reject, FallsDue,
         EndDraft, taskVars, executionVars
<1>3. \/ UNCHANGED <<status, cents>>
      \/ /\ status[r] = "none" /\ status' = [status EXCEPT ![r] = "pending"]
         /\ \E amount \in Int : cents' = [cents EXCEPT ![r] = amount]
      \/ /\ status[r] = "pending" /\ status' = [status EXCEPT ![r] = "rejected"]
         /\ UNCHANGED cents
  BY <1>1 DEF RefundsAreCoherent, BeginManual, ManualCreate, DropDraft, SignFirst, SignSecond,
              Reject, FallsDue, OpenRecord, SetStatus, UnderReview, bookVars, recordVars
<1> QED
  BY <1>1, <1>2, <1>3 DEF NoClaim, RowsGoOn, NoneTakenUp, TakenUp, ClaimsGoOn, RecordsTyped, Open

(* An executor past its claim only closes what is processing.               *)
LEMMA AnswerIsNoClaim ==
  ASSUME SettlementInvariant, NEW e \in Executors,
         \/ Claim(e) /\ UNCHANGED status
         \/ QueryRefund(e) \/ CreateRefund(e) \/ Answered(e) \/ GivesUp(e)
         \/ ApplyProcessing(e) \/ ApplyClosed(e) \/ ApplySuccess(e)
  PROVE  NoClaim
<1>1. RecordsTyped /\ ExecutionTyped
  BY DEF SettlementInvariant, ControlTyped
<1>2. ClaimsGoOn
  BY <1>1 DEF ClaimsGoOn, ExecutionTyped, Claim, QueryRefund, CreateRefund, Answered, GivesUp,
              ApplyProcessing, ApplyClosed, ApplySuccess, TakeAnswer, At, Leave
<1>3. /\ UNCHANGED cents
      /\ \/ UNCHANGED status
         \/ /\ job[e] \in Refunds /\ status[job[e]] = "processing"
            /\ \E to \in {"failed", "success"} : status' = [status EXCEPT ![job[e]] = to]
  <2>1. CASE \/ Claim(e) /\ UNCHANGED status
             \/ QueryRefund(e) \/ CreateRefund(e) \/ Answered(e) \/ GivesUp(e) \/ ApplyProcessing(e)
    BY <2>1 DEF Claim, QueryRefund, CreateRefund, Answered, GivesUp, ApplyProcessing,
                bookVars, recordVars
  <2>2. CASE ApplyClosed(e) \/ ApplySuccess(e)
    <3>1. job[e] \in Refunds
      BY <2>2, Kinds DEF SettlementInvariant, RefundsAreCoherent, ApplyClosed, ApplySuccess
    <3> QED
      BY <2>2, <3>1 DEF ApplyClosed, ApplySuccess, SetStatus, Bookable, Book, recordVars
  <2> QED
    BY <2>1, <2>2
<1> QED
  BY <1>1, <1>2, <1>3 DEF NoClaim, RowsGoOn, NoneTakenUp, TakenUp, RecordsTyped, Open

(* Billing opens a record, or closes that of a swipe at once.               *)
LEMMA FeeIsNoClaim ==
  ASSUME SettlementInvariant, cents \in [Refunds -> Nat], NEW b \in Billers, Apply(b)
  PROVE  NoClaim
<1> DEFINE p == billing[b]
           r == <<Fee, p>>
<1>1. UNCHANGED <<step, job, seen>>
  BY DEF Apply, executionVars, taskVars
<1>2. CASE UNCHANGED recordVars
  BY <1>1, <1>2, QuietIsNoClaim DEF recordVars
<1>3. CASE /\ p \notin billed
           /\ \/ p \in Swipes /\ ReturnToWallet(p, Surplus(p, billSeen[b]))
              \/ p \notin Swipes /\ ReturnToWechat(p, Surplus(p, billSeen[b]))
  <2>1. /\ p \in Charges /\ r \in Refunds /\ status[r] = "none"
        /\ p \in Swipes => r \notin Channelled
    BY <1>3, Kinds DEF Apply, SettlementInvariant, ControlTyped, BillingTyped, RefundsAreCoherent
  <2>2. \A q \in Refunds : q # r => status'[q] = status[q] /\ cents'[q] = cents[q]
    BY <1>3 DEF ReturnToWallet, ReturnToWechat, OpenRecord, SettlementInvariant, ControlTyped, RecordsTyped
  <2>3. status'[r] = "pending" \/ (p \in Swipes /\ status'[r] = "success")
    BY <1>3, <2>1 DEF ReturnToWallet, ReturnToWechat, OpenRecord, SettlementInvariant, ControlTyped, RecordsTyped
  <2> QED
    BY <1>1, <2>1, <2>2, <2>3 DEF NoClaim, RowsGoOn, NoneTakenUp, TakenUp, ClaimsGoOn, Open
<1> QED
  BY <1>2, <1>3 DEF Apply, ReturnSurplus

(* A wallet refund opens records.                                           *)
LEMMA ReserveIsNoClaim ==
  ASSUME NEW q \in WalletRequests, NEW amount, ReserveRefund(q, amount)
  PROVE  NoClaim
<1> DEFINE parts == {r \in Parts : r[1] = q /\ Shares(amount)[r[2]] > 0}
<1>1. /\ status' = [r \in Refunds |-> IF r \in parts THEN "pending" ELSE status[r]]
      /\ cents' = [r \in Refunds |-> IF r \in parts THEN Shares(amount)[r[2]] ELSE cents[r]]
      /\ UNCHANGED <<step, job, seen>>
      /\ \A p \in Recharges : status[<<q, p>>] = "none"
  BY DEF ReserveRefund, executionVars, taskVars
<1>2. \A r \in parts : status[r] = "none"
  <2>1. \A r \in parts : \E p \in Recharges : r = <<q, p>>
    BY DEF Parts
  <2> QED
    BY <1>1, <2>1
<1> HIDE DEF parts
<1> QED
  BY <1>1, <1>2 DEF NoClaim, RowsGoOn, NoneTakenUp, TakenUp, ClaimsGoOn, Open

(* A step is a claim that begins, a claim that succeeds, or neither.        *)
LEMMA StepsAndClaims ==
  ASSUME SettlementInvariant, cents \in [Refunds -> Nat], [SettlementNext]_settlementVars
  PROVE  \/ \E e \in Executors, r \in Refunds : BeginClaim(e, r)
         \/ \E e \in Executors : Claim(e) /\ status' # status
         \/ NoClaim
<1>1. CASE WalletNext
  <2>1. ASSUME NEW p \in Payments, RechargeConfirmed(p) \/ Swipe(p)
        PROVE  NoClaim
    BY <2>1, QuietIsNoClaim DEF RechargeConfirmed, Swipe, recordVars, executionVars, taskVars
  <2> QED
    BY <1>1, <2>1, ReserveIsNoClaim DEF WalletNext
<1>2. CASE BillingNext
  <2>1. ASSUME \/ \E p \in Charges : \/ ChargeEnds(p) \/ MeterInDoubt(p) \/ ResolveAmount(p)
                                     \/ \E amount \in 0..Paid[p] : Calculate(p, amount)
               \/ \E b \in Billers : BillingFails(b) \/ \E p \in Charges : BeginBilling(b, p)
        PROVE  UNCHANGED <<status, cents, step, job, seen>>
    BY <2>1 DEF ChargeEnds, MeterInDoubt, ResolveAmount, Calculate, BillingFails, BeginBilling,
                bookVars, recordVars, executionVars, taskVars
  <2> QED
    BY <1>2, <2>1, QuietIsNoClaim, FeeIsNoClaim DEF BillingNext
<1>3. CASE OfficeNext
  BY <1>3, OfficeIsNoClaim DEF OfficeNext
<1>4. CASE ExecutorNext
  BY <1>4, AnswerIsNoClaim DEF ExecutorNext
<1>5. CASE ChannelNext
  BY <1>5, QuietIsNoClaim DEF ChannelNext, ChannelTakes, ChannelDecides, bookVars, recordVars, taskVars
<1>6. CASE UNCHANGED settlementVars
  BY <1>6, QuietIsNoClaim DEF settlementVars, bookVars, recordVars, executionVars, taskVars
<1> QED
  BY <1>1, <1>2, <1>3, <1>4, <1>5, <1>6 DEF SettlementNext, ExecutionNext

(* A claim that begins sees all that is open, so the others saw no more of  *)
(* it.                                                                      *)
LEMMA ClaimsStayOrdered ==
  ASSUME SettlementInvariant, ClaimsAreOrdered, cents \in [Refunds -> Nat],
         [SettlementNext]_settlementVars
  PROVE  ClaimsAreOrdered'
<1>1. RecordsTyped /\ ExecutionTyped /\ RefundsAreCoherent
  BY DEF SettlementInvariant, ControlTyped
<1>2. ASSUME NoClaim
      PROVE  ClaimsAreOrdered'
  <2>1. ASSUME NEW e \in Executors
        PROVE  /\ step'[e] = "claiming" => job'[e] \in seen'[e]
               /\ \A r \in seen'[e] : status'[r] # "none"
    BY <1>1, <1>2 DEF NoClaim, RowsGoOn, ClaimsGoOn, ClaimsAreOrdered, ExecutionTyped
  <2>2. ASSUME NEW e \in Executors, NEW f \in Executors,
               step'[e] = "claiming", step'[f] = "claiming",
               status'[job'[f]] \in Open, job'[f] \notin seen'[e],
               NEW r \in Refunds, r \in seen'[e], status'[r] \in Open
        PROVE  r \in seen'[f]
    <3>1. /\ step[e] = "claiming" /\ step[f] = "claiming"
          /\ job'[f] = job[f] /\ seen'[e] = seen[e] /\ seen'[f] = seen[f]
      BY <1>2, <2>2 DEF NoClaim, ClaimsGoOn
    <3>2. job[f] \in seen[f] /\ job[f] \in Refunds /\ status[job[f]] # "none" /\ status[r] # "none"
      BY <1>1, <2>2, <3>1 DEF ClaimsAreOrdered, ExecutionTyped
    <3>3. status[job[f]] \in Open /\ status[r] \in Open
      BY <1>2, <2>2, <3>1, <3>2 DEF NoClaim, RowsGoOn
    <3> QED
      BY <2>2, <3>1, <3>3 DEF ClaimsAreOrdered, Reserved
  <2> QED
    BY <2>1, <2>2 DEF ClaimsAreOrdered, Reserved
<1>3. ASSUME NEW e \in Executors, NEW r \in Refunds, BeginClaim(e, r)
      PROVE  ClaimsAreOrdered'
  <2>1. /\ UNCHANGED status
        /\ status[r] \in Open
        /\ step'[e] = "claiming" /\ job'[e] = r /\ seen'[e] = Reserved
        /\ \A f \in Executors \ {e} : step'[f] = step[f] /\ job'[f] = job[f] /\ seen'[f] = seen[f]
    BY <1>1, <1>3 DEF BeginClaim, At, ExecutionTyped, bookVars, recordVars
  <2>2. ASSUME NEW f \in Executors
        PROVE  /\ step'[f] = "claiming" => job'[f] \in seen'[f]
               /\ \A q \in seen'[f] : status[q] # "none"
    <3>1. CASE f = e
      BY <2>1, <3>1 DEF Reserved, Open
    <3>2. CASE f # e
      BY <2>1, <3>2 DEF ClaimsAreOrdered
    <3> QED
      BY <3>1, <3>2
  <2>3. ASSUME NEW f \in Executors, NEW g \in Executors,
               step'[f] = "claiming", step'[g] = "claiming",
               status[job'[g]] \in Open, job'[g] \notin seen'[f]
        PROVE  seen'[f] \cap Reserved \subseteq seen'[g]
    <3>1. CASE g = e
      BY <2>1, <3>1
    <3>2. CASE g # e /\ f = e
      <4>1. job[g] \in Refunds
        BY <2>1, <2>3, <3>2, Kinds DEF SettlementInvariant, RefundsAreCoherent
      <4> QED
        BY <2>1, <2>3, <3>2, <4>1 DEF Reserved
    <3>3. CASE g # e /\ f # e
      BY <2>1, <2>3, <3>3 DEF ClaimsAreOrdered
    <3> QED
      BY <3>1, <3>2, <3>3
  <2>4. Reserved' = Reserved
    BY <2>1 DEF Reserved
  <2> QED
    BY <2>1, <2>2, <2>3, <2>4 DEF ClaimsAreOrdered
<1>4. ASSUME NEW e \in Executors, Claim(e), status' # status
      PROVE  ClaimsAreOrdered'
  <2>1. /\ status[job[e]] \in Open /\ job[e] \in Refunds
        /\ status' = [status EXCEPT ![job[e]] = "processing"]
        /\ step'[e] = "asking" /\ seen'[e] = {}
        /\ \A f \in Executors \ {e} : step'[f] = step[f] /\ seen'[f] = seen[f]
        /\ UNCHANGED job
    BY <1>1, <1>4, Kinds DEF Claim, Claimable, At, ExecutionTyped, RefundsAreCoherent
  <2>2. \A r \in Refunds : /\ status'[r] \in Open <=> status[r] \in Open
                           /\ status'[r] = "none" <=> status[r] = "none"
    BY <1>1, <2>1 DEF RecordsTyped, Open
  <2>3. \A f \in Executors : seen[f] \subseteq Refunds /\ (step[f] = "claiming" => job[f] \in Refunds)
    BY <1>1, Kinds DEF ExecutionTyped, RefundsAreCoherent
  <2> QED
    BY <2>1, <2>2, <2>3 DEF ClaimsAreOrdered, Reserved
<1> QED
  BY <1>2, <1>3, <1>4, StepsAndClaims

(* What a swipe did not use goes back without a claim.                      *)
LEMMA SwipesFit ==
  SettlementInvariant /\ MoneyTyped /\ AccountsAgree
    => \A p \in Swipes : \E W \in SUBSET RefundsOf(p) : Covers(W, p)
<1> SUFFICES ASSUME SettlementInvariant, MoneyTyped, AccountsAgree, NEW p \in Swipes
             PROVE  \E W \in SUBSET RefundsOf(p) : Covers(W, p)
  OBVIOUS
<1> WITNESS Succeeded \cap RefundsOf(p) \in SUBSET RefundsOf(p)
<1>1. p \in Payments
  BY DEF Payments, Charges
<1>2. SumOf(Succeeded \cap RefundsOf(p)) <= Paid[p]
  BY <1>1 DEF AccountsAgree, MoneyTyped
<1>3. \A r \in RefundsOf(p) : r \in Refunds /\ status[r] \in {"none", "success"}
  BY <1>1, Rows DEF SettlementInvariant, RefundsAreCoherent, RefundsOf
<1>4. \A e \in Executors : step[e] = "claiming" => PaymentOf(job[e]) # p
  BY KindsDiffer DEF SettlementInvariant, RefundsAreCoherent, Channelled, ManualRefunds, Parts,
                     PaymentOf, Charges
<1> QED
  BY <1>2, <1>3, <1>4 DEF Covers, Succeeded

(* No two claims together ask for more than was paid: a claim counts what   *)
(* it saw, and whoever claimed before, or will, has been seen or sees.      *)
LEMMA ClaimsStayFit ==
  ASSUME SettlementInvariant, MoneyTyped, AccountsAgree, ClaimsAreOrdered, ClaimsFit,
         [SettlementNext]_settlementVars, NEW p \in Payments \ Swipes
  PROVE  \E W \in SUBSET RefundsOf(p) : Covers(W, p)'
<1>1. /\ RecordsTyped /\ ExecutionTyped /\ RefundsAreCoherent
      /\ cents \in [Refunds -> Nat] /\ RefundsOf(p) \subseteq Refunds
      /\ \A r \in RefundsOf(p) : r \in Channelled
      /\ \A e \in Executors : step[e] = "claiming" => job[e] \in Refunds
  <2>1. \A r \in RefundsOf(p) : r \in Channelled
    BY DEF RefundsOf, Refunds, Channelled, PaymentOf, Charges
  <2>2. \A e \in Executors : step[e] = "claiming" => job[e] \in Refunds
    BY Kinds DEF SettlementInvariant, RefundsAreCoherent
  <2> QED
    BY <2>1, <2>2 DEF SettlementInvariant, ControlTyped, MoneyTyped, RefundsOf
<1>2. PICK W \in SUBSET RefundsOf(p) : Covers(W, p)
  BY DEF ClaimsFit
<1>3. ASSUME \A r \in W : cents'[r] = cents[r]
      PROVE  SumOf(W)' = SumOf(W)
  <2>1. IsFiniteSet(W)
    <3>1. W \in SUBSET Refunds
      BY <1>1
    <3> QED
      BY <3>1, Rows, FS_Subset
  <2> QED
    BY <1>3, <2>1, SumSame DEF SumOf
<1>4. ASSUME NoClaim
      PROVE  Covers(W, p)'
  <2>1. /\ \A r \in W : status[r] # "none" /\ cents'[r] = cents[r] /\ status'[r] # "none"
        /\ \A r \in RefundsOf(p) : status'[r] \in {"processing", "success"} => r \in W
    BY <1>1, <1>2, <1>4 DEF Covers, NoClaim, RowsGoOn, NoneTakenUp, TakenUp
  <2>2. ASSUME NEW e \in Executors, step'[e] = "claiming", PaymentOf(job'[e]) = p,
               status'[job'[e]] \in Open, job'[e] \notin W,
               NEW r \in W, status'[r] \in Open
        PROVE  r \in seen'[e]
    <3>1. step[e] = "claiming" /\ job'[e] = job[e] /\ seen'[e] = seen[e]
      BY <1>4, <2>2 DEF NoClaim, ClaimsGoOn
    <3>2. job[e] \in Refunds /\ status[job[e]] # "none"
      BY <1>1, <3>1 DEF ClaimsAreOrdered
    <3>3. status[job[e]] \in Open /\ status[r] \in Open /\ r \in Refunds
      BY <1>1, <1>4, <2>1, <2>2, <3>1, <3>2 DEF NoClaim, RowsGoOn
    <3> QED
      BY <1>2, <2>2, <3>1, <3>3 DEF Covers, Reserved
  <2> QED
    BY <1>2, <1>3, <2>1, <2>2 DEF Covers, Reserved
<1>5. ASSUME NEW e \in Executors, NEW r \in Refunds, BeginClaim(e, r)
      PROVE  Covers(W, p)'
  <2>1. /\ UNCHANGED <<status, cents>>
        /\ step'[e] = "claiming" /\ job'[e] = r /\ seen'[e] = Reserved
        /\ \A f \in Executors \ {e} : step'[f] = step[f] /\ job'[f] = job[f] /\ seen'[f] = seen[f]
    BY <1>1, <1>5 DEF BeginClaim, At, ExecutionTyped, bookVars, recordVars
  <2>2. SumOf(W)' = SumOf(W)
    BY <1>3, <2>1
  <2> QED
    BY <1>2, <2>1, <2>2 DEF Covers, Reserved
<1>6. ASSUME NEW e \in Executors, Claim(e), status' # status
      PROVE  \E V \in SUBSET RefundsOf(p) : Covers(V, p)'
  <2> DEFINE j == job[e]
  <2>1. /\ status[j] \in Open /\ j \in Refunds /\ step[e] = "claiming"
        /\ status' = [status EXCEPT ![j] = "processing"]
        /\ step'[e] = "asking" /\ seen'[e] = {}
        /\ \A f \in Executors \ {e} : step'[f] = step[f] /\ seen'[f] = seen[f]
        /\ UNCHANGED <<job, cents, refunded>>
        /\ Fits(j, seen[e])
    BY <1>1, <1>6 DEF Claim, Claimable, At, ExecutionTyped
  <2>2. /\ \A r \in Refunds : /\ status'[r] \in Open <=> status[r] \in Open
                              /\ status'[r] = "none" <=> status[r] = "none"
                              /\ r # j => status'[r] = status[r]
        /\ status'[j] = "processing"
    BY <1>1, <2>1 DEF RecordsTyped, Open
  <2> HIDE DEF j
  <2>3. CASE PaymentOf(j) # p \/ j \in W
    <3>1. SumOf(W)' = SumOf(W)
      BY <1>3, <2>1
    <3>2. \A r \in RefundsOf(p) : status'[r] \in {"processing", "success"} => r \in W
      BY <1>1, <1>2, <2>2, <2>3 DEF Covers, RefundsOf
    <3>3. Covers(W, p)'
      BY <1>1, <1>2, <2>1, <2>2, <3>1, <3>2 DEF Covers, Reserved
    <3> QED
      BY <3>3
  <2>4. CASE PaymentOf(j) = p /\ j \notin W
    <3> DEFINE done == Succeeded \cap RefundsOf(p)
               met == seen[e] \cap RefundsOf(p)
    <3>0. PICK V \in SUBSET RefundsOf(p) : V = done \cup met
      OBVIOUS
    <3>1. /\ W \cap Reserved \subseteq seen[e]
          /\ j \in met
          /\ met \subseteq Refunds /\ done \subseteq Refunds
      BY <1>1, <1>2, <2>1, <2>4 DEF Covers, ClaimsAreOrdered, RefundsOf, j
    <3>2. SumOf(V) <= Paid[p]
      <4>1. /\ IsFiniteSet(done) /\ IsFiniteSet(met) /\ IsFiniteSet(met \ {j}) /\ IsFiniteSet(met \ done)
            /\ \A r \in done \cup met : cents[r] \in Nat /\ cents[r] \in Int
        BY <1>1, <3>1, Rows, FS_Subset
      <4> DEFINE sum(S) == SumFunctionOnSet(cents, S)
      <4>2. refunded[p] = sum(done)
        BY DEF AccountsAgree, SumOf
      <4>3. cents[j] <= Paid[p] - refunded[p] - sum(met \ {j})
        <5>1. (seen[e] \ {j}) \cap RefundsOf(p) = met \ {j}
          OBVIOUS
        <5> HIDE DEF met
        <5> QED
          BY <2>1, <2>4, <5>1 DEF Fits, Left, SumOf
      <4> HIDE DEF done, met
      <4>4. sum(met) = cents[j] + sum(met \ {j}) /\ sum(met \ {j}) \in Int
        BY <3>1, <4>1, SumRemove, SumInt
      <4>5. sum(met \ done) <= sum(met) /\ sum(met \ done) \in Nat
        BY <4>1, SumSubset
      <4>6. sum(done \cup (met \ done)) = sum(done) + sum(met \ done) /\ sum(done) \in Int
        BY <4>1, SumUnion, SumInt
      <4>7. sum(V) = sum(done \cup (met \ done))
        <5>1. V = done \cup (met \ done)
          BY <3>0
        <5> QED
          BY <5>1
      <4>8. cents[j] \in Int /\ Paid[p] \in Int /\ refunded[p] \in Int
        BY <1>1, <2>1, Rows DEF MoneyTyped
      <4> HIDE DEF sum
      <4>9. sum(V) <= Paid[p]
        BY <4>2, <4>3, <4>4, <4>5, <4>6, <4>7, <4>8
      <4> QED
        BY <4>9 DEF sum, SumOf
    <3>3. SumOf(V)' = SumOf(V)
      BY <2>1 DEF SumOf
    <3>4. \A r \in RefundsOf(p) : status'[r] \in {"processing", "success"} => r \in V
      <4> SUFFICES ASSUME NEW r \in RefundsOf(p), status'[r] \in {"processing", "success"}
                   PROVE  r \in V
        OBVIOUS
      <4>1. r \in Refunds
        BY <1>1
      <4>2. CASE r = j
        BY <3>0, <3>1, <4>2
      <4>3. CASE r # j /\ status[r] = "success"
        BY <3>0, <4>1, <4>3 DEF Succeeded
      <4>4. CASE r # j /\ status[r] = "processing"
        BY <1>2, <3>0, <3>1, <4>1, <4>4 DEF Covers, Reserved, Open
      <4> QED
        BY <2>2, <4>1, <4>2, <4>3, <4>4
    <3>5. \A r \in V : status'[r] # "none"
      BY <1>1, <2>1, <2>2, <3>0 DEF Succeeded, ClaimsAreOrdered, ExecutionTyped
    <3>6. ASSUME NEW f \in Executors, step'[f] = "claiming", PaymentOf(job'[f]) = p,
                 status'[job'[f]] \in Open, job'[f] \notin V,
                 NEW r \in V, status'[r] \in Open
          PROVE  r \in seen'[f]
      <4>1. /\ f # e /\ step[f] = "claiming" /\ seen'[f] = seen[f] /\ job'[f] = job[f]
            /\ job[f] \in Refunds /\ r \in Refunds
        BY <1>1, <2>1, <3>6
      <4>2. status[job[f]] \in Open /\ job[f] \notin seen[e] /\ status[r] \in Open
        BY <2>2, <3>0, <3>1, <3>6, <4>1 DEF RefundsOf
      <4>3. r \in seen[e]
        BY <3>0, <3>6, <4>2 DEF Succeeded, Open
      <4> QED
        BY <2>1, <4>1, <4>2, <4>3 DEF ClaimsAreOrdered, Reserved
    <3>7. Covers(V, p)'
      BY <3>2, <3>3, <3>4, <3>5, <3>6 DEF Covers, Reserved
    <3> QED
      BY <3>7
  <2> QED
    BY <2>3, <2>4
<1> QED
  BY <1>1, <1>4, <1>5, <1>6, StepsAndClaims

-----------------------------------------------------------------------------
(* Sources                                                                  *)

(* Apart from the swipe that pays it, an order does not begin, and none     *)
(* goes back to not having begun.                                           *)
LEMMA SourcesStay ==
  ASSUME SettlementInvariant, Ledger, MoneyHasSource, [SettlementNext]_settlementVars
  PROVE  MoneyHasSource'
<1>1. /\ RecordsTyped /\ ExecutionTyped /\ BillingTyped
      /\ \A r \in Parts : status[r] # "none" => PaymentOf(r) \in paid
      /\ \A p \in Charges :
            /\ order[p] = "none" <=> p \notin paid
            /\ task[p] # "none" \/ fee[p] # NoFee \/ p \in billed => p \in paid
      /\ \A b \in Billers : billing[b] # 0 => fee[billing[b]] # NoFee
  BY DEF SettlementInvariant, ControlTyped, MoneyHasSource
<1>2. ASSUME paid \subseteq paid',
             \A r \in Parts : status'[r] # "none" => status[r] # "none" \/ PaymentOf(r) \in paid',
             \A p \in Charges : order'[p] = "none" <=> p \notin paid',
             \A p \in Charges : task'[p] # "none" \/ fee'[p] # NoFee \/ p \in billed' => p \in paid',
             \A b \in Billers : billing'[b] # 0 => fee'[billing'[b]] # NoFee
      PROVE  MoneyHasSource'
  BY <1>1, <1>2 DEF MoneyHasSource
<1>3. ASSUME UNCHANGED <<paid, task, fee, billed, billing>>,
             \A r \in Parts : status'[r] # "none" => status[r] # "none",
             \A p \in Charges : order'[p] = "none" <=> order[p] = "none"
      PROVE  MoneyHasSource'
  BY <1>1, <1>3 DEF MoneyHasSource
<1>4. ASSUME NEW p \in Payments, RechargeConfirmed(p) \/ Swipe(p)
      PROVE  MoneyHasSource'
  <2>1. /\ UNCHANGED <<status, task, fee, billed, billing>>
        /\ paid' = paid \cup {p}
        /\ \/ p \in Recharges /\ UNCHANGED order
           \/ p \in Swipes /\ order' = [order EXCEPT ![p] = "charging"]
    BY <1>4 DEF RechargeConfirmed, Swipe, recordVars, billVars
  <2>2. \A s \in Charges : order'[s] = "none" <=> s \notin paid'
    BY <1>1, <2>1, KindsDiffer DEF RecordsTyped
  <2> QED
    BY <1>1, <1>2, <2>1, <2>2
<1>5. ASSUME NEW q \in WalletRequests, NEW amount \in 1..SumFunctionOnSet(Paid, Recharges),
             ReserveRefund(q, amount)
      PROVE  MoneyHasSource'
  <2>1. amount \in Nat
    <3>1. \A p \in Recharges : Paid[p] \in Int
      BY Rows DEF Payments
    <3>2. SumFunctionOnSet(Paid, Recharges) \in Int
      BY <3>1, Rows, SumInt
    <3> QED
      BY <3>2
  <2>2. /\ UNCHANGED <<paid, order, task, fee, billed, billing>>
        /\ \A r \in Parts : status'[r] # "none" => status[r] # "none" \/ Shares(amount)[r[2]] > 0
    BY <1>5, Kinds DEF ReserveRefund, billVars
  <2>3. \A r \in Parts : PaymentOf(r) = r[2] /\ r[2] \in Recharges
    BY DEF Parts, PaymentOf
  <2>4. \A p \in Recharges : Shares(amount)[p] > 0 => p \in paid
    BY <2>1, SharesFit
  <2> QED
    BY <1>1, <1>2, <2>2, <2>3, <2>4
<1>6. ASSUME NEW p \in Charges,
             \/ ChargeEnds(p) \/ MeterInDoubt(p) \/ ResolveAmount(p)
             \/ \E amount \in 0..Paid[p] : Calculate(p, amount)
      PROVE  MoneyHasSource'
  <2>1. /\ UNCHANGED <<status, paid, billed, billing>> /\ p \in paid
        /\ \A s \in Charges : order'[s] = "none" <=> order[s] = "none"
        /\ \A s \in Charges : s # p => task'[s] = task[s] /\ fee'[s] = fee[s]
        /\ \A s \in Charges : fee[s] # NoFee => fee'[s] # NoFee
    <3>1. CASE ChargeEnds(p)
      BY <1>1, <3>1 DEF ChargeEnds, recordVars, RecordsTyped, BillingTyped
    <3>2. CASE MeterInDoubt(p) \/ ResolveAmount(p)
      BY <1>1, <3>2 DEF MeterInDoubt, ResolveAmount, bookVars, recordVars, BillingTyped
    <3>3. ASSUME NEW amount \in 0..Paid[p], Calculate(p, amount)
          PROVE  /\ UNCHANGED <<status, paid, order, billed, billing>> /\ p \in paid
                 /\ \A s \in Charges : s # p => task'[s] = task[s] /\ fee'[s] = fee[s]
                 /\ \A s \in Charges : fee[s] # NoFee => fee'[s] # NoFee
      BY <1>1, <3>3 DEF Calculate, bookVars, recordVars, BillingTyped, NoFee
    <3> QED
      BY <1>6, <3>1, <3>2, <3>3
  <2>2. \A b \in Billers : billing[b] # 0 => billing[b] \in Charges
    BY <1>1 DEF BillingTyped
  <2> QED
    BY <1>1, <1>2, <2>1, <2>2
<1>7. ASSUME NEW b \in Billers, NEW p \in Charges, BeginBilling(b, p)
      PROVE  MoneyHasSource'
  <2>1. /\ UNCHANGED <<status, paid, order, task, fee, billed>>
        /\ \A c \in Billers : billing'[c] # 0 => fee[billing'[c]] # NoFee
    BY <1>1, <1>7 DEF BeginBilling, bookVars, recordVars, BillingTyped
  <2> QED
    BY <1>1, <1>2, <2>1
<1>8. ASSUME NEW b \in Billers, BillingFails(b)
      PROVE  MoneyHasSource'
  <2>1. /\ UNCHANGED <<status, paid, order, task, fee, billed>>
        /\ \A c \in Billers : billing'[c] # 0 => fee[billing'[c]] # NoFee
    BY <1>1, <1>8 DEF BillingFails, EndBilling, bookVars, recordVars, BillingTyped
  <2> QED
    BY <1>1, <1>2, <2>1
<1>9. ASSUME NEW b \in Billers, Apply(b)
      PROVE  MoneyHasSource'
  <2> DEFINE p == billing[b]
  <2>1. p \in Charges /\ p \in paid
    BY <1>1, <1>9 DEF Apply, BillingTyped
  <2>2. /\ UNCHANGED <<paid, fee>>
        /\ billed' \subseteq billed \cup {p}
        /\ \A s \in Charges : s # p => task'[s] = task[s]
        /\ \A c \in Billers : billing'[c] # 0 => billing'[c] = billing[c]
    BY <1>1, <1>9 DEF Apply, EndBilling, BillingTyped
  <2>3. /\ \A r \in Parts : status'[r] = status[r]
        /\ \A s \in Charges : order'[s] = "none" <=> order[s] = "none"
    <3>1. CASE UNCHANGED <<status, order>>
      BY <3>1
    <3>2. CASE \E amount \in Int : ReturnToWallet(p, amount) \/ ReturnToWechat(p, amount)
      BY <1>1, <2>1, <3>2, Kinds DEF ReturnToWallet, ReturnToWechat, OpenRecord, SetOrder, RecordsTyped
    <3>3. Surplus(p, billSeen[b]) \in Int
      <4>1. billSeen[b] \cap RefundsOf(p) \in SUBSET Refunds
        BY DEF RefundsOf
      <4> QED
        BY <1>1, <2>1, <4>1, SumsAreAmounts, Rows
        DEF Surplus, Left, Ledger, MoneyTyped, BillingTyped, Payments, NoFee
    <3> QED
      BY <1>9, <3>1, <3>2, <3>3 DEF Apply, ReturnSurplus, recordVars
  <2> QED
    BY <1>1, <1>2, <2>1, <2>2, <2>3
<1>10. ASSUME OfficeNext, UNCHANGED billVars
       PROVE  MoneyHasSource'
  <2>1. PICK r \in Refunds : \/ BeginManual(r)
                             \/ \E amount \in 1..Paid[PaymentOf(r)] : ManualCreate(r, amount)
                             \/ DropDraft(r) \/ SignFirst(r) \/ SignSecond(r) \/ Reject(r) \/ FallsDue(r)
    BY <1>10 DEF OfficeNext
  <2>2. UNCHANGED <<paid, order, task, fee, billed, billing>>
    BY <1>10, <2>1 DEF BeginManual, ManualCreate, DropDraft, SignFirst, SignSecond, Reject, FallsDue,
                       bookVars, billVars
  <2>3. \A q \in Parts : status'[q] = status[q]
    BY <1>1, <2>1, Kinds
    DEF BeginManual, ManualCreate, DropDraft, SignFirst, SignSecond, Reject, FallsDue, UnderReview,
        OpenRecord, SetStatus, bookVars, recordVars, RecordsTyped, ExecutionTyped
  <2> QED
    BY <1>3, <2>2, <2>3
<1>11. ASSUME ExecutorNext, UNCHANGED billVars
       PROVE  MoneyHasSource'
  <2>1. PICK e \in Executors :
           \/ \E r \in Refunds : BeginClaim(e, r)
           \/ Claim(e) \/ QueryRefund(e) \/ CreateRefund(e) \/ Answered(e) \/ GivesUp(e)
           \/ ApplyProcessing(e) \/ ApplyClosed(e) \/ ApplySuccess(e)
    BY <1>11 DEF ExecutorNext
  <2>2. UNCHANGED <<paid, task, fee, billed, billing>>
    BY <1>11, <2>1 DEF BeginClaim, Claim, QueryRefund, CreateRefund, Answered, GivesUp,
                       ApplyProcessing, ApplyClosed, ApplySuccess, bookVars, billVars
  <2>3. \A r \in Parts : status'[r] # "none" => status[r] # "none"
    <3>1. \/ UNCHANGED status
          \/ status[job[e]] # "none" /\ \E to : status' = [status EXCEPT ![job[e]] = to]
      BY <2>1 DEF BeginClaim, Claim, Claimable, Open, QueryRefund, CreateRefund, Answered, GivesUp,
                  ApplyProcessing, ApplyClosed, ApplySuccess, SetStatus, Bookable, Book,
                  bookVars, recordVars
    <3> QED
      BY <1>1, <3>1, Kinds DEF RecordsTyped
  <2>4. \A p \in Charges : order'[p] = "none" <=> order[p] = "none"
    <3>1. \/ UNCHANGED order
          \/ \E p, to : to # "none" /\ SetOrder(p, "refunding", to)
      BY <2>1 DEF BeginClaim, Claim, QueryRefund, CreateRefund, Answered, GivesUp,
                  ApplyProcessing, ApplyClosed, ApplySuccess, Book, SettleOrder, bookVars
    <3> QED
      BY <1>1, <3>1 DEF SetOrder, RecordsTyped
  <2> QED
    BY <1>3, <2>2, <2>3, <2>4
<1>12. ASSUME ChannelNext \/ UNCHANGED settlementVars, UNCHANGED billVars
       PROVE  MoneyHasSource'
  BY <1>3, <1>12 DEF ChannelNext, ChannelTakes, ChannelDecides, settlementVars, bookVars, recordVars, billVars
<1> QED
  BY <1>4, <1>5, <1>6, <1>7, <1>8, <1>9, <1>10, <1>11, <1>12
  DEF SettlementNext, WalletNext, BillingNext, ExecutionNext, settlementVars

(* What a settlement saw of the wallet was the wallet, and only calls that  *)
(* are cut short are counted.                                               *)
LEMMA SightStays ==
  ASSUME ExecutionTyped, MoneyTyped, SightTyped, [SettlementNext]_settlementVars
  PROVE  SightTyped'
<1>1. \/ UNCHANGED <<sawWallet, faults>>
      \/ faults < MaxFaults /\ faults' = faults + 1 /\ UNCHANGED sawWallet
      \/ \E e \in Executors : /\ UNCHANGED faults \/ (faults < MaxFaults /\ faults' = faults + 1)
                              /\ \E w \in Nat \X Nat : sawWallet' = [sawWallet EXCEPT ![e] = w]
  <2>0. Nothing \in Nat \X Nat /\ <<balance, frozen>> \in Nat \X Nat
    BY DEF Nothing, MoneyTyped
  <2>1. CASE WalletNext
    BY <2>1 DEF WalletNext, RechargeConfirmed, Swipe, ReserveRefund, executionVars, taskVars
  <2>2. CASE BillingNext
    BY <2>2 DEF BillingNext, ChargeEnds, MeterInDoubt, ResolveAmount, Calculate, BeginBilling, Apply,
                BillingFails, executionVars, taskVars
  <2>3. CASE OfficeNext
    BY <2>3 DEF OfficeNext, BeginManual, ManualCreate, DropDraft, SignFirst, SignSecond, Reject, FallsDue,
                EndDraft, executionVars, taskVars
  <2>4. ASSUME NEW e \in Executors,
               \/ \E r \in Refunds : BeginClaim(e, r)
               \/ Claim(e) \/ QueryRefund(e) \/ CreateRefund(e) \/ Answered(e) \/ GivesUp(e)
               \/ ApplyProcessing(e) \/ ApplyClosed(e) \/ ApplySuccess(e)
        PROVE  \/ UNCHANGED <<sawWallet, faults>>
               \/ /\ UNCHANGED faults \/ (faults < MaxFaults /\ faults' = faults + 1)
                  /\ \E w \in Nat \X Nat : sawWallet' = [sawWallet EXCEPT ![e] = w]
    BY <2>0, <2>4 DEF BeginClaim, Claim, QueryRefund, CreateRefund, Answered, GivesUp,
                      ApplyProcessing, ApplyClosed, ApplySuccess, TakeAnswer, Leave
  <2>5. CASE ChannelNext \/ UNCHANGED settlementVars
    BY <2>5 DEF ChannelNext, ChannelTakes, ChannelDecides, settlementVars, executionVars, taskVars
  <2> QED
    BY <2>1, <2>2, <2>3, <2>4, <2>5 DEF SettlementNext, ExecutionNext, ExecutorNext
<1> QED
  BY <1>1, MaxFaultsAssumption DEF SightTyped

-----------------------------------------------------------------------------
(* The money                                                                *)

(* Before the first recharge nothing is in the wallet and nothing was       *)
(* refunded.                                                                *)
LEMMA MoneyStart == SettlementInit => MoneyInvariant
<1> SUFFICES ASSUME SettlementInit PROVE MoneyInvariant
  OBVIOUS
<1> USE DEF SettlementInit, BooksInit, ExecutionInit
<1>1. SettlementInvariant
  BY BooksStart
<1>2. /\ Reserved = {} /\ Succeeded = {}
      /\ \A p \in Payments : /\ Reserved \cap RefundsOf(p) = {}
                             /\ Succeeded \cap RefundsOf(p) = {}
      /\ Parts \cap Reserved = {}
      /\ Recharges \cap paid = {} /\ Swipes \cap paid = {}
  BY KindsDiffer DEF Reserved, Succeeded, Open, Charges
<1>3. \A S : S = {} => SumOf(S) = 0 /\ SumFunctionOnSet(Kept, S) = 0
  BY SumEmpty DEF SumOf
<1>4. \A p \in Payments : Paid[p] \in Nat
  BY PaidAssumption
<1>5. MoneyTyped
  BY <1>4 DEF MoneyTyped
<1>6. SightTyped
  BY MaxFaultsAssumption DEF SightTyped, Nothing
<1>7. AccountsAgree
  BY <1>2, <1>3 DEF AccountsAgree, WalletBalances
<1>8. RechargesCover
  BY <1>2, <1>3, <1>4 DEF RechargesCover, Left, Payments
<1>9. MoneyHasSource
  BY KindsDiffer, Kinds DEF MoneyHasSource, NoFee, Charges
<1>10. ClaimsAreOrdered
  BY DEF ClaimsAreOrdered
<1>11. ClaimsFit
  <2> SUFFICES ASSUME NEW p \in Payments
               PROVE  \E W \in SUBSET RefundsOf(p) : Covers(W, p)
    BY DEF ClaimsFit
  <2> WITNESS {} \in SUBSET RefundsOf(p)
  <2> QED
    BY <1>3, <1>4 DEF Covers, RefundsOf
<1> QED
  BY <1>1, <1>5, <1>6, <1>7, <1>8, <1>9, <1>10, <1>11 DEF MoneyInvariant

(* What every step does to the ledger, put together.                        *)
LEMMA LedgerStays ==
  ASSUME SettlementInvariant, MoneyHasSource, SightTyped, Ledger, RecordsTyped',
         [SettlementNext]_settlementVars
  PROVE  Ledger'
<1>1. CASE WalletNext
  <2>1. ASSUME NEW q \in WalletRequests, NEW amount \in 1..SumFunctionOnSet(Paid, Recharges),
               ReserveRefund(q, amount)
        PROVE  Ledger'
    <3>1. \A p \in Recharges : Paid[p] \in Int
      BY Rows DEF Payments
    <3>2. SumFunctionOnSet(Paid, Recharges) \in Int
      BY <3>1, Rows, SumInt
    <3>3. amount \in Nat
      BY <3>2
    <3> QED
      BY <2>1, <3>3, ReserveLedger
  <2> QED
    BY <1>1, <2>1, PurseLedger DEF WalletNext
<1>2. CASE BillingNext
  <2>1. ASSUME \/ \E p \in Charges : \/ ChargeEnds(p) \/ MeterInDoubt(p) \/ ResolveAmount(p)
                                     \/ \E amount \in 0..Paid[p] : Calculate(p, amount)
               \/ \E b \in Billers : BillingFails(b) \/ \E p \in Charges : BeginBilling(b, p)
        PROVE  UNCHANGED <<status, cents, refunded, paid, balance, frozen, entry>>
    BY <2>1 DEF ChargeEnds, MeterInDoubt, ResolveAmount, Calculate, BillingFails, BeginBilling,
                bookVars, recordVars, walletVars
  <2> QED
    BY <1>2, <2>1, QuietLedger, ApplyFeeLedger DEF BillingNext
<1>3. CASE OfficeNext
  BY <1>3, OfficeLedger DEF OfficeNext
<1>4. CASE ExecutorNext
  BY <1>4, ExecutorLedger DEF ExecutorNext
<1>5. CASE ChannelNext \/ UNCHANGED settlementVars
  BY <1>5, QuietLedger DEF ChannelNext, ChannelTakes, ChannelDecides, settlementVars, bookVars, recordVars,
                           walletVars
<1> QED
  BY <1>1, <1>2, <1>3, <1>4, <1>5 DEF SettlementNext, ExecutionNext

(* Every step keeps the books, the accounts and the order of claims.        *)
THEOREM MoneyInvariance == SettlementSpec => []MoneyInvariant
<1>1. SettlementInvariant /\ [SettlementNext]_settlementVars => SettlementInvariant'
  BY SettlementStep
<1>2. MoneyInvariant /\ [SettlementNext]_settlementVars => MoneyInvariant'
  <2> SUFFICES ASSUME MoneyInvariant, [SettlementNext]_settlementVars
               PROVE  MoneyInvariant'
    OBVIOUS
  <2>1. SettlementInvariant' /\ RecordsTyped'
    BY <1>1 DEF MoneyInvariant, SettlementInvariant, ControlTyped
  <2>2. Ledger
    BY DEF MoneyInvariant, SettlementInvariant, ControlTyped, Ledger
  <2>3. Ledger'
    BY <2>1, <2>2, LedgerStays DEF MoneyInvariant
  <2>4. MoneyHasSource'
    BY <2>2, SourcesStay DEF MoneyInvariant
  <2>5. SightTyped'
    BY SightStays DEF MoneyInvariant, SettlementInvariant, ControlTyped
  <2>6. ClaimsAreOrdered'
    BY ClaimsStayOrdered DEF MoneyInvariant, MoneyTyped
  <2>7. ClaimsFit'
    <3>1. \A p \in Swipes : \E W \in SUBSET RefundsOf(p) : Covers(W, p)'
      <4>1. (SettlementInvariant /\ MoneyTyped /\ AccountsAgree)'
               => (\A p \in Swipes : \E W \in SUBSET RefundsOf(p) : Covers(W, p))'
        BY SwipesFit, PTL
      <4> QED
        BY <2>1, <2>3, <4>1 DEF Ledger
    <3>2. \A p \in Payments \ Swipes : \E W \in SUBSET RefundsOf(p) : Covers(W, p)'
      BY ClaimsStayFit DEF MoneyInvariant
    <3>3. \A p \in Payments : \E W \in SUBSET RefundsOf(p) : Covers(W, p)'
      BY <3>1, <3>2
    <3> QED
      BY <3>3 DEF ClaimsFit
  <2> QED
    BY <2>1, <2>3, <2>4, <2>5, <2>6, <2>7 DEF MoneyInvariant, Ledger
<1> QED
  BY <1>2, MoneyStart, PTL DEF SettlementSpec

(* What was refunded, frozen and left in the wallet is what the rows say    *)
(* (wallet_refund.go, reservation.go, ledger.go, billing.go).               *)
THEOREM AccountsKeepAgreeing == SettlementSpec => []AccountsAgree
<1>1. MoneyInvariant => AccountsAgree
  BY DEF MoneyInvariant
<1> QED
  BY <1>1, MoneyInvariance, PTL

(* Every record, task and amount is of its type, and no column that is      *)
(* unsigned gets below zero.                                                *)
THEOREM SettlementTypeSafety == SettlementSpec => []SettlementTypeOK
<1>1. MoneyInvariant => SettlementTypeOK
  BY DEF MoneyInvariant, SettlementInvariant, SettlementTypeOK
<1> QED
  BY <1>1, MoneyInvariance, PTL

(* WeChat is never asked for more than was paid, whatever claims overlap    *)
(* and whatever requests arrive late (executor.go, claim).                  *)
THEOREM NeverPaidOutTwice == SettlementSpec => []PaidOutWithinPayment
<1>1. MoneyInvariant => PaidOutWithinPayment
  <2> SUFFICES ASSUME MoneyInvariant, NEW p \in Payments
               PROVE  SumOf(AtChannel \cap RefundsOf(p)) <= Paid[p]
    BY DEF PaidOutWithinPayment
  <2>1. PICK W \in SUBSET RefundsOf(p) : Covers(W, p)
    BY DEF MoneyInvariant, ClaimsFit
  <2>2. AtChannel \cap RefundsOf(p) \in SUBSET W
    <3> SUFFICES ASSUME NEW r \in AtChannel, r \in RefundsOf(p)
                 PROVE  r \in W
      OBVIOUS
    <3>1. /\ r \in Refunds
          /\ channel[r] \in {"processing", "success"} \/ (channel[r] = "none" /\ r \in posted)
      BY DEF AtChannel
    <3>2. CASE r \in Channelled
      BY <2>1, <3>1, <3>2
      DEF Covers, MoneyInvariant, SettlementInvariant, ControlTyped, BooksFollowChannel, RecordsTyped, Open,
          Verdicts
    <3>3. CASE r \notin Channelled
      BY <3>1, <3>3 DEF MoneyInvariant, SettlementInvariant, RefundsAreCoherent
    <3> QED
      BY <3>2, <3>3
  <2>3. W \in SUBSET Refunds /\ cents \in [Refunds -> Nat]
    BY DEF RefundsOf, MoneyInvariant, MoneyTyped
  <2>4. /\ SumOf(AtChannel \cap RefundsOf(p)) \in Nat /\ SumOf(W) \in Nat
        /\ SumOf(AtChannel \cap RefundsOf(p)) <= SumOf(W)
    BY <2>2, <2>3, SumsAreAmounts
  <2> QED
    BY <2>1, <2>4, Rows DEF Covers
<1> QED
  BY <1>1, MoneyInvariance, PTL
=============================================================================
