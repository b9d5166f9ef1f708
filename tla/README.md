# Charge-Pilot, modelled, checked and proved

Charge-Pilot sells electric-vehicle charging by the port. A customer scans a
code or swipes a card, pays, and a board switches a port on; when the charge
ends the board reports it, the platform settles the order and refunds what was
not used. Three processes and a device take part, each with its own database or
file, joined by HTTP and one TCP connection. This directory holds TLA+ models of
that path, of the money and the words around it (prices, automatic stops,
withdrawals, invoices, coupons, webhooks, alerts, exports), the TLC
configurations that check them and TLAPS proofs of the most important results.

## 1. Inventory

| Part (under `src/`) | State it keeps | Operations |
|---|---|---|
| **central: orders** `internal/central/order` | `charge_order.status`, `charge_start_receipt`, `charge_end_receipt`, `active_port_charge` | authorise a start or a stop; save a start result; save an end result |
| **central: checkout and payment** `internal/central/payment` | `charge_payment_intent` (five-minute reservation of a port), `payment_order`, `payment_callback_digest` | reserve, prepay, WeChat callback, late refund, wallet recharge |
| **central: cards** `internal/central/card` | `card_charge` (one session per port), `card_operation`, wallet | swipe to start, swipe to extend, administration |
| **central: refunds and wallet** `internal/central/refund`, `wallet` | `refund_record` with a lease, wallet ledger | claim, query or create at the channel, apply |
| **central: billing and settlement** `internal/central/billing`, `settlement` | `charge_billing_job`, fee receipts | fee of a finished charge, refund of the rest |
| **central: automatic stop** `internal/central/charge/auto_stop.go`, `card/deadline.go`, `charge/user_stop.go` | `charge_billing_cutoff` | sweep over the charges, deadline of a card session, a customer's stop |
| **central: pricing** `internal/central/pricing` | none; rules are stored as published | validate, price a meter, settle a session, bound the fee, preview |
| **central: split, settlement, withdrawal** `internal/central/billing`, `settlement`, `admin/split_templates.go` | `split_template` and its parties, `settlement_party_amount`, `withdraw_request` | bind, replace parties, split a fee, ask, decide, pay |
| **central: invoices, coupons, wallet freeze, reconciliation, cases, exports** `internal/central/settlement`, `coupon`, `admin`, `charge` | a table or two each | transactions of several people on one row |
| **central and gateway: imports of devices** `internal/central/admin/device_imports.go`, `internal/gateway/provision` | `device_import`, `device_import_identity`, `device_meta`; at the gateway `device_provision` | send a list, run it, run it again; provision a list as a whole |
| **central: alerts** `internal/central/admin/alerts_sync.go` | `alert_event` | raise, acknowledge, resolve |
| **central: events** `internal/central/eventoutbox` | `event_outbox` | record with the change it tells of |
| **central: identity, lists, views** | accounts | request-local transactions and queries |
| **gateway: store** `internal/gateway/store` | `charge_command` (pending, sent, acked, stopping, rejected), `charge_stop_command`, `device_port` (status, current order), `device_event` | reserve a start, mark it sent or stopping, record every frame, compensate |
| **gateway: control** `internal/gateway/control` | none | START, STOP, compensation and user-stop timers; start results and end events for the worker; release of ports |
| **gateway: connection** `internal/protocol` | one session per board in the registry | write a frame, read and record frames, replace a session |
| **board** (the DC589 simulator is the only implementation in the tree) `internal/gateway/simulator/dc589` | running charge per port, end reports not yet acknowledged (state file) | START, STOP, heartbeat, end of a charge, acknowledgement |
| **worker** `internal/worker`, `cmd/worker` | nothing durable | once a second, in turn: dispatch paid orders, post start results, post ends, release ports, bill, stop, refund |
| **worker: outbox, scheduler, cards; delivery** `internal/worker/outbox`, `schedule`, `charge/cards.go`, `internal/delivery` | `scheduled_task` and its lease, entries of a stream, leased reports, `card_event_delivery` | publish, push, save results, acknowledge; decide a swipe and tell the board |

How they interact: the worker polls central for paid orders and posts them to
the gateway; the gateway asks central again for authority, reserves the port,
and writes START to the board; the board's frames are recorded by the reader of
the connection; the worker reads the recorded results, posts them to central and
tells the gateway what central has saved. Nothing spans two databases, so every
arrow of this chain is a call that can be lost before or after it took effect,
and is repeated.

What is hard, by kind: the reader of the connection runs beside the handler that
wrote the frame; commits precede writes (`MarkStartSent` before `Send`); a write
error says nothing about what was received; STOP names a port and not an order;
end reports are repeated until acknowledged; batches post rows read earlier; the
worker may stop between two calls; two tables guard one port. Every such place
is listed with its line under `hazards` in `PROJECT.json`, with the properties
aimed at it, or the reason there is none yet.

What makes each part correct: a port serves one order at a time (store, board);
money goes back only for a charge that did not run, and exactly once (orders,
checkout, refunds); an end is settled once and its port is then free (orders,
worker, store); captured money is never without an order or a refund (checkout);
what must happen eventually happens although calls are lost (timers, worker);
a customer is charged for every minute once, to the rounding of the code, and stopped for want of money
only when it is certainly gone (pricing, automatic stop); a decision that two
people or two rounds take part in is taken once (cards, invoices, withdrawals,
reports); nothing is thrown away before it has arrived (webhooks); a device that can
be sold on is the one the gateway knows under the same words (imports).

## 2. Modules

```
ChargeBase            orders, ports, which port an order is paid for
  CentralOrder        central's tables and the two receipt handlers
  DeviceDC589         the board: running charge, pending end reports
  GatewayCommand      the gateway's tables and every update of them
    ChargeLifecycle   the composition: handlers, connection, worker batches, faults
      ChargeLiveness  fairness and liveness
      ChargeInvariant its inductive invariant
  ChargeContract      the promise, without messages; ChargeLifecycle implements it
  PortCheckout        how orders come to be paid for: scans, swipes, callbacks
RefundBooks           payments, refund records, the wallet
  RefundExecution     refunds: asked for, reviewed, claimed, sent, applied
    Settlement        where they come from: fees, wallet refunds; what must hold
Tariff                prices: periods, tiers, free time, bounds; pure operators
  Scheme              what may be published and bought, how a purchase settles
    MeteredCharge     one charge from its first tick to its bill
AutoStop              the sweep, the cutoffs, and what billing reads of them
CardDispatch          a card at a board, from the swipe to the board's answer
EventDelivery         outbox, stream, scheduled task, webhooks
RegulatoryReport      leased batches of reports
DeviceAlert           faults, heartbeats, alerts
Payout                split templates, settlements, withdrawals
DeviceImport          lists of devices, from the back office to the gateway
Invoice  CouponGrant  WalletRisk  Reconcile  Casework  ExportTask
```

The proofs are in modules of their own: `ChargeProofs` (with `ChargeInvariant`, which
states what it proves), `CheckoutProofs`, `SettlementProofs`, `AutoStopProofs`,
`MeterProofs`, `FinanceProofs`, `BackofficeProofs`, and `SumTheorems`, the lemmas about
sums over finite sets that four of them use.

**CentralOrder, DeviceDC589, GatewayCommand** define one operator per
transaction or handler body. They leave unchanged only their own variables, so
that the composing module joins them: an HTTP handler and the row update it
makes are one action there.

| Model | Code |
|---|---|
| `order`, `startReceipt`, `endReceipt`, `activePort` | `charge_order.status`, the two receipt tables, `active_port_charge` |
| `cmd`, `result` | `charge_command.status` and its result (accepted, refused; 254 is a compensated start) |
| `holder`, `portStatus` | `device_port.current_order_id` and `status` |
| `userStop` | `charge_stop_command.status` |
| `events`, `processed`, `reported` | charge-end rows of `device_event`, and the two marks the worker sets |
| `running`, `completed`, `pending` | the board's charges and its unacknowledged reports |
| `conn`, `down`, `up` | the registry's session and the frames in each direction |
| `handler` | how far `StartService.Start` has come for an order |
| `startBatch`, `endBatch`, `endItem`, ... | the local variables of the worker's two synchronisers |

An action is a whole handler between two points where another process can see or
change something. `StartService.Start` is three: `DispatchSend` (commit of
`sent`), `WriteStart` (the write), `SendReturns` or `SendFails` (what it does
with the error), because the reader records the board's answer meanwhile, and
because the handler outlives the worker's HTTP call. `EndSynchronizer.SyncBatch`
is `EndFetch`, `EndPost`, `EndRelease`, `EndMark` with a lost reply or an abort
between any two. A frame carries the order although the wire names a port and a
session: `StartAck` and `StopAck` are matched by session id in the code, and the
end report by the order number the board was given.

Faults are actions: `Disconnect` (frames in flight are lost), `GatewayCrash`
(handlers and connection), `WorkerAbort` (batches), and lost requests and
replies, refusals of STOP and START, and failed writes as alternatives of the
actions they belong to. `MaxFaults` bounds them together; the board may refuse a
START at any time, which is not a fault.

**PortCheckout** extends `CentralOrder` backwards in time. A scanned checkout is
`Sweep` (expire what is overdue, a statement of its own), `Check` (is the port
free, on committed rows) and `Reserve` (insert under `uk_active_port`); a swipe
is `Check` in its snapshot and `Swipe` (insert under `card_charge.active_port`).
A callback decides in `Notify` and commits in `SettleOrder` or
`QueueLateRefund`; between the two it holds the rows of its payment and intent,
so that `Sweep` and `Reserve` wait, and `Lapse` shows the clock passing
`expires_at` in between. `Started`, `NotStarted`, `Ended`, `Refunded` carry the
order on to its end as the lifecycle does.

**RefundBooks, RefundExecution, Settlement** begin where the lifecycle ends, at a
finished charge, and follow the money. A refund is named as the code numbers it:
the request and the payment it goes back to.

| Model | Code |
|---|---|
| `status`, `policy`, `cents`, `due`, `receipts` | `refund_record` (status, execution policy, amount, `next_attempt_at`), `refund_success_receipt` |
| `refunded`, `paid` | `payment_order.refunded_cents`, and whether it was confirmed |
| `balance`, `frozen`, `entry` | `wallet_account`, and `balance_after_cents` of the latest `wallet_txn` |
| `task`, `fee`, `billed` | `charge_billing_job`, `fee_receipt`, `charge_fee_receipt` |
| `step`, `job`, `seen`, `sawWallet`, `answer` | a run of `RefundExecutor.Execute` and what its transactions have read |
| `drafts`, `glimpse`; `billing`, `billSeen` | a `ManualCreate`, a `BillingOrders.Apply` under way, and the reserved refunds it saw |
| `posted`, `channel` | create calls under way, and WeChat's refund per `refund_no` |

The unit of interleaving is the transaction, with one refinement that matters.
These transactions run at the database's default isolation, where the first plain
read fixes what every later plain read sees and `FOR UPDATE` reads the present. A
transaction that reads before it takes its first lock is therefore two actions:
`BeginManual` and `ManualCreate`, `BeginClaim` and `Claim`, `BeginBilling` and
`Apply`, the answer of WeChat and the `Apply...` that uses it. The first records
what was seen, the second tests and writes the present with it. `Execute` has a
point of interruption before and after each call to WeChat, and executors
overlap, because a dispatch that timed out at the worker goes on at central.

**ChargeContract** is what a customer and an operator may rely on: an order is
unpaid, paid, energised, ended, settled or refunded; a port is claimed by one
order; it draws current only for the order that claims it; it is released only
while its holder draws none; only an order that was never energised is refunded.
`ChargeLifecycle` implements it with `phase` computed from what the board has
done and `claim` from `device_port`.

**Tariff, Scheme, MeteredCharge.** The sizes of a minute, an hour, a day and a kWh
are constants, so that a charge meets a change of rate, midnight and the end of its
free time within five ticks. `Slices` cuts the samples at the boundaries as
`costUsage` does, and `PieceCost` divides each piece by itself, twice, as it does: a
quotient keeps so many digits (16 in the code; `Precision` is that power of ten) and is
rounded by `Rounded`, as is the sum in the end. `ClockFee` looks at every tick by itself
and computes exactly. `EveryMinuteCharged` says that the two differ by half a cent, which
is the rounding of the fee, and by what the last digit of two quotients for each slice
comes to (`RoundingError`); a minute that is lost or doubled is far more than that.
`RoundedOnce`, that the fee is the clock's fee rounded once, does not hold and is
finding 25. A meter's samples and a charge's heartbeats are
sets, as nothing depends on the order they are stored in. `MeteredCharge` draws energy tick by tick,
records some heartbeats and not others, lets `AutoStop` judge the charge by what was
recorded, ends it later, prices the meter or sends it to a reviewer.
`BudgetStopCertain` ranges over all that may have happened in the gaps
(`Completions`): under a rule by power, any power in each stretch that has none; under a
rule by energy, the true energy of every tick, whenever it was drawn. Two properties
assume `Rising`: under a peak tariff whose tiers do not rise, a reading that arrives
late can make the minutes before it cheaper, and a bill may then fall below a fee shown
earlier. That is what the tariff says, not a defect of the code, and nothing else
assumes it.

**AutoStop.** `BeginSweep`, `ReadEvidence`, then per order `FreezeDeadline`, `Freeze`
or `Pass`, then the request to stop, which may fail and break the sweep off. Beside
it a swipe may extend a session (`Extend`), a customer may press stop in two
statements (`UserAsks`, `UserFreezes`), a board may go away or end the charge, and
billing reads a cutoff in one step and prices by it in another.

**CardDispatch.** A round of the worker takes an event, asks central, freezes the
first decision (`DecideFinish`), tells the board and ticks the event off. A call may
take effect and its answer be lost, and one whose caller gave up still runs to its
end (`calls`); two rounds may be about one event (`overlap`).

| Model | Code |
|---|---|
| `row`, `due`, `reply` | `card_event_delivery.status`, `next_attempt_at`, `response_json` |
| `op`, `session`, `balance` | `card_operation`, `card_charge` of the port, `wallet_account` |
| `worker`, `calls` | a round of `CardDispatcher`, requests at `/cards/swipe` |
| `cutoff`, `sweep`, `receipt` (AutoStop) | `charge_billing_cutoff`, `AutoStopper.Run`, `fee_receipt.source_json` |
| `drawn`, `beats`, `evidence` (MeteredCharge) | the board's meter, heartbeats of `device_event`, `charge_meter_review` |

**EventDelivery, RegulatoryReport.** A publisher's transaction pushes its rows and
then commits. A pass of the scheduled task fetches the subscriptions and goes through the
streams one by one: it reads a window of each (`Page`), skips what it cannot read
(`Parsed`) and posts the rest entry by entry. Then it has the results saved in pieces and
deletes what all have taken, and the task is finished, unless the worker crashed; its
lease runs out. An entry whose envelope names no `event_type` is neither posted nor
deleted, and it stays in the window of its stream. `Readable` says which events name one,
and that a stream has entries of one kind only: those of the gateway's devices and the
manual retries do, those of central's own transactions do not (finding 26). Reports to
the regulator are leased in batches that may outlast the lease.

**Payout, Invoice, CouponGrant, WalletRisk, Reconcile, Casework, ExportTask** take an
operation apart wherever a call of somebody else may come between: at a read that
takes no lock, between a check of a right and the lock of the row, between a file and
its row. Operations that hold their row from the first read are one action. So are a
review and a release of `WalletRisk`, although they lock and read their request before
they lock the wallet: what may commit in between changes nothing that they decide by, or
makes an approval fail (the header of the module says why). An administrator may rewrite everything of a coupon rule but its trigger,
its coupon too (`UpdateRule`); a transaction counts the grants of the coupon it had
listed the rule with.

**DeviceImport.** `createImport` pins the parameters of each device and keeps the list
(`Create`); `runImport` is four steps, because the list goes to another database and
back while the job's row is locked: `Call`, `Provision` at the gateway, then
`CompleteRun`, `ConflictRun` or `FailRun`. A run that stops waiting (`GiveUp`) or dies
(`CrashRun`) leaves its call on the way, and `ProvisionLate` lets it arrive after the
operator has run the job again. A simulator provisions its own board
(`ProvisionDirect`), and vendors, stations and devices are switched on and off beside.

| Model | Code |
|---|---|
| `identity`, `job`, `meta` | `device_import_identity`, `device_import`, `device_meta` of central |
| `provision` | `device_provision` and `device` of the gateway, which are written together |
| `run`, `late` | how far the run that holds a job's row has come; calls it no longer waits for |

**Side by side.** `MCBackoffice`, `MCOutreach` and `MCPortCheckout` instantiate parts
that share no state. A behaviour follows one part (`side`) and leaves the others in
their initial states: interleaving them would multiply the states and show nothing.
Fairness is stated for the side it belongs to.

### Abstractions

- Time passes in few units: `AutoStop` counts minutes, `WalletRisk` the minutes of its
  window, `MeteredCharge` ticks. Elsewhere a deadline is a set of what has lapsed.
- In `DeviceImport` every vendor is of the one adapter that exists, the number of ports
  stands for all else a list says of a device, and who may act on which station is out.
- A webhook's or a regulator's answer is taken or failed; signatures and bodies are out.
- In `Payout` nothing in the tree marks a settlement as paid, the only status whose
  amounts may be drawn; `PayOutSettlement` stands for whoever does.
- In `WalletRisk` all amounts are one unit, in `CardDispatch` one pack of minutes.
- In the lifecycle payloads are the order they belong to; meters, amounts and clocks
  are in the modules above. `expires_at` of an intent is the set `lapsed`.
- Row limits (100 and 50), the 10-second retry delays and the enable flags of the
  worker's jobs are left out of the lifecycle: any eligible row may be taken at any
  time. The pages of the sweep are in `AutoStop`.
- `device_event` is a set keyed by order: `eventKey` stores a report once.
- The `pending` branch of `CompensateStart` is not reachable from its two callers
  and is not an action. STOP is accepted with result 0x10 and 0x01 alike.
- A board restart is not modelled, so a report is never lost from the state file.
- In `ChargeLifecycle` an order stays `completed` after its end; what billing does
  to it (`billing.go:253`, `billing.go:261`) is in `Settlement`.
- In `ChargeLifecycle` payment is one step, `Pay`; `CheckoutRace = TRUE` lets it
  pay an order for an occupied port. `PortCheckout` shows that the code does so.
- In `PortCheckout` the availability read from the gateway is left out (it may be
  stale, and a refused request is one that is not made), as are prepay parameters and
  repeated client requests. The extension of a card session is in `CardDispatch` and
  `AutoStop`.
- In `Settlement` a fee is any amount up to the payment, which `SettlesWithinPaid` of
  `MeteredCharge` justifies; a reviewer's amount and a corrected meter are one
  action, `ResolveAmount`. A signature is counted, not named. One customer, whose
  wallet is not frozen (`WalletRisk` is about that); refunds of refused starts and of
  late payments are in `PortCheckout`.

## 3. What TLC checks

| Run | Instance | Distinct states | Question and answer |
|---|---|---|---|
| LifecycleSafety | 2 orders, 1 port, 1 fault, `LinkBound` 2, every optional fault on, symmetry | 263 k | Six safety invariants hold; every step is a step of `ChargeContract` or invisible to it |
| LifecycleLiveness | 1 order, 2 faults, `FairSpec` | 17.6 k | A confirmed charge is settled, a start in doubt frees its port, a refused start is refunded |
| CheckoutMoney | 2 scans, 2 cards, 1 port, 1 failed callback, fair; or 1 swipe and 1 query, 2 rounds, 1 failed call | 496 k | Money taken becomes one order or one refund, and eventually does; card sessions match their orders; a board hears one answer, and what it hears is what was paid for |
| RefundMoney | payment of 2 cents, fee refund and 1 manual refund, 2 executors, 2 billing runs, 2 faults, symmetry | 1.38 M | WeChat is never asked for more than was paid, the books follow WeChat, nothing is booked twice |
| WalletLedger | recharges of 1 and 2 cents, a swipe of 1, 1 wallet refund, 1 fault, fair | 104 k | Balance, frozen money and refunds agree in every state; every part of a wallet refund concludes |
| MeteredFee | 5 schemes (all modes, a peak tariff with tiers that do not rise), quotients of 2 digits, charges of up to 5 ticks, 2 heartbeats of 2 powers | 190 k | A stop for the budget is certain; every minute is charged once, to the rounding of the code; the bill lies between what was shown and what was paid; the preview agrees with the bill |
| AutoStopSweep | a card session of up to 2 packs and an order by amount, pages of 1, 3 instants, fair | 184 k | No paid swipe is cut off, no order is priced before the sweep has done with it, every overdue charge that was not abandoned is stopped |
| Outreach | 2 events of 2 streams, of which one cannot be read, 2 webhooks, 2 faults, fair; or 2 reports, 2 workers, 4 claims | 334 k | Nothing leaves a stream before its subscribers took it; every event that names its type arrives; what is delivered stays delivered |
| Backoffice | eight parts, each with 2 or 3 people and 1 to 4 requests | 557 k | Splits stand, approved withdrawals are earned, invoices are signed by two, grants keep their limits, refunds are watched, differences are true, cases are kept, expired files are gone, registered devices are provisioned and stay as they were set |
| PortPaidTwice | 1 scan, 1 card | violated | Two paid orders on one port |
| PaidWithinEarned | as Backoffice | violated | A party is paid more than it has earned |
| AlertNotResolved | 3 events | violated | An alert stays open after its fault is over |

Bounds. One port is the interesting instance: ports share no row, no frame and no
batch state except the order in which a batch visits them, and every hazard above
is about two orders that meet on one port. Two orders are needed for reuse of a
port, for the checkout race and for a late frame of the first order to meet the
second. What LifecycleSafety checks with one fault is proved for any number (the
inductive invariant of the proof, `InductiveInvariant`, can be named in its cfg: the
module it instantiates extends it);
LifecycleLiveness, which no proof covers, has two, which reach every pair "lost, then
crashed while repairing it". `LinkBound` stops timers only: a heartbeat or a retry adds
a frame while fewer than `LinkBound` are unread, and what a handler writes is never
limited. With two, a repeated STOP or report overtakes nothing but meets the frames of
the next order. Orders paid from the wallet are refunded at once when their start is
refused; they are in CheckoutMoney and, for any `BalanceOrders`, in the proofs, not in
LifecycleSafety.

Four checkouts give each kind a competitor of its own kind and of the other. Money is
small on purpose: a payment of two cents can be refunded whole, in two parts, or too
much, and a wallet refund of two or three cents must be split over both recharges. Two
executors and two billing runs give each transaction one competitor of its kind; the
properties of refunds relate one payment to its refunds, or one wallet to its parts.

In MeteredFee a day and an hour have three minutes of two ticks, a kWh two watt-hours and a
quotient two digits: a charge of five ticks from the middle of the day crosses a change of
rate and midnight, ends within a minute or on its boundary, and reaches the limit; with
two heartbeats there are gaps before, between and after readings. Of the two powers one is
no power and the other asks for the highest tier. Thirds of an hour, and so of a cent, are
what neither two digits nor sixteen can keep, and the prices lie on both sides of the
half: the instance meets the sums that the code rounds the other way. In AutoStopSweep pages
of one make every order the last of its page. In Outreach the readable event may be
pushed twice, two webhooks want it, and with a chunk of one its results have a saved and
an unsaved half; the event that cannot be read comes in the stream that is scanned first
and fills its window of one for good. Two faults are a crash and the loss
that follows it. Every part of Backoffice has the smallest set of calls in which two
operations of each kind that may conflict are under way at once: two withdrawals of
one party, three reviewers of whom one loses the right, two recharges beside a
settlement and a grant by hand under a rule that may get another coupon, four refunds about a window that allows two, two jobs
whose lists disagree about a device beside a board that provisions itself.

`CHECK_DEADLOCK FALSE` is set because a finite number of orders, requests and events
comes to an end. Every property of a passing run has a mutant in `PROJECT.json`: a
plausible defect of one handler which makes TLC report that property.

### Fairness

- A goroutine that runs goes on (weak fairness of each step of a handler, of the
  reader and of a batch).
- The worker calls its batches in turn once a second (`cmd/worker/main.go:196-229`),
  and the gateway its timers every five seconds (`cmd/gateway/main.go:94-112`).
  They are strongly fair, since one batch disables the others while it runs and
  none is skipped for ever.
- The board reads its frames, reconnects, sends heartbeats, and no charge lasts
  for ever.
- A refund that is due is taken up by `Batch` some time (strong fairness of
  `BeginClaim`). The code takes the twenty that have been due longest, and one whose
  claim conflicts for good keeps its place; with fewer than twenty of those, as in
  the instance, no other is shut out. With more they would be (see `hazards`).
- A lease runs out, an executor goes on, WeChat reaches a verdict.
- WeChat repeats a notification until it is answered, and a callback that has its
  rows finishes.
- The worker begins a sweep again and again (strong fairness, because billing shuts it
  out while it has a task), a sweep that was begun goes on, a board that is stopped and
  connected ends its charge. `OverdueIsStopped` is stated for orders that are not
  abandoned; that one is abandoned for good is a finding.
- A task that is due is run some time, a lease runs out, a publisher commits.
  `RecordedIsTaken` is stated while the task is enabled, as five failures pause it, and
  for events that name their type; for the others it is finding 26.
- Faults, payments and user requests are not fair; faults are bounded, so from
  some point on calls succeed. With unbounded losses nothing could be promised.

`LifecycleLiveness` sets `LateSendError = FALSE`: with a write error after START
was received, a confirmed command may be compensated rather than settled, and the
first property is not what the code aims at (see finding 4).

## 4. What is proved

TLAPS checks these for every value of the constants: every set of orders, ports,
payments, requests, executors, rounds, parties, devices, subscriptions and reports, every
tariff, and any number of faults. The assumptions are the named `ASSUME`s of the modules
(`NoOrder` is no order, `PortOf` maps orders to ports, payments are positive, bounds are
naturals, what is counted is finite); three theorems have a hypothesis of their own,
given below. Every invariant and every action property of a passing run is proved; what
needs fairness is only model-checked (see there).

| Module | Results, and the properties of runs they state |
|---|---|
| `ChargeProofs` | `Invariance` of `InductiveInvariant`; from it `ExclusionHolds` (`PhysicalExclusion`), `RefundsAreJust` (`RefundedNeverEnergised`), `ReceiptsHold` (`ReceiptsAreTrue`), `ProcessedSettled` (`ProcessedIsSettled`), `PortsOwned` (`PortOwnership`); `TypeCorrect`; `ActivePortCorrect` (`ActivePortMatchesOrder`); `LifecycleImplementsContract` (`ImplementsContract`); `ContractExcludes` |
| `CheckoutProofs` | `CheckoutInvariance`, `MoneyAccounted` (`MoneyIsAccounted`), `SessionsMatch` (`SessionMatchesOrder`); `CardInvariance`, `OneAnswerHeard` (`BoardHearsOneAnswer`), `DecisionsAreTrue` (`DecisionIsTrue`) |
| `SettlementProofs` | `SettlementInvariance`, `BooksFollow` (`BooksFollowChannel`); `MoneyInvariance`, `NeverPaidOutTwice` (`PaidOutWithinPayment`), `AccountsKeepAgreeing` (`AccountsAgree`), `SettlementTypeSafety` |
| `AutoStopProofs` | `AutoStopInvariance`, `CardsCutAtPurchase` (`CardCutoffIsPurchase`), `SourcesAreKept` (`SweepKeepsSource`) |
| `MeterProofs` | `SoundInvariance`, `MeteredTypesHold`, `BilledWithinPaid` (`SettlesWithinPaid`), `MinutesAllCharged` (`EveryMinuteCharged`); `RecordedInvariance`, `PreviewsHold` (`PreviewAgrees`), `BillsBracketed` (`BillIsBracketed`), `BudgetStopsHold` (`BudgetStopCertain`) |
| `FinanceProofs` | `PayoutInvariance`, `SplitsStand` (`SplitIsFinal`), `ApprovedIsEarned` (`ApprovedWithinEarned`); `DiffIsAlwaysDifference` (`DiffIsDifference`); `GrantInvariance`, `GrantsStayWithinLimits` (`GrantsWithinLimits`); `RiskInvariance`, `RefundsAreAlwaysWatched` (`RefundsAreWatched`) |
| `BackofficeProofs` | `ImportInvariance`, `ImportsAlwaysHold` (`ImportsHold`), `SettingsAlwaysStand` (`SettingsStand`); `CaseInvariance`, `CasesAlwaysKept` (`CasesAreKept`); `ExpiredNeverLeavesFile` (`ExpiredLeavesNoFile`); `InvoicesAreIssuedByTwo` (`IssuedByTwo`); `DeliveryInvariance`, `GoneIsTaken` (`GoneWasTaken`); `QueueInvariance`, `DeliveredStaysDelivered` (`DeliveredIsFinal`) |
| `SumTheorems` | lemmas: sums over finite sets under adding, removing, changing, renaming and comparing elements; minima; how many come first in a total order |

**The argument of the lifecycle.** That a port which is on is held by its order
is not inductive: what matters is in flight. START is written once per command,
since only the handler that moved it to `sent` writes it. `ChargeInvariant` says
what follows: while START travels, its command is unanswered and its order holds
the port (`StartTravels`); the port table refuses everybody else
(`PortOwnership`); a STOP for the order is behind its START (`StartFirst`), on
one ordered connection, so when the board answers the STOP nothing can energise
the order any more (`StopTravels`), and the answer may free the port. An
acknowledgement of START says truly whether the board switched on (`AckTravels`),
so a refusal, even a late one that closes a command under compensation, frees a
port that is off. Rows copied into a worker's batch keep being true because what
they say is never undone (`StartBatchIsTrue`, `EndIsTrue`); that is why a batch
may post what it read long ago. `ConsistentStep` has one lemma per action.

**The argument of the refinement.** The state functions `PhaseOf` and `holder`
change in few actions; `StepRefines` shows each to be the step of the contract it
should be, with the invariant for its guard (a release needs that the port is
off, a refund that the order never ran), and every other step to change neither.

**The argument of the checkout.** `CheckoutIsCoherent` says that a request in
progress has no intent, that nothing is paid without one, and that a callback
that is deciding holds an intent nobody may move: an expired one can be swept but
not settled otherwise. `MoneyIsAccounted` then counts.

**The argument of the card dispatch.** What a board hears is what was frozen
(`ToldIsFrozen`), and freezing happens once. That what is frozen is also true is
harder: a request may sell after its caller has gone. `CallersWait` ties a request to
the round that waits for it, `Alone` says that an event that was never taken up twice
at a time has one round and one request: when its reply is frozen nobody is left who
could still sell. For the others, `overlap`, a denial beside a purchase is admitted, and
is a finding.

**Sums.** The library folds over sets with a recursive function and offers induction
only with operators for parameters, which these provers cannot instantiate. So
`SumTheorems` shows once, from the well-foundedness of inclusion, that a set of sets
which has the empty set and is closed under adding one element has every finite set
(`SubsetInduction`), that a sum exists and is unique, and then what changing one element
does to it. The money, the payouts, the fees and the reconciliation rest on that.

**The argument of the settlement.** An executor writes what it believes WeChat said,
long after it asked, on a record another executor may have settled meanwhile.
`RefundsAreCoherent` says why it may: past its claim it works on a record that is
processing or settled; the verdict it carries is the one at WeChat, which is final; and
a record is opened once. That never more than the payment goes out is harder, because a
claim counts what it saw, not what there is. `ClaimsAreOrdered`: of two claims that are
under way the later has seen whatever the earlier saw reserved. So there is always a set
of refunds, what the latest successful claim counted, that holds everything claimed and
fits the payment, and whoever is still to claim has seen what of it is open
(`Covers`, `ClaimsFit`); that set is the witness the proof hands from step to step. The
accounts (`AccountsAgree`) need in addition that the recharges cover what the wallet can
return (`RechargesCover`, `MoneyHasSource`).

**The argument of the automatic stop.** Billing and the sweep take turns (`TakeTurns`):
what billing has read of an order is not frozen behind its back (`TaskIsCurrent`),
except by a customer, whose stop makes billing read again. A card session is cut where
the bought minutes end, because `Extend` is refused once a deadline is frozen.

**The argument of the prices.** `Sound` is the inductive invariant: the meter of the
board never runs backwards, every meter a fee is computed from is well formed, a fee
fixed at a stop is the price that was paid, and so a bill is within it. `BilledWithinPaid`
assumes that no scheme has more free time than `ValidateSpec` accepts
(`s.free <= MaxFree`); publishing does not check it, which is finding 15.
`MinutesAllCharged` compares two algorithms. `BoundaryFacts` and `SamePeriod` say what
the end of a period is: the ticks before it, and no others, have the same period of the
same day. From that, the slices of a charge are its ticks: each within one sample and
one period (`SliceIsPart`), none shared (`SlicesAreApart`), none left out
(`SlicesCover`), and the highest power of the slices of a period is that of its ticks
(`PeakIsReference`). `CostByTheClock` adds up (`SumCover`). What the divisions lose is followed from one
quotient (`MinutesNear`, `QuotientNear`) to a piece (`PieceNear`) and to the sum
(`CostNear`): half a part of the last digit for the minutes of each slice, at a price of
at most `MaxRate`, and one for the price of each piece. It needs no hypothesis: a
meter whose samples overlap or leave gaps has no price.

Three properties compare the prices of two meters of one charge. What they need of the
state is `Recorded`: a charge has one heartbeat at an instant; a cutoff that was frozen
for the budget is still the decision `BudgetStop` makes on the evidence of its instant,
as nothing recorded later changes the meter up to then (`MeterStays`); and a bill is the
fee of what has been recorded. The rest is arithmetic. `SegmentsFollow` says that the samples
are the stretches between consecutive readings, and `WhBetween` that each draws what its
ticks drew. Two meters that agree on the power of every tick they share (`SamePowers`)
pick tiers in order (`TierOrder`), and sums and rounding keep the order (`SumLess`,
`RoundedOrder`), so the shorter costs no more (`ShorterCostsLess`). This is where a peak
tariff must be `Rising`: the longer meter may know of a higher peak.

- `PreviewAgrees`: the reading at which the preview stops already uses the amount up, and
  all that follows costs no less, so both settle at the whole amount (`StoppedIsSettled`).
- `BillIsBracketed`: a meter shown live fills gaps, but one with a filled gap that is
  still a gap when the charge is billed has no price by power, so the samples shown are
  among those billed (`LiveCostsLess`). A meter cut at the cutoff has either the samples of
  the meter at that instant, or one more, clipped, of the same power (`CutKeepsPower`,
  `CutCostsNoMore`).
- `BudgetStopCertain`: `BoundPrice` says that the bound of a price is one of those it
  bounds and beyond them all. Where a power was not seen it is taken as zero, so its tier
  is the first, whose bound is that of the whole period; a peak that was seen can only be
  exceeded, and the bound of its tier is that of the tiers above (`BoundTier`,
  `BoundHour`). Added up, the lower bound is no more and the upper no less than the fee of
  every completion (`CompletionBound`): if even the lower uses the amount up, so did the
  charge, and if the two are one fee, it is the fee. Where no bound was needed, the meter
  had a price of its own: by power it then has no gap (`PricedHasNoGap`), and by energy each
  sample lies in one rate and costs what its ticks do, in whatever pieces they are read
  (`EnergyByTick`, `CompletionSame`).

**The arguments of the payouts, coupons and refunds.** A fee is split by largest
remainder: RatioBase times the cents left over is the sum of the remainders, so fewer
cents are left than there are rows with a remainder, and as the order of `Ahead` is
total exactly so many get one. A template that a settlement used is bound and stays as
it was. An approval counts from the moment it has read the balance (`Pledged`): two that
overlap lock the party's rows, so the second has read the first. A coupon transaction
that found room holds the row of its rule, so the room it counted for the coupon it had
listed stays, whatever coupon the rule is given; a rule's grants are counted coupon by
coupon, in the code as in the theorem. One that counts in a snapshot finds it current only because one settlement runs at a time, which is the
hypothesis `Dispatchers = 1` of `GrantInvariance` and `GrantsStayWithinLimits` and what
`cmd/worker/main.go` does. A wallet refund is asked for no later than now, so what its
window counted is all there is. The difference of two sums is the sum of the differences,
and what is not listed differs by zero.

**The arguments of the back office.** An import registers only what the gateway has
confirmed, and a gateway confirms a list only if it holds exactly these parameters, and
nobody changes a row. A fault's last event names who owns it, and one is fixed by the
owner its last event names. The sweep of exports removes a file before it marks its
row, and no build is behind a row that is done. An invoice that waits for a second
signature was posted by the first; the call that signs names another person. Every
event that was pushed is in the stream or taken by all who want it: an entry that a pass
could read is taken, among its failures or still among its jobs. A lease is above
zero and a delivered report has none, so a late result reaches no delivered report.

**Only model-checked.** All liveness, and what needs fairness or `ENABLED`:
`StartedIsSettled`, `StoppingFreesPort`, `RefusedIsRefunded`, `CapturedIsSettled`,
`PartsConclude`, `OverdueIsStopped`, `RecordedIsTaken`; rules for fairness are beyond the
prover used. The counterexamples.


## 5. Findings

Three have a run. The others were found with the modules below; the last column says
how to see each again: the configuration to start from, with its properties replaced
by the one named.

| | Finding | Property | To see it |
|---|---|---|---|
| 1 | *A port is paid for twice* (`payment/checkout.go:17`): the two unique keys are keys of two tables. The gateway starts the first order and refuses the second, which the proofs show to be safe for the board | `OnePaidOrderPerPort` | run PortPaidTwice |
| 2 | *A party is paid more than it earned* (`settlement/withdraw.go:49`): what was paid no longer counts | `PaidWithinEarned` | run PaidWithinEarned |
| 3 | *An alert is never resolved* (`control/device_faults.go:108`): the query asks for a parameter the caller does not send | `RecoveredIsResolved` | run AlertNotResolved |
| 4 | *A port is freed while central shows a charge* (`control/start.go:50`): the heartbeat behind START fails, and START is compensated after it was confirmed | `ChargingHoldsPort` | LifecycleSafety |
| 5 | *A START without an answer is never resolved* (`control/start.go:22`) | `SentIsResolved` | LifecycleLiveness |
| 6 | *A settled end blocks the list* (`charge/end_sync.go:136`) | `SettledIsProcessed` | LifecycleLiveness, two orders, `MaxFaults` and `LinkBound` 1 |
| 7 | *A repeated acknowledgement removes another report* (`dc589/behavior.go:484`), and 8 *a STOP whose answer cannot be written leaves no report* (`dc589/simulator.go:659`) | `EndReportKept` | LifecycleSafety |
| 9 | *Open refunds exceed the payment* (`refund/review.go:95`): who waited for the lock decides on a sum read before it. The claim counts again, so no money is lost, but one of the two can never be claimed | `WithinPayment` | RefundMoney, `ManualRequests = {m1, m2}` |
| 10 | *A rest that was not used is withheld* (`settlement/billing.go:247`): the fee is applied while a manual refund is open that is rejected later | `SurplusReturned` | RefundMoney |
| 11 | *A wallet entry is wrong* (`wallet/wallet_refund.go:63`): the balance it reports is older than the lock | `EntryIsBalance` | WalletLedger |
| 12 | *The refunds of a day are never found* (`admin/finance_ops.go:270`): the status asked for does not exist | `SettledIsCounted` | Backoffice, as a PROPERTY |
| 13 | *An expired file is handed out* (`admin/exports.go:517`): the expiry is parsed in a format it does not have | `ExpiredIsRefused` | Backoffice, as a PROPERTY |
| 14 | *An export whose requester has gone stays pending* (`admin/exports.go:347`) | `EndIsOnRecord` | Backoffice |
| 15 | *A published scheme cannot be billed* (`pricing/spec.go:180`): two checks of free time differ | `ValidRulesSettle` | MeteredFee, `Schemes <- LongFree` |
| 16 | *The peak is that of a period, not of the charge* (`pricing/mode.go:61`) | | the operator `PieceOf` |
| 17 | *A frozen order whose stop was lost is not asked again* (`charge/auto_stop.go:144`) and holds up those behind it | `AbandonedIsRetried` | AutoStopSweep, as a PROPERTY |
| 18 | *Results of a webhook are lost after an earlier error* (`delivery/webhook.go:147`) | `GoneIsOnRecord` | Outreach |
| 19 | *The count of failures is overwritten* (`schedule/scheduler.go:162`) | `CountsInARow` | Outreach, as a PROPERTY |
| 20 | *One charge, two invoices* (`charge/user_account.go:1036`) | `OneInvoicePerOrder` | Backoffice, `Requests = {"q1", "q2"}` |
| 21 | *A list that was refused cannot be corrected* (`admin/device_imports.go:257`): the message asks to check the parameters, but the ones of the first attempt stay pinned | | `Create`, whose guard `Agrees(identity, list)` no later list passes |
| 22 | *A run that ends in a conflict is not counted* (`admin/device_imports.go:270`): it leaves the job as it was | | the action `ConflictRun` |
| 23 | *No limit is a limit of one* (`coupon/coupon_activity.go:131`): a rule saved with 0 for each user gives each one coupon | | the comment of `Settings` in `CouponGrant` |
| 24 | *Two rounds decide one swipe differently* (`charge/cards.go:94`) | `SameFact` | CheckoutMoney |
| 25 | *Fragments are rounded* (`pricing/scheme_cost.go:91`): each slice is divided to 16 digits before the sum is rounded. At 50 cents an hour three minutes cost 3 cents in one sample and 2 in three | `RoundedOnce` | MeteredFee |
| 26 | *No webhook hears of payments, starts, ends and refunds* (`delivery/webhook.go:225`): an envelope without `event_type` is skipped, and central's transactions write none, although their streams are those that can be subscribed to | `CandidateIsTaken` | Outreach, as a PROPERTY, `MaxFaults = 0` |
| 27 | *An activity grants beyond its budget* (`admin/coupon_activity.go:256`): the budget is counted by coupon, and the rule's coupon can be changed | `ActivityWithinBudget` | Backoffice, as a PROPERTY |

9 and 11 rest on the isolation level: `review.go`, `executor.go` and `billing.go` set
none, and no configuration in the tree changes MySQL's default, while
`start_result.go:212`, `end_result.go:129` and `payment_callback.go:215` ask for READ
COMMITTED. Each entry of `findings` in `PROJECT.json` quotes the sentence the code
departs from.

## 6. What is not modelled, and the plan

Done first, because everything else hangs on it: one charge from payment to
settlement, across the four processes. Then its front, the checkout and the cards; its
end, the fee, the refunds and the wallet; what ends it, the automatic stop; what it
costs; the back office that pays, signs, reports and tells others; and the imports of
devices. Not modelled,
and what it would take:

1. **Clocks of two machines**: an end in seconds beside a start in milliseconds
   (`end_result.go:87`), and the frozen meter of an end event.
2. **Pages that starve** in the worker-sync lists; the pages of the sweep are modelled.
3. **A board restart** and its state file, which loses what happened in its last second.
4. **Using a coupon**: checkout refuses one beside a package and always names a package
   (`payment_intent.go:95-99`), so that path is unreachable.
5. **Row locks**: the order in which a recharge and a refund lock their rows
   (`payment_callback.go:321`).

No safety property of a passing run is left without a proof. The liveness properties
would need a prover with rules for fairness.

Left out for good: authentication, accounts, lists and dashboards, what
provisioning does beyond registering a list, telemetry, web and mini-program code, byte layout of frames,
provider signatures, platform helpers. They are request-local or pure conversion;
`components` in `PROJECT.json` gives the reason part by part.
