------------------------------ MODULE AutoStop ------------------------------
(***************************************************************************)
(* What ends a charge that its board does not end: the worker's sweep over *)
(* the charging orders (central/charge/auto_stop.go), the deadline of a    *)
(* card session (central/card/deadline.go), which the same card may still  *)
(* push back, and a customer's stop.  Each of them freezes the instant up  *)
(* to which the charge is billed before it asks the gateway to stop it;    *)
(* billing reads that instant once the order has ended.                    *)
(***************************************************************************)
EXTENDS Integers, FiniteSets, FiniteSetsExt

CONSTANTS
  Orders,        \* ids of the orders being charged
  Cards,         \* those bought by card
  PageSize,      \* orders a sweep reads at a time (100)
  Limit,         \* minutes after which an order bought by amount is stopped
  Pack,          \* minutes one swipe buys
  MaxPacks,      \* swipes the protection limit of a card session allows
  MaxTime,       \* bound: minutes that pass
  Flaky,         \* bound: orders whose board may lose its link
  Leavers        \* bound: orders whose customer may press stop

ASSUME AutoStopConstants ==
  /\ Orders \subseteq Nat \ {0} /\ IsFiniteSet(Orders)
  /\ Cards \cup Flaky \cup Leavers \subseteq Orders
  /\ {PageSize, Limit, Pack, MaxPacks} \subseteq Nat \ {0} /\ MaxTime \in Nat

VARIABLES
  now,
  status,        \* charge_order.status: charging, then completed
  minutes,       \* card_charge.purchased_minutes
  quiet,         \* orders that draw no power, or have used their amount up
  online,        \* orders whose board is connected
  cutoff,        \* charge_billing_cutoff
  stop,          \* orders with a charge_stop_command at the gateway
  asking,        \* orders whose stop the authorization has read as charging
  sweep,         \* AutoStopper.Run
  task,          \* the order billing works on, and the source it read
  receipt,       \* fee_receipt.source_json
  settled        \* orders with a charge_fee_receipt

sweepVars == <<sweep>>
billVars == <<task, receipt, settled>>
chargeVars == <<now, status, minutes, quiet, online>>
vars == <<chargeVars, cutoff, stop, asking, sweepVars, billVars>>

None == [at |-> 0, reason |-> "none"]
Reasons == {"none", "limit", "card", "measured", "stop_request"}
Rest == [at |-> "rest", time |-> 0, after |-> 0, page |-> {}, seen |-> {}]
NoTask == [order |-> 0, source |-> <<>>]

Charging == {o \in Orders : status[o] = "charging"}
Deadline(o) == IF o \in Cards THEN minutes[o] ELSE Limit

Init ==
  /\ now = 0
  /\ status = [o \in Orders |-> "charging"]
  /\ minutes = [o \in Orders |-> IF o \in Cards THEN Pack ELSE 0]
  /\ quiet = {}
  /\ online = Orders
  /\ cutoff = [o \in Orders |-> None]
  /\ stop = {}
  /\ asking = {}
  /\ sweep = Rest
  /\ task = NoTask
  /\ receipt = [o \in Orders |-> <<>>]
  /\ settled = {}

---------------------------------------------------------------------------
(* Time, boards and customers                                              *)

Tick ==
  /\ now < MaxTime
  /\ now' = now + 1
  /\ UNCHANGED <<status, minutes, quiet, online, cutoff, stop, asking, sweepVars, billVars>>

GoQuiet(o) ==
  /\ o \in Charging \ quiet
  /\ quiet' = quiet \cup {o}
  /\ UNCHANGED <<now, status, minutes, online, cutoff, stop, asking, sweepVars, billVars>>

Disconnect(o) ==
  /\ o \in Flaky \cap Charging
  /\ online' = online \ {o}
  /\ UNCHANGED <<now, status, minutes, quiet, cutoff, stop, asking, sweepVars, billVars>>

Connect(o) ==
  /\ o \notin online
  /\ online' = online \cup {o}
  /\ UNCHANGED <<now, status, minutes, quiet, cutoff, stop, asking, sweepVars, billVars>>

\* The board ends the charge, stopped or of its own, and the end reaches central.
EndOf(o) ==
  /\ o \in Charging \cap online
  /\ status' = [status EXCEPT ![o] = "completed"]
  /\ UNCHANGED <<now, minutes, quiet, online, cutoff, stop, asking, sweepVars, billVars>>

BoardEnds(o) == EndOf(o)
BoardStops(o) == o \in stop /\ EndOf(o)

\* Swipe, in an active session: it locks the session before the order.
Extend(o) ==
  /\ o \in Cards \cap Charging
  /\ now < Deadline(o)
  /\ cutoff[o] = None
  /\ minutes[o] < Pack * MaxPacks
  /\ minutes' = [minutes EXCEPT ![o] = @ + Pack]
  /\ UNCHANGED <<now, status, quiet, online, cutoff, stop, asking, sweepVars, billVars>>

\* stop-authorization reads the order, then saves the cutoff in a statement of
\* its own, which leaves an earlier one alone; then the gateway saves the stop.
UserAsks(o) ==
  /\ o \in (Leavers \cap Charging) \ (stop \cup asking)
  /\ asking' = asking \cup {o}
  /\ UNCHANGED <<chargeVars, cutoff, stop, sweepVars, billVars>>

FirstWins(o, row) == IF cutoff[o] = None THEN [cutoff EXCEPT ![o] = row] ELSE cutoff

UserFreezes(o) ==
  /\ o \in asking
  /\ asking' = asking \ {o}
  /\ cutoff' = FirstWins(o, [at |-> now, reason |-> "stop_request"])
  /\ stop' \in {stop} \cup IF o \in Charging THEN {stop \cup {o}} ELSE {}
  /\ UNCHANGED <<chargeVars, sweepVars, billVars>>

---------------------------------------------------------------------------
(* The sweep                                                               *)

\* The next orders by id that are charging; none ends the sweep.
ReadPage(after, time) ==
  LET ids  == {o \in Charging : o > after}
      page == {o \in ids : Cardinality({q \in ids : q < o}) < PageSize}
  IN  sweep' = IF page = {} THEN Rest
               ELSE [at |-> "evidence", time |-> time, after |-> Max(page),
                     page |-> page, seen |-> {}]

\* The worker waits for a sweep before it has anything billed.
BeginSweep ==
  /\ sweep = Rest
  /\ task = NoTask
  /\ ReadPage(0, now)
  /\ UNCHANGED <<chargeVars, cutoff, stop, asking, billVars>>

\* Any error ends the whole sweep; the next one begins with the first order.
Abort == sweep' = Rest

ReadEvidence ==
  /\ sweep.at = "evidence"
  /\ sweep' = [sweep EXCEPT !.at = "judge",
                            !.seen = quiet \cap online \cap sweep.page]
  /\ UNCHANGED <<chargeVars, cutoff, stop, asking, billVars>>

EvidenceFails ==
  /\ sweep.at = "evidence"
  /\ Abort
  /\ UNCHANGED <<chargeVars, cutoff, stop, asking, billVars>>

Judged == Min(sweep.page)
Overdue(o) == sweep.time >= Deadline(o)

NextOrder == sweep' = [sweep EXCEPT !.at = "judge", !.page = @ \ {Judged}]
Ask == sweep' = [sweep EXCEPT !.at = "ask"]

NextPage ==
  /\ sweep.at = "judge" /\ sweep.page = {}
  /\ ReadPage(sweep.after, sweep.time)
  /\ UNCHANGED <<chargeVars, cutoff, stop, asking, billVars>>

PassUnseen ==
  /\ sweep.at = "judge" /\ sweep.page # {}
  /\ Judged \notin sweep.seen
  /\ NextOrder
  /\ UNCHANGED <<chargeVars, cutoff, stop, asking, billVars>>

Pass ==
  /\ sweep.at = "judge" /\ sweep.page # {}
  /\ ~Overdue(Judged) /\ Judged \notin sweep.seen
  /\ NextOrder
  /\ UNCHANGED <<chargeVars, cutoff, stop, asking, billVars>>

FreezeOnSight ==
  /\ sweep.at = "judge" /\ sweep.page # {}
  /\ Judged \in Cards /\ Overdue(Judged)
  /\ IF cutoff[Judged] # None THEN Abort /\ UNCHANGED cutoff
     ELSE /\ cutoff' = [cutoff EXCEPT ![Judged] = [at |-> sweep.time, reason |-> "card"]]
          /\ Ask
  /\ UNCHANGED <<chargeVars, stop, asking, billVars>>

\* FreezeDeadline: under the locks of the session and the order, it looks at
\* the status and the minutes bought again.
FreezeDeadline ==
  /\ sweep.at = "judge" /\ sweep.page # {}
  /\ Judged \in Cards /\ Overdue(Judged)
  /\ \/ /\ Judged \notin Charging
        /\ NextOrder /\ UNCHANGED cutoff
     \/ /\ Judged \in Charging /\ cutoff[Judged] # None
        /\ Abort /\ UNCHANGED cutoff
     \/ /\ Judged \in Charging /\ cutoff[Judged] = None
        /\ cutoff' = [cutoff EXCEPT ![Judged] = [at |-> Deadline(Judged), reason |-> "card"]]
        /\ Ask
  /\ UNCHANGED <<chargeVars, stop, asking, billVars>>

\* Everything else is frozen without a lock or a second look at the order.
Freeze ==
  /\ sweep.at = "judge" /\ sweep.page # {}
  /\ \/ Judged \notin Cards /\ Overdue(Judged)
     \/ ~Overdue(Judged) /\ Judged \in sweep.seen
  /\ IF cutoff[Judged] # None THEN Abort /\ UNCHANGED cutoff
     ELSE /\ cutoff' = [cutoff EXCEPT ![Judged] =
                IF Overdue(Judged) THEN [at |-> Limit, reason |-> "limit"]
                ELSE [at |-> sweep.time, reason |-> "measured"]]
          /\ Ask
  /\ UNCHANGED <<chargeVars, stop, asking, billVars>>

\* The gateway has a stop of this order, or asks central, which says that it is
\* charging; otherwise it answers 409.
AskAccepted ==
  /\ sweep.at = "ask"
  /\ Judged \in stop \cup Charging
  /\ stop' = stop \cup {Judged}
  /\ NextOrder
  /\ UNCHANGED <<chargeVars, cutoff, asking, billVars>>

AskFails ==
  /\ sweep.at = "ask"
  /\ stop' \in {stop} \cup IF Judged \in Charging THEN {stop \cup {Judged}} ELSE {}
  /\ Abort
  /\ UNCHANGED <<chargeVars, cutoff, asking, billVars>>

Sweep ==
  \/ BeginSweep \/ ReadEvidence \/ EvidenceFails \/ NextPage \/ Pass
  \/ FreezeDeadline \/ Freeze \/ AskAccepted \/ AskFails

---------------------------------------------------------------------------
(* Billing                                                                 *)

\* What readBillingSource sees of an order.
Source(o) == <<cutoff[o], minutes[o]>>

ReadSourceAnyTime(o) ==
  /\ task = NoTask
  /\ status[o] = "completed" /\ o \notin settled
  /\ task' = [order |-> o, source |-> Source(o)]
  /\ UNCHANGED <<chargeVars, cutoff, stop, asking, sweepVars, receipt, settled>>

ReadSource(o) ==
  /\ sweep = Rest /\ task = NoTask
  /\ status[o] = "completed" /\ o \notin settled
  /\ task' = [order |-> o, source |-> Source(o)]
  /\ UNCHANGED <<chargeVars, cutoff, stop, asking, sweepVars, receipt, settled>>

\* Calculate: the first source is the last; another one is a conflict.
Calculate ==
  /\ task # NoTask
  /\ receipt[task.order] = <<>>
  /\ receipt' = [receipt EXCEPT ![task.order] = task.source]
  /\ UNCHANGED <<chargeVars, cutoff, stop, asking, sweepVars, task, settled>>

\* Apply: it reads the source again under the locks of payment and order.
Apply ==
  /\ task # NoTask
  /\ receipt[task.order] # <<>>
  /\ settled' = IF task.source = receipt[task.order] /\ task.source = Source(task.order)
                THEN settled \cup {task.order} ELSE settled
  /\ task' = NoTask
  /\ UNCHANGED <<chargeVars, cutoff, stop, asking, sweepVars, receipt>>

\* The dispatch breaks off; deliverPending applies the stored result later.
BreakOff ==
  /\ task # NoTask
  /\ task' = NoTask
  /\ UNCHANGED <<chargeVars, cutoff, stop, asking, sweepVars, receipt, settled>>

DeliverPending(o) ==
  /\ sweep = Rest /\ task = NoTask
  /\ receipt[o] = Source(o) /\ o \notin settled
  /\ settled' = settled \cup {o}
  /\ UNCHANGED <<chargeVars, cutoff, stop, asking, sweepVars, task, receipt>>

Next ==
  \/ Tick
  \/ \E o \in Orders :
       \/ GoQuiet(o) \/ Disconnect(o) \/ Connect(o) \/ BoardEnds(o) \/ BoardStops(o)
       \/ Extend(o) \/ UserAsks(o) \/ UserFreezes(o)
       \/ ReadSource(o) \/ DeliverPending(o)
  \/ Sweep \/ Calculate \/ Apply \/ BreakOff

\* Evidence and the gateway answer at last, a board comes back and stays for
\* the ten seconds after which a stop is repeated; a request comes to an end,
\* and every round of the worker begins with a sweep.  Nobody has to stop a
\* charge, and no board ends one by itself.
Fairness ==
  /\ WF_vars(Tick)
  /\ SF_vars(BeginSweep) /\ SF_vars(ReadEvidence)
  /\ WF_vars(Calculate \/ Apply \/ BreakOff)
  /\ WF_vars(NextPage \/ Pass \/ FreezeDeadline \/ Freeze)
  /\ WF_vars(AskAccepted \/ AskFails)
  /\ \A o \in Orders :
       WF_vars(UserFreezes(o)) /\ WF_vars(Connect(o)) /\ SF_vars(BoardStops(o))

Spec == Init /\ [][Next]_vars /\ Fairness

---------------------------------------------------------------------------
(* Properties                                                              *)

(* Shape of the state: a cutoff lies in the past or at the limit, a sweep     *)
(* judges orders of its page, the task is an order that has ended.            *)
AutoStopTypeOK ==
  /\ now \in 0..MaxTime
  /\ status \in [Orders -> {"charging", "completed"}]
  /\ minutes \in [Orders -> {Pack * k : k \in 0..MaxPacks}]
  /\ cutoff \in [Orders -> [at : 0..MaxTime, reason : Reasons]]
  /\ quiet \cup online \cup stop \cup asking \cup settled \subseteq Orders
  /\ sweep = [at |-> sweep.at, time |-> sweep.time, after |-> sweep.after,
              page |-> sweep.page, seen |-> sweep.seen]
  /\ sweep.at \in {"rest", "evidence", "judge", "ask"}
  /\ sweep.time \in 0..MaxTime /\ sweep.page \subseteq Orders
  /\ sweep.at \in {"evidence", "ask"} => sweep.page # {}
  /\ task # NoTask => task.order \in Orders /\ status[task.order] = "completed"
  /\ DOMAIN receipt = Orders

(* A card session is cut at the end of the minutes that were bought, all of   *)
(* them: a swipe that was taken is never cut off, and none is taken after the *)
(* cutoff, however the two race (deadline.go:15-18, online_card.go:116-122).  *)
CardCutoffIsPurchase ==
  \A o \in Cards : cutoff[o].reason = "card" => cutoff[o].at = minutes[o]

(* A sweep never changes what an order has been priced by: an order it read   *)
(* as charging may end while the sweep goes on, but is priced after it        *)
(* (auto_stop.go:26-27, cmd/worker/main.go:180-186).                          *)
SweepKeepsSource ==
  \A o \in Orders :
    receipt[o] # <<>> /\ cutoff[o].reason # "stop_request" => receipt[o] = Source(o)

\* Only what has ended is priced, and none of what a sweep is judging.
PricedHasEnded ==
  /\ \A o \in Orders : receipt[o] # <<>> => status[o] = "completed"
  /\ \A o \in sweep.page : receipt[o] = <<>>

\* Billing and the sweep take turns.
TakeTurns == task # NoTask => sweep = Rest

\* What billing has read is still so, unless a customer has asked to stop.
TaskIsCurrent ==
  task # NoTask /\ cutoff[task.order].reason # "stop_request"
    => task.source = Source(task.order)

(* What the steps keep together: billing and the sweep exclude each other, so *)
(* what billing reads of an order that ended is not frozen behind its back.   *)
AutoStopInvariant ==
  /\ AutoStopTypeOK
  /\ CardCutoffIsPurchase
  /\ PricedHasEnded
  /\ TakeTurns
  /\ TaskIsCurrent
  /\ SweepKeepsSource

\* Frozen, charging, and nobody is asking the gateway to stop it.
Abandoned(o) ==
  /\ o \in Charging \ (stop \cup asking)
  /\ cutoff[o] # None
  /\ ~(sweep.at = "ask" /\ Judged = o)

(* Unless some order is abandoned, every overdue one is stopped in the end,   *)
(* although each order that has been asked to stop breaks the sweep off, for  *)
(* all that follow it, until it has ended (auto_stop.go:144-152).             *)
OverdueIsStopped ==
  (\A o \in Orders : []~Abandoned(o)) =>
    \A o \in Orders : (now >= Deadline(o)) ~> (status[o] = "completed")

(* An order whose cutoff is frozen and whose stop did not reach the gateway   *)
(* is asked again by a later round (auto_stop.go:144-145).                    *)
AbandonedIsRetried ==
  \A o \in Orders : Abandoned(o) ~> (o \in stop \/ status[o] = "completed")
=============================================================================
