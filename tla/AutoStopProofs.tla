---------------------------- MODULE AutoStopProofs ----------------------------
(***************************************************************************)
(* Billing and the sweep take turns, so what an order has been priced by   *)
(* is not frozen behind its back; and a card session is cut where the      *)
(* minutes that were bought end.                                           *)
(***************************************************************************)
EXTENDS AutoStop, SumTheorems

LEMMA LowestIsMember ==
  ASSUME NEW S, S \subseteq Orders, S # {}
  PROVE  Min(S) \in S
<1>1. S \in SUBSET Nat
  BY AutoStopConstants
<1>2. PICK n \in S : \A m \in S : n <= m
  BY <1>1, LeastNat
<1> QED
  BY <1>2 DEF Min

(* The swipes that may extend a session keep to whole packs.                *)
LEMMA PacksAdd ==
  ASSUME NEW m \in {Pack * k : k \in 0..MaxPacks}, m < Pack * MaxPacks
  PROVE  m + Pack \in {Pack * k : k \in 0..MaxPacks}
<1> USE AutoStopConstants
<1>1. PICK k \in 0..MaxPacks : m = Pack * k
  OBVIOUS
<1>2. k # MaxPacks
  BY <1>1
<1>3. k + 1 \in 0..MaxPacks /\ m + Pack = Pack * (k + 1)
  BY <1>1, <1>2
<1> QED
  BY <1>3

LEMMA AutoStopStarts == Init => AutoStopInvariant
<1> SUFFICES ASSUME Init PROVE AutoStopInvariant
  OBVIOUS
<1> USE AutoStopConstants DEF Init, None, Rest, NoTask
<1>1. minutes \in [Orders -> {Pack * k : k \in 0..MaxPacks}]
  <2>1. 0 = Pack * 0 /\ Pack = Pack * 1 /\ 0 \in 0..MaxPacks /\ 1 \in 0..MaxPacks
    OBVIOUS
  <2> QED
    BY <2>1
<1>2. AutoStopTypeOK
  BY <1>1 DEF AutoStopTypeOK, Reasons
<1> QED
  BY <1>2 DEF AutoStopInvariant, CardCutoffIsPurchase, PricedHasEnded, TakeTurns,
              TaskIsCurrent, SweepKeepsSource

(* A step that freezes nothing, prices nothing and sells nothing to an      *)
(* order that has ended.                                                    *)
LEMMA NothingPriced ==
  ASSUME AutoStopInvariant, AutoStopTypeOK',
         UNCHANGED <<cutoff, sweep, task, receipt>>,
         \A o \in Orders : status[o] = "completed" => status'[o] = "completed"
                                                      /\ minutes'[o] = minutes[o],
         \A o \in Cards : cutoff[o] # None => minutes'[o] = minutes[o]
  PROVE  AutoStopInvariant'
<1> USE AutoStopConstants DEF AutoStopInvariant, AutoStopTypeOK
<1>1. CardCutoffIsPurchase'
  BY DEF CardCutoffIsPurchase, None
<1>2. PricedHasEnded' /\ TakeTurns'
  BY DEF PricedHasEnded, TakeTurns
<1>3. TaskIsCurrent'
  BY DEF TaskIsCurrent, Source
<1>4. SweepKeepsSource'
  BY DEF SweepKeepsSource, Source, PricedHasEnded
<1> QED
  BY <1>1, <1>2, <1>3, <1>4 DEF AutoStopInvariant

(* Time, boards, and a customer who begins to ask.                          *)
LEMMA WorldKeeps ==
  ASSUME AutoStopInvariant,
         \/ Tick
         \/ \E o \in Orders : GoQuiet(o) \/ Disconnect(o) \/ Connect(o) \/ BoardEnds(o)
                              \/ BoardStops(o) \/ UserAsks(o)
  PROVE  AutoStopInvariant'
<1> USE DEF chargeVars, sweepVars, billVars
<1>1. CASE Tick
  <2>1. AutoStopTypeOK'
    BY <1>1, AutoStopConstants DEF Tick, AutoStopInvariant, AutoStopTypeOK
  <2> QED
    BY <1>1, <2>1, NothingPriced DEF Tick
<1>2. ASSUME NEW o \in Orders, EndOf(o) PROVE AutoStopInvariant'
  <2>1. AutoStopTypeOK'
    BY <1>2 DEF EndOf, AutoStopInvariant, AutoStopTypeOK
  <2>2. \A q \in Orders : status[q] = "completed" => status'[q] = "completed"
    BY <1>2 DEF EndOf, AutoStopInvariant, AutoStopTypeOK
  <2> QED
    BY <1>2, <2>1, <2>2, NothingPriced, AutoStopConstants DEF EndOf
<1>3. ASSUME NEW o \in Orders,
             GoQuiet(o) \/ Disconnect(o) \/ Connect(o) \/ UserAsks(o)
      PROVE  AutoStopInvariant'
  <2>1. AutoStopTypeOK'
    BY <1>3 DEF GoQuiet, Disconnect, Connect, UserAsks, AutoStopInvariant, AutoStopTypeOK
  <2>2. UNCHANGED <<status, minutes, cutoff, sweep, task, receipt>>
    BY <1>3 DEF GoQuiet, Disconnect, Connect, UserAsks
  <2> QED
    BY <2>1, <2>2, NothingPriced, AutoStopConstants
<1> QED
  BY <1>1, <1>2, <1>3 DEF BoardEnds, BoardStops

LEMMA ExtendKeeps ==
  ASSUME AutoStopInvariant, NEW o \in Orders, Extend(o)
  PROVE  AutoStopInvariant'
<1> USE DEF chargeVars, sweepVars, billVars
<1>1. AutoStopTypeOK'
  <2>1. minutes[o] + Pack \in {Pack * k : k \in 0..MaxPacks}
    BY PacksAdd DEF Extend, AutoStopInvariant, AutoStopTypeOK
  <2> QED
    BY <2>1 DEF Extend, AutoStopInvariant, AutoStopTypeOK
<1>2. \A q \in Orders : /\ status[q] = "completed" => minutes'[q] = minutes[q]
                        /\ cutoff[q] # None => minutes'[q] = minutes[q]
  BY DEF Extend, Charging, AutoStopInvariant, AutoStopTypeOK
<1> QED
  BY <1>1, <1>2, NothingPriced, AutoStopConstants DEF Extend

(* The customer's cutoff is a stop_request, or there was one before.        *)
LEMMA UserFreezesKeeps ==
  ASSUME AutoStopInvariant, NEW o \in Orders, UserFreezes(o)
  PROVE  AutoStopInvariant'
<1> USE AutoStopConstants DEF chargeVars, sweepVars, billVars, UserFreezes, AutoStopInvariant
<1> DEFINE row == [at |-> now, reason |-> "stop_request"]
<1>1. row \in [at : 0..MaxTime, reason : Reasons] /\ row.reason = "stop_request"
  BY DEF AutoStopTypeOK, Reasons
<1>2. /\ cutoff' \in [Orders -> [at : 0..MaxTime, reason : Reasons]]
      /\ \A q \in Orders : cutoff'[q] = cutoff[q] \/ cutoff'[q] = row
  BY <1>1 DEF FirstWins, AutoStopTypeOK
<1> HIDE DEF row
<1>3. AutoStopTypeOK'
  <2>1. stop' \subseteq Orders
    BY DEF AutoStopTypeOK
  <2> QED
    BY <1>2, <2>1 DEF AutoStopTypeOK
<1>4. CardCutoffIsPurchase'
  BY <1>1, <1>2 DEF CardCutoffIsPurchase
<1>5. PricedHasEnded' /\ TakeTurns'
  BY DEF PricedHasEnded, TakeTurns
<1>6. TaskIsCurrent'
  BY <1>1, <1>2 DEF TaskIsCurrent, Source, AutoStopTypeOK
<1>7. SweepKeepsSource'
  BY <1>1, <1>2 DEF SweepKeepsSource, Source
<1> QED
  BY <1>3, <1>4, <1>5, <1>6, <1>7 DEF AutoStopInvariant

-----------------------------------------------------------------------------
(* The sweep.                                                               *)

SweepShape ==
  /\ sweep = [at |-> sweep.at, time |-> sweep.time, after |-> sweep.after,
              page |-> sweep.page, seen |-> sweep.seen]
  /\ sweep.at \in {"rest", "evidence", "judge", "ask"}
  /\ sweep.time \in 0..MaxTime /\ sweep.page \subseteq Orders
  /\ sweep.at \in {"evidence", "ask"} => sweep.page # {}

(* While a sweep is under way nothing is priced; a step of it that freezes  *)
(* nothing keeps all that is known if the page still has unpriced orders.   *)
LEMMA SweepMoves ==
  ASSUME AutoStopInvariant, task = NoTask, SweepShape',
         UNCHANGED <<chargeVars, cutoff, asking, billVars>>,
         stop' \subseteq Orders,
         \A o \in sweep'.page : receipt[o] = <<>>
  PROVE  AutoStopInvariant'
<1> USE DEF chargeVars, billVars, AutoStopInvariant
<1>1. AutoStopTypeOK'
  BY DEF AutoStopTypeOK, SweepShape
<1>2. CardCutoffIsPurchase'
  BY DEF CardCutoffIsPurchase
<1>3. PricedHasEnded' /\ TakeTurns' /\ TaskIsCurrent'
  BY DEF PricedHasEnded, TakeTurns, TaskIsCurrent
<1>4. SweepKeepsSource'
  BY DEF SweepKeepsSource, Source
<1> QED
  BY <1>1, <1>2, <1>3, <1>4 DEF AutoStopInvariant

LEMMA RestIsShaped == sweep = Rest => SweepShape
BY AutoStopConstants DEF Rest, SweepShape

(* A page holds orders that are charging, which nothing was priced for.     *)
LEMMA ReadPageKeeps ==
  ASSUME AutoStopInvariant, task = NoTask, NEW after, NEW time \in 0..MaxTime,
         ReadPage(after, time),
         UNCHANGED <<chargeVars, cutoff, stop, asking, billVars>>
  PROVE  AutoStopInvariant'
<1> DEFINE page == {o \in {c \in Charging : c > after} :
                      Cardinality({q \in {c \in Charging : c > after} : q < o}) < PageSize}
<1>1. page \subseteq Charging
  OBVIOUS
<1>2. sweep' = IF page = {} THEN Rest
               ELSE [at |-> "evidence", time |-> time, after |-> Max(page),
                     page |-> page, seen |-> {}]
  BY DEF ReadPage
<1> HIDE DEF page
<1>3. SweepShape' /\ sweep'.page \subseteq Charging
  <2>1. CASE page = {}
    <3>1. sweep' = Rest
      BY <1>2, <2>1
    <3> QED
      BY <3>1, RestIsShaped, AutoStopConstants DEF Rest, SweepShape
  <2>2. CASE page # {}
    BY <1>1, <1>2, <2>2 DEF SweepShape, Charging
  <2> QED
    BY <2>1, <2>2
<1>4. \A o \in sweep'.page : receipt[o] = <<>>
  BY <1>3 DEF AutoStopInvariant, PricedHasEnded, Charging
<1> QED
  BY <1>3, <1>4, SweepMoves DEF AutoStopInvariant, AutoStopTypeOK

LEMMA AwakeIsAlone ==
  ASSUME AutoStopInvariant, sweep.at # "rest"
  PROVE  /\ task = NoTask /\ SweepShape
         /\ sweep.page # {} => Judged \in sweep.page /\ Judged \in Orders
<1>1. SweepShape
  BY DEF AutoStopInvariant, AutoStopTypeOK, SweepShape
<1>2. sweep # Rest
  BY DEF Rest
<1> QED
  BY <1>1, <1>2, LowestIsMember DEF AutoStopInvariant, TakeTurns, SweepShape, Judged

(* The steps that only go on to the next order, or break off.               *)
LEMMA GoesOnKeeps ==
  ASSUME AutoStopInvariant, sweep.at # "rest",
         NextOrder \/ Abort,
         UNCHANGED <<chargeVars, cutoff, asking, billVars>>,
         stop' \subseteq Orders
  PROVE  AutoStopInvariant'
<1>1. task = NoTask /\ SweepShape
  BY AwakeIsAlone
<1>2. SweepShape' /\ sweep'.page \subseteq sweep.page
  <2>1. CASE NextOrder
    BY <1>1, <2>1 DEF NextOrder, SweepShape
  <2>2. CASE Abort
    BY <2>2, AutoStopConstants DEF Abort, Rest, SweepShape
  <2> QED
    BY <2>1, <2>2
<1>3. \A o \in sweep'.page : receipt[o] = <<>>
  BY <1>2 DEF AutoStopInvariant, PricedHasEnded
<1> QED
  BY <1>1, <1>2, <1>3, SweepMoves

(* A freeze leaves alone what is frozen, and every order outside the page.  *)
LEMMA FreezesKeep ==
  ASSUME AutoStopInvariant, sweep.at = "judge", sweep.page # {}, Ask,
         UNCHANGED <<chargeVars, stop, asking, billVars>>,
         NEW row \in [at : 0..MaxTime, reason : Reasons],
         Judged \in Cards /\ row.reason = "card" => row.at = minutes[Judged],
         cutoff' = [cutoff EXCEPT ![Judged] = row]
  PROVE  AutoStopInvariant'
<1> USE DEF chargeVars, billVars
<1>1. task = NoTask /\ SweepShape /\ Judged \in sweep.page /\ Judged \in Orders
  BY AwakeIsAlone
<1>2. SweepShape' /\ sweep'.page = sweep.page
  BY <1>1 DEF Ask, SweepShape
<1>3. receipt[Judged] = <<>>
  BY <1>1 DEF AutoStopInvariant, PricedHasEnded
<1> USE DEF AutoStopInvariant
<1>4. AutoStopTypeOK'
  BY <1>1, <1>2 DEF AutoStopTypeOK, SweepShape
<1>5. CardCutoffIsPurchase'
  BY <1>1, AutoStopConstants DEF CardCutoffIsPurchase, AutoStopTypeOK
<1>6. PricedHasEnded' /\ TakeTurns' /\ TaskIsCurrent'
  BY <1>1, <1>2 DEF PricedHasEnded, TakeTurns, TaskIsCurrent
<1>7. SweepKeepsSource'
  BY <1>1, <1>3 DEF SweepKeepsSource, Source, AutoStopTypeOK
<1> QED
  BY <1>4, <1>5, <1>6, <1>7 DEF AutoStopInvariant

LEMMA JudgesKeep ==
  ASSUME AutoStopInvariant, Pass \/ FreezeDeadline \/ Freeze
  PROVE  AutoStopInvariant'
<1> USE AutoStopConstants
<1>1. /\ sweep.at = "judge" /\ sweep.page # {} /\ stop' \subseteq Orders
      /\ UNCHANGED <<chargeVars, stop, asking, billVars>>
  BY DEF Pass, FreezeDeadline, Freeze, AutoStopInvariant, AutoStopTypeOK
<1>2. SweepShape /\ Judged \in Orders
  BY <1>1, AwakeIsAlone
<1>3. CASE (NextOrder \/ Abort) /\ UNCHANGED cutoff
  BY <1>1, <1>3, GoesOnKeeps
<1>4. ASSUME FreezeDeadline, Ask PROVE AutoStopInvariant'
  <2>1. /\ Judged \in Cards /\ Deadline(Judged) \in 0..MaxTime
        /\ Deadline(Judged) = minutes[Judged]
    <3>1. /\ minutes[Judged] \in {Pack * k : k \in 0..MaxPacks}
          /\ Judged \in Cards /\ sweep.time >= Deadline(Judged)
      BY <1>2, <1>4 DEF AutoStopInvariant, AutoStopTypeOK, FreezeDeadline, Overdue
    <3>2. PICK k \in 0..MaxPacks : minutes[Judged] = Pack * k
      BY <3>1
    <3>3. minutes[Judged] \in Nat
      BY <3>2
    <3> QED
      BY <1>2, <3>1, <3>3 DEF Deadline, SweepShape
  <2>2. CASE cutoff' = [cutoff EXCEPT ![Judged] = [at |-> Deadline(Judged), reason |-> "card"]]
    <3>1. [at |-> Deadline(Judged), reason |-> "card"] \in [at : 0..MaxTime, reason : Reasons]
      BY <2>1 DEF Reasons
    <3> QED
      BY <1>1, <1>4, <2>1, <2>2, <3>1, FreezesKeep
  <2>3. CASE NextOrder /\ UNCHANGED cutoff
    BY <1>3, <2>3
  <2>4. CASE Abort /\ UNCHANGED cutoff
    BY <1>3, <2>4
  <2> QED
    BY <1>4, <2>2, <2>3, <2>4 DEF FreezeDeadline
<1>5. ASSUME Freeze, Ask PROVE AutoStopInvariant'
  <2> DEFINE row == IF Overdue(Judged) THEN [at |-> Limit, reason |-> "limit"]
                    ELSE [at |-> sweep.time, reason |-> "measured"]
  <2>1. CASE cutoff' = [cutoff EXCEPT ![Judged] = row]
    <3>1. row \in [at : 0..MaxTime, reason : Reasons] /\ row.reason # "card"
      <4>1. CASE Overdue(Judged)
        <5>1. Judged \notin Cards
          BY <1>5, <4>1 DEF Freeze
        <5> QED
          BY <1>2, <4>1, <5>1 DEF Overdue, Deadline, SweepShape, Reasons
      <4>2. CASE ~Overdue(Judged)
        BY <1>2, <4>2 DEF SweepShape, Reasons
      <4> QED
        BY <4>1, <4>2
    <3> HIDE DEF row
    <3> QED
      BY <1>1, <1>5, <2>1, <3>1, FreezesKeep
  <2>2. CASE Abort /\ UNCHANGED cutoff
    BY <1>3, <2>2
  <2> QED
    BY <1>5, <2>1, <2>2 DEF Freeze
<1>6. CASE Pass
  BY <1>3, <1>6 DEF Pass
<1>7. CASE FreezeDeadline
  BY <1>3, <1>4, <1>7 DEF FreezeDeadline
<1>8. CASE Freeze
  BY <1>3, <1>5, <1>8 DEF Freeze
<1> QED
  BY <1>6, <1>7, <1>8

LEMMA SweepKeeps ==
  ASSUME AutoStopInvariant, Sweep
  PROVE  AutoStopInvariant'
<1> USE AutoStopConstants
<1>1. CASE BeginSweep
  BY <1>1, ReadPageKeeps DEF BeginSweep, AutoStopInvariant, AutoStopTypeOK
<1>2. CASE ReadEvidence
  <2>1. task = NoTask /\ SweepShape
    BY <1>2, AwakeIsAlone DEF ReadEvidence
  <2>2. SweepShape' /\ sweep'.page = sweep.page
    BY <1>2, <2>1 DEF ReadEvidence, SweepShape
  <2>3. \A o \in sweep'.page : receipt[o] = <<>>
    BY <2>2 DEF AutoStopInvariant, PricedHasEnded
  <2> QED
    BY <1>2, <2>1, <2>2, <2>3, SweepMoves DEF ReadEvidence, AutoStopInvariant, AutoStopTypeOK
<1>3. CASE EvidenceFails
  BY <1>3, GoesOnKeeps DEF EvidenceFails, AutoStopInvariant, AutoStopTypeOK
<1>4. CASE NextPage
  <2>1. task = NoTask /\ SweepShape
    BY <1>4, AwakeIsAlone DEF NextPage
  <2> QED
    BY <1>4, <2>1, ReadPageKeeps DEF NextPage, SweepShape
<1>5. CASE AskAccepted \/ AskFails
  <2>1. sweep.at = "ask"
    BY <1>5 DEF AskAccepted, AskFails
  <2>2. Judged \in Orders
    BY <2>1, AwakeIsAlone DEF SweepShape
  <2>3. stop' \subseteq Orders
    BY <1>5, <2>2 DEF AskAccepted, AskFails, AutoStopInvariant, AutoStopTypeOK
  <2> QED
    BY <1>5, <2>1, <2>3, GoesOnKeeps DEF AskAccepted, AskFails
<1> QED
  BY <1>1, <1>2, <1>3, <1>4, <1>5, JudgesKeep DEF Sweep

-----------------------------------------------------------------------------
(* Billing.                                                                 *)

LEMMA BillingKeeps ==
  ASSUME AutoStopInvariant,
         \/ Calculate \/ Apply \/ BreakOff
         \/ \E o \in Orders : ReadSource(o) \/ DeliverPending(o)
  PROVE  AutoStopInvariant'
<1> USE DEF chargeVars, sweepVars, AutoStopInvariant
<1>1. UNCHANGED <<chargeVars, cutoff, stop, asking, sweep>>
  BY DEF Calculate, Apply, BreakOff, ReadSource, DeliverPending
<1>2. CardCutoffIsPurchase'
  BY <1>1 DEF CardCutoffIsPurchase
<1>3. ASSUME NEW o \in Orders, ReadSource(o) PROVE AutoStopInvariant'
  <2>1. task' = [order |-> o, source |-> Source(o)] /\ status[o] = "completed"
    BY <1>3 DEF ReadSource
  <2>2. UNCHANGED <<receipt, settled>> /\ sweep = Rest
    BY <1>3 DEF ReadSource
  <2>3. AutoStopTypeOK'
    BY <1>1, <2>1, <2>2 DEF AutoStopTypeOK
  <2>4. PricedHasEnded' /\ TakeTurns' /\ SweepKeepsSource'
    BY <1>1, <2>2 DEF PricedHasEnded, TakeTurns, SweepKeepsSource, Source
  <2>5. TaskIsCurrent'
    BY <1>1, <2>1 DEF TaskIsCurrent, Source
  <2> QED
    BY <1>2, <2>3, <2>4, <2>5 DEF AutoStopInvariant
<1>4. CASE Calculate
  <2>1. /\ task # NoTask /\ task.order \in Orders /\ sweep = Rest
        /\ receipt' = [receipt EXCEPT ![task.order] = task.source]
        /\ UNCHANGED <<task, settled>>
    BY <1>4 DEF Calculate, AutoStopTypeOK, TakeTurns
  <2>2. AutoStopTypeOK'
    BY <1>1, <2>1 DEF AutoStopTypeOK
  <2>3. PricedHasEnded' /\ TakeTurns' /\ TaskIsCurrent'
    BY <1>1, <2>1 DEF PricedHasEnded, TakeTurns, TaskIsCurrent, Source, AutoStopTypeOK, Rest
  <2>4. SweepKeepsSource'
    BY <1>1, <2>1 DEF SweepKeepsSource, TaskIsCurrent, Source, AutoStopTypeOK
  <2> QED
    BY <1>2, <2>2, <2>3, <2>4 DEF AutoStopInvariant
<1>5. ASSUME task' = NoTask \/ UNCHANGED task, UNCHANGED receipt, settled' \subseteq Orders
      PROVE  AutoStopInvariant'
  <2>1. AutoStopTypeOK'
    BY <1>1, <1>5 DEF AutoStopTypeOK
  <2>2. PricedHasEnded' /\ TakeTurns' /\ SweepKeepsSource'
    BY <1>1, <1>5 DEF PricedHasEnded, TakeTurns, SweepKeepsSource, Source
  <2>3. TaskIsCurrent'
    BY <1>1, <1>5 DEF TaskIsCurrent, Source
  <2> QED
    BY <1>2, <2>1, <2>2, <2>3 DEF AutoStopInvariant
<1>6. CASE Apply \/ BreakOff
  BY <1>5, <1>6 DEF Apply, BreakOff, AutoStopTypeOK
<1>7. ASSUME NEW o \in Orders, DeliverPending(o) PROVE AutoStopInvariant'
  BY <1>5, <1>7 DEF DeliverPending, AutoStopTypeOK
<1> QED
  BY <1>3, <1>4, <1>6, <1>7

-----------------------------------------------------------------------------
(* AutoStopInvariant holds in every state: billing works only while no      *)
(* sweep is under way, so no cutoff is frozen between what it reads and     *)
(* what it stores, but for a customer's.                                    *)
THEOREM AutoStopInvariance == Spec => []AutoStopInvariant
<1>1. AutoStopInvariant /\ [Next]_vars => AutoStopInvariant'
  <2> SUFFICES ASSUME AutoStopInvariant, [Next]_vars PROVE AutoStopInvariant'
    OBVIOUS
  <2>1. CASE UNCHANGED vars
    BY <2>1 DEF vars, chargeVars, sweepVars, billVars, AutoStopInvariant, AutoStopTypeOK,
       CardCutoffIsPurchase, PricedHasEnded, TakeTurns, TaskIsCurrent, SweepKeepsSource, Source
  <2> QED
    BY <2>1, WorldKeeps, ExtendKeeps, UserFreezesKeeps, SweepKeeps, BillingKeeps DEF Next
<1> QED
  BY <1>1, AutoStopStarts, PTL DEF Spec

(* A session bought by card is cut exactly where the minutes that were      *)
(* bought end, however swipes and the sweep race (deadline.go:15-18).       *)
THEOREM CardsCutAtPurchase == Spec => []CardCutoffIsPurchase
<1>1. AutoStopInvariant => CardCutoffIsPurchase
  BY DEF AutoStopInvariant
<1> QED
  BY <1>1, AutoStopInvariance, PTL

(* What an order was priced by is still what is stored, unless its customer *)
(* asked for a stop (auto_stop.go:26-27, cmd/worker/main.go:180-186).       *)
THEOREM SourcesAreKept == Spec => []SweepKeepsSource
<1>1. AutoStopInvariant => SweepKeepsSource
  BY DEF AutoStopInvariant
<1> QED
  BY <1>1, AutoStopInvariance, PTL
=============================================================================
