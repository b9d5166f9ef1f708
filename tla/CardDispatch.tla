----------------------------- MODULE CardDispatch -----------------------------
(***************************************************************************)
(* A card at a board (worker/charge/cards.go, central/card,                *)
(* gateway/control/worker_sync.go and cards.go).  The gateway records a    *)
(* swipe or a question for the balance; the worker has central decide it,  *)
(* freezes the first decision at the gateway, tells the board what it was  *)
(* and ticks the event off.  A swipe that is accepted is a purchase: it    *)
(* starts a session on its port or adds a pack of minutes to it, and the   *)
(* board hears of it only by the start of the charge.                      *)
(*                                                                         *)
(* Any call may fail with or without its effect, a worker may stop, and a  *)
(* call whose caller has gone may still run to its end.                    *)
(***************************************************************************)
EXTENDS Integers, FiniteSets

CONSTANTS
  Swipes, Queries,  \* events of a board: a card on a port, a card asked about
  Workers,          \* rounds of the dispatcher that may overlap
  MaxPacks,         \* packs one session may buy
  Money,            \* what the wallet holds, in packs
  MaxFails          \* bound: calls that fail, workers that stop

Events == Swipes \cup Queries

ASSUME CardDispatchConstants ==
  /\ Swipes \cap Queries = {}
  /\ IsFiniteSet(Events) /\ IsFiniteSet(Workers)
  /\ "nobody" \notin Workers
  /\ MaxPacks \in Nat \ {0} /\ {Money, MaxFails} \subseteq Nat

VARIABLES
  row,      \* card_event_delivery.status
  due,      \* rows whose next_attempt_at has passed
  reply,    \* card_event_delivery.response_json
  told,     \* what the board was told of an event
  worker,   \* the event a round is working on, how far, and what it decided
  calls,    \* requests at /cards/swipe, and who waits for them
  op,       \* card_operation: swipes that were charged
  session,  \* card_charge of the port
  balance,  \* wallet_account, in packs
  card,     \* online_card.status: active or not
  online,   \* whether the board is connected
  stale,    \* swipes that are older than 30 seconds
  overlap,  \* events taken up while an earlier round was still about them
  fails

deliveryVars == <<row, due, reply, told>>
tradeVars == <<op, session, balance, card>>
worldVars == <<online, stale>>
cardVars == <<deliveryVars, worker, calls, tradeVars, worldVars, overlap, fails>>

Idle == [at |-> "idle", event |-> "none", got |-> "none"]
NoSession == [stage |-> "none", packs |-> 0]

CardInit ==
  /\ row = [e \in Events |-> "none"]
  /\ due = {}
  /\ reply = [e \in Events |-> "none"]
  /\ told = [e \in Events |-> {}]
  /\ worker = [w \in Workers |-> Idle]
  /\ calls = {}
  /\ session \in {NoSession, [stage |-> "charging", packs |-> 1]}   \* an earlier swipe
  /\ op = {} /\ balance = Money /\ card = "active"
  /\ online = TRUE /\ stale = {} /\ overlap = {} /\ fails = 0

-----------------------------------------------------------------------------
(* The board, the charge and the owner of the card                          *)

\* Record stores the event and a row of card_event_delivery together.
RecordCard(e) ==
  /\ online /\ row[e] = "none"
  /\ row' = [row EXCEPT ![e] = "pending"]
  /\ due' = due \cup {e}
  /\ UNCHANGED <<reply, told, worker, calls, tradeVars, worldVars, overlap, fails>>

Ages(e) ==
  /\ row[e] = "pending" /\ e \in Swipes
  /\ stale' = stale \cup {e}
  /\ UNCHANGED <<deliveryVars, worker, calls, tradeVars, online, overlap, fails>>

Link ==
  /\ online' = ~online
  /\ UNCHANGED <<deliveryVars, worker, calls, tradeVars, stale, overlap, fails>>

SessionGoesOn ==
  /\ session.stage # "none"
  /\ session' = IF session.stage = "paid" THEN [session EXCEPT !.stage = "charging"]
                ELSE NoSession
  /\ UNCHANGED <<deliveryVars, worker, calls, op, balance, card, worldVars, overlap, fails>>

\* Lost or unbound: the card does not come back by itself.
CardStatus ==
  /\ card = "active"
  /\ card' = "lost"
  /\ UNCHANGED <<deliveryVars, worker, calls, op, session, balance, worldVars, overlap, fails>>

FallsDue(e) ==
  /\ row[e] = "pending"
  /\ due' = due \cup {e}
  /\ UNCHANGED <<row, reply, told, worker, calls, tradeVars, worldVars, overlap, fails>>

-----------------------------------------------------------------------------
(* Central                                                                  *)

\* The transaction: it holds the card, looks for an operation of this event
\* again, and either adds a pack to the session of the port or starts one.
Extends == session.stage = "charging" /\ session.packs < MaxPacks
Starts(c) == session.stage = "none" /\ c.rule
Sells(c) == c.event \notin op /\ card = "active" /\ balance > 0 /\ (Extends \/ Starts(c))

Sell(c) ==
  IF Sells(c)
  THEN /\ op' = op \cup {c.event}
       /\ balance' = balance - 1
       /\ session' = [stage |-> IF Extends THEN "charging" ELSE "paid",
                      packs |-> session.packs + 1]
  ELSE UNCHANGED <<op, balance, session>>

\* An answer reaches the caller, unless there is none any more or it is lost.
Answer(c, result) ==
  /\ calls' = calls \ {c}
  /\ worker' = IF c.caller \in Workers
               THEN [worker EXCEPT ![c.caller].at = "freeze", ![c.caller].got = result]
               ELSE worker

\* Mutant: the age of the event is looked at before the operation.
FirstAnswer_AgeFirst(c) ==
  IF c.event \in stale \/ ~online THEN "denied"
  ELSE IF c.event \in op THEN "accepted" ELSE "unknown"

\* Before the transaction: the operation of this event, its age, the board.
FirstAnswer(c) ==
  IF c.event \in op THEN "accepted"
  ELSE IF c.event \in stale \/ ~online THEN "denied"
  ELSE "unknown"

\* Only a port without a session is given the scheme that is on sale.
SwipeReads(c) ==
  /\ c \in calls /\ c.at = "reading"
  /\ IF FirstAnswer(c) # "unknown" THEN Answer(c, FirstAnswer(c))
     ELSE /\ calls' = (calls \ {c}) \cup
                        {[c EXCEPT !.at = "selling", !.rule = session.stage = "none"]}
          /\ UNCHANGED worker
  /\ UNCHANGED <<deliveryVars, tradeVars, worldVars, overlap, fails>>

SwipeSells(c) ==
  /\ c \in calls /\ c.at = "selling"
  /\ Sell(c)
  /\ Answer(c, IF c.event \in op \/ Sells(c) THEN "accepted" ELSE "denied")
  /\ UNCHANGED <<deliveryVars, card, worldVars, overlap, fails>>

\* A request whose caller has gone is cut short, if the server hears of it.
Cancelled(c) ==
  /\ c \in calls /\ c.caller = "nobody"
  /\ calls' = calls \ {c}
  /\ UNCHANGED <<deliveryVars, worker, tradeVars, worldVars, overlap, fails>>

-----------------------------------------------------------------------------
(* The dispatcher                                                           *)

Go(w, at) == worker' = [worker EXCEPT ![w].at = at]
At(w, at) == worker[w].at = at
EventOf(w) == worker[w].event

Onward(result) == IF result = "accepted" THEN "finish" ELSE "send"

\* Run takes what is due; a reply that is frozen is not decided again.
Take(w, e) ==
  /\ At(w, "idle")
  /\ row[e] = "pending" /\ e \in due
  /\ worker' = [worker EXCEPT ![w] =
       [at |-> IF reply[e] = "none" THEN "decide" ELSE Onward(reply[e]),
        event |-> e, got |-> reply[e]]]
  /\ overlap' = IF (\E v \in Workers : EventOf(v) = e) \/ (\E c \in calls : c.event = e)
                THEN overlap \cup {e} ELSE overlap
  /\ UNCHANGED <<deliveryVars, calls, tradeVars, worldVars, fails>>

Ask(w) ==
  /\ At(w, "decide") /\ EventOf(w) \in Swipes
  /\ calls' = calls \cup {[event |-> EventOf(w), at |-> "reading", rule |-> FALSE, caller |-> w]}
  /\ Go(w, "asked")
  /\ UNCHANGED <<deliveryVars, tradeVars, worldVars, overlap, fails>>

AskBalance(w) ==
  /\ At(w, "decide") /\ EventOf(w) \in Queries
  /\ worker' = [worker EXCEPT ![w] = [at |-> "freeze", event |-> EventOf(w), got |-> "balance"]]
  /\ UNCHANGED <<deliveryVars, calls, tradeVars, worldVars, overlap, fails>>

\* Mutant: the round goes on with its own decision.
DecideFinish_Own(w) ==
  LET e == EventOf(w) IN
  /\ At(w, "freeze")
  /\ reply' = IF reply[e] = "none" THEN [reply EXCEPT ![e] = worker[w].got] ELSE reply
  /\ Go(w, Onward(worker[w].got))
  /\ UNCHANGED <<row, due, told, calls, tradeVars, worldVars, overlap, fails>>

\* decide-finish: the first reply stays, and every round goes on with it.
DecideFinish(w) ==
  LET e == EventOf(w) IN
  /\ At(w, "freeze")
  /\ reply' = IF reply[e] = "none" THEN [reply EXCEPT ![e] = worker[w].got] ELSE reply
  /\ worker' = [worker EXCEPT ![w].at = Onward(reply'[e]), ![w].got = reply'[e]]
  /\ UNCHANGED <<row, due, told, calls, tradeVars, worldVars, overlap, fails>>

SendReply(w) ==
  /\ At(w, "send") /\ online
  /\ told' = [told EXCEPT ![EventOf(w)] = @ \cup {worker[w].got}]
  /\ Go(w, "finish")
  /\ UNCHANGED <<row, due, reply, calls, tradeVars, worldVars, overlap, fails>>

AdvanceDone(w) ==
  /\ At(w, "finish")
  /\ row' = [row EXCEPT ![EventOf(w)] = "done"]
  /\ worker' = [worker EXCEPT ![w] = Idle]
  /\ UNCHANGED <<due, reply, told, calls, tradeVars, worldVars, overlap, fails>>

Forsaken(w) == {IF c.caller = w THEN [c EXCEPT !.caller = "nobody"] ELSE c : c \in calls}

\* A call fails: the event is asked again in five seconds, whatever the call
\* did.  A board that is away is such a failure.
AdvanceRetry(w) ==
  /\ ~At(w, "idle")
  /\ \/ At(w, "send") /\ ~online /\ UNCHANGED fails
     \/ fails < MaxFails /\ fails' = fails + 1
  /\ due' = due \ {EventOf(w)}
  /\ worker' = [worker EXCEPT ![w] = Idle]
  /\ calls' = Forsaken(w)
  /\ UNCHANGED <<row, reply, told, tradeVars, worldVars, overlap>>

\* The round ends without a word: the worker stops, or a tick-off fails.
RoundEnds(w) ==
  /\ ~At(w, "idle")
  /\ fails < MaxFails /\ fails' = fails + 1
  /\ worker' = [worker EXCEPT ![w] = Idle]
  /\ calls' = Forsaken(w)
  /\ UNCHANGED <<deliveryVars, tradeVars, worldVars, overlap>>

CardNext ==
  \/ \E e \in Events : RecordCard(e) \/ Ages(e) \/ FallsDue(e)
  \/ Link \/ SessionGoesOn \/ CardStatus
  \/ \E c \in calls : SwipeReads(c) \/ SwipeSells(c) \/ Cancelled(c)
  \/ \E w \in Workers :
       \/ Ask(w) \/ AskBalance(w) \/ DecideFinish(w) \/ SendReply(w)
       \/ AdvanceDone(w) \/ AdvanceRetry(w) \/ RoundEnds(w)
       \/ \E e \in Events : Take(w, e)

CardSpec == CardInit /\ [][CardNext]_cardVars

-----------------------------------------------------------------------------
(* Properties                                                               *)

(* The board hears one answer to an event, however many rounds decide it    *)
(* and however often it is sent (cards.go:92-94, worker_sync.go:429).       *)
BoardHearsOneAnswer == \A e \in Events : told[e] \subseteq {reply[e]}

(* What was decided of a swipe is what happened: accepted if and only if    *)
(* the customer paid for it.  A request that is repeated because its answer *)
(* was lost finds the operation first, however old the swipe is by then and *)
(* whatever became of the board; only where a swipe was taken up while an   *)
(* earlier round was still about it may a denial stand beside a purchase    *)
(* (card_http.go:105-118, online_card.go:68-83).                            *)
DecisionIsTrue ==
  \A e \in Swipes :
    /\ reply[e] = "accepted" => e \in op
    /\ reply[e] = "denied" => e \notin op \/ e \in overlap

(* Two rounds that decide one event come to the same fact (cards.go:94,     *)
(* 117).  They do not: the second one may find the swipe too old, or the    *)
(* board away, while the first is still selling.                            *)
SameFact == \A e \in Swipes : reply[e] = "denied" => e \notin op
=============================================================================
