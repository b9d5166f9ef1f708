------------------------------- MODULE Casework -------------------------------
(***************************************************************************)
(* What a customer complains of and who deals with it: fault reports       *)
(* (charge/user_account.go, admin/casework.go) and feedback about a charge *)
(* (charge/feedback.go).  Each operation holds the row of the report, the  *)
(* feedback or the order; only the account a report is given to is looked  *)
(* up before the row is held.                                              *)
(***************************************************************************)
EXTENDS Integers, Sequences, FiniteSets

CONSTANTS
  Faults, Orders,
  Customers,    \* calls that may submit feedback at a time
  Staff,
  MaxFeedback,  \* bound: rows of feedback
  MaxEvents     \* bound: events of a report after which it is not given on

ASSUME CaseworkConstants == IsFiniteSet(Staff) /\ {MaxFeedback, MaxEvents} \subseteq Nat

VARIABLES
  may,        \* the staff who may resolve faults
  fault,      \* device_fault_report: status, assigned_to
  history,    \* device_fault_report_event, oldest first
  dispatch,   \* a dispatch under way: report and account, already looked up
  done,       \* orders that are over
  asking,     \* submitFeedback under way: its order, once the order is held
  feedback    \* feedback rows: order, status

caseVars == <<may, fault, history, dispatch, done, asking, feedback>>
faultVars == <<fault, history, dispatch>>
feedbackVars == <<done, asking, feedback>>

Nobody == "nobody"
NoDispatch == [report |-> "none", to |-> Nobody]

CaseInit ==
  /\ may = Staff
  /\ fault = [f \in Faults |-> [status |-> "none", to |-> Nobody]]
  /\ history = [f \in Faults |-> <<>>]
  /\ dispatch = NoDispatch
  /\ done = {} /\ asking = [c \in Customers |-> "none"] /\ feedback = <<>>

Permission(s) ==
  /\ may' = IF s \in may THEN may \ {s} ELSE may \cup {s}
  /\ UNCHANGED <<faultVars, feedbackVars>>

---------------------------------------------------------------------------
(* Fault reports                                                           *)

Event(f, type, by, to) ==
  history' = [history EXCEPT ![f] = Append(@,
                [type |-> type, by |-> by, from |-> fault[f].status, to |-> to])]

\* There is no account yet the first event could name: it names the customer.
ReportFault(f) ==
  /\ fault[f].status = "none"
  /\ fault' = [fault EXCEPT ![f].status = "open"]
  /\ Event(f, "reported", Nobody, Nobody)
  /\ UNCHANGED <<may, dispatch, feedbackVars>>

LookUp(f, s) ==
  /\ dispatch = NoDispatch /\ s \in may
  /\ Len(history[f]) \in 1..(MaxEvents - 1)
  /\ dispatch' = [report |-> f, to |-> s]
  /\ UNCHANGED <<may, fault, history, feedbackVars>>

Dispatchable(f) == fault[f].status \in {"open", "dispatched"}

\* Giving a report to whom it belongs changes nothing, whatever became of it.
DispatchFault ==
  LET f == dispatch.report IN
  /\ dispatch # NoDispatch
  /\ dispatch' = NoDispatch
  /\ IF Dispatchable(f) /\ fault[f].to # dispatch.to
     THEN /\ fault' = [fault EXCEPT ![f] = [status |-> "dispatched", to |-> dispatch.to]]
          /\ Event(f, IF fault[f].to = Nobody THEN "dispatched" ELSE "reassigned",
                   Nobody, dispatch.to)
     ELSE UNCHANGED <<fault, history>>
  /\ UNCHANGED <<may, feedbackVars>>

\* Mutant: whoever may resolve faults may resolve this one.
MayResolve_Any(f, s) == s \in may

MayResolve(f, s) == s \in may /\ fault[f].to = s

\* First fixed, then closed, both by the account the report belongs to.
ResolveFault(f, s) ==
  /\ MayResolve(f, s)
  /\ \/ fault[f].status = "dispatched" /\ fault' = [fault EXCEPT ![f].status = "fixed"]
     \/ fault[f].status = "fixed" /\ fault' = [fault EXCEPT ![f].status = "closed"]
  /\ Event(f, fault'[f].status, s, s)
  /\ UNCHANGED <<may, dispatch, feedbackVars>>

---------------------------------------------------------------------------
(* Feedback                                                                *)

OrderEnds(o) ==
  /\ done' = done \cup {o}
  /\ UNCHANGED <<may, faultVars, asking, feedback>>

\* The row of the order, from the check to the feedback that is stored.
Held(o) == \E c \in Customers : asking[c] = o

Known(o) == \E i \in DOMAIN feedback : feedback[i].order = o

SubmitFeedback(c, o) ==
  /\ asking[c] = "none" /\ o \in done /\ ~Held(o) /\ ~Known(o)
  /\ asking' = [asking EXCEPT ![c] = o]
  /\ UNCHANGED <<may, faultVars, done, feedback>>

StoreFeedback(c) ==
  /\ asking[c] # "none" /\ Len(feedback) < MaxFeedback
  /\ \/ feedback' = Append(feedback, [order |-> asking[c], status |-> "pending"])
     \/ UNCHANGED feedback
  /\ asking' = [asking EXCEPT ![c] = "none"]
  /\ UNCHANGED <<may, faultVars, done>>

\* A reply is given once, to feedback that waits; closing is for ever.
ReplyFeedback(i) ==
  /\ feedback[i].status = "pending"
  /\ feedback' = [feedback EXCEPT ![i].status = "processed"]
  /\ UNCHANGED <<may, faultVars, done, asking>>

CloseFeedback(i) ==
  /\ feedback[i].status # "closed"
  /\ feedback' = [feedback EXCEPT ![i].status = "closed"]
  /\ UNCHANGED <<may, faultVars, done, asking>>

CaseNext ==
  \/ \E s \in Staff : Permission(s)
  \/ \E f \in Faults :
       ReportFault(f) \/ \E s \in Staff : LookUp(f, s) \/ ResolveFault(f, s)
  \/ DispatchFault
  \/ \E o \in Orders : OrderEnds(o) \/ \E c \in Customers : SubmitFeedback(c, o)
  \/ \E c \in Customers : StoreFeedback(c)
  \/ \E i \in DOMAIN feedback : ReplyFeedback(i) \/ CloseFeedback(i)

CaseSpec == CaseInit /\ [][CaseNext]_caseVars

---------------------------------------------------------------------------
(* Properties                                                              *)

Steps(f, type) == {i \in DOMAIN history[f] : history[f][i].type = type}

(* A report that is closed was fixed, by the account that closed it, and    *)
(* that account was the last one the report was given to: a report that     *)
(* changes hands is fixed anew, and the history shows both steps            *)
(* (casework.go:215-217).                                                   *)
FixerCloses ==
  \A f \in Faults : fault[f].status = "closed" =>
    \E i \in Steps(f, "fixed"), j \in Steps(f, "closed") :
      /\ j = i + 1 /\ history[f][i].by = history[f][j].by
      /\ history[f][i - 1].to = history[f][i].by

(* One order has one feedback, however many calls submit it at a time       *)
(* (feedback.go:22-23).                                                     *)
OneFeedbackPerOrder ==
  \A i, j \in DOMAIN feedback : feedback[i].order = feedback[j].order => i = j

(* Both, for the run: who closed a report had fixed it, and an order is     *)
(* rated once (casework.go:215-217, feedback.go:22-23).                     *)
CasesAreKept == FixerCloses /\ OneFeedbackPerOrder
=============================================================================
