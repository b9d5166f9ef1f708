------------------------------- MODULE Reconcile -------------------------------
(***************************************************************************)
(* The daily reconciliation (admin/finance_ops.go): an operator posts what *)
(* a channel reports of one day, it is compared reference by reference     *)
(* with the books, and the result replaces the one of the same kind and    *)
(* day.  The books move while a comparison is made.  A behaviour is about  *)
(* one kind and one day.                                                   *)
(***************************************************************************)
EXTENDS Integers, FiniteSets, Functions

CONSTANTS
  Refs,       \* order, refund, settlement or withdrawal numbers
  Cents,      \* amounts of a row
  Reports,    \* what a channel may report: a bag of rows, as a sequence
  Runs        \* comparisons that may overlap

ASSUME ReconcileConstants ==
  /\ IsFiniteSet(Refs) /\ Cents \subseteq Nat
  /\ \A list \in Reports : /\ IsFiniteSet(DOMAIN list)
                             /\ \A i \in DOMAIN list : list[i].cents \in Int

VARIABLES
  kind,        \* wechat_pay, wechat_refund, split or withdraw
  books,       \* rows of the day: payment_order, refund_record, ...
  comparison,  \* runReconcile under way: what it has read, and the report
  log          \* finance_reconcile_log of the kind and day

reconcileVars == <<kind, books, comparison, log>>

NoEntry == [status |-> "none", cents |-> 0]
NotRunning == [at |-> "idle", report |-> <<>>, internal |-> <<>>]
NoResult == [internal |-> <<>>, channel |-> <<>>, diffs |-> {}, cents |-> 0, resolved |-> FALSE]

\* The statuses a row goes through, kind by kind.
Statuses(k) ==
  CASE k = "wechat_pay" -> {"initiated", "paid", "partial_refunded", "refunded"}
    [] k = "wechat_refund" -> {"pending", "processing", "success", "failed", "rejected"}
    [] OTHER -> {"created"}

\* internalRefunds, internalPayments, internalSplits, internalWithdraws: the
\* rows of the books that count.
Counted(k) ==
  CASE k = "wechat_pay" -> {"paid", "partial_refunded", "refunded"}
    [] k = "wechat_refund" -> {"succeeded"}
    [] OTHER -> {"created"}

\* indexAmounts: amounts by reference.
Internal ==
  [ref \in {r \in Refs : books[r].status \in Counted(kind)} |-> books[ref].cents]

\* The rows of a report that name one reference are added up.
Channel(report) ==
  [ref \in {report[i].ref : i \in DOMAIN report} |->
     SumFunctionOnSet([i \in DOMAIN report |-> report[i].cents],
                      {i \in DOMAIN report : report[i].ref = ref})]

Total(amounts) == SumFunction(amounts)
Cents_(amounts, ref) == IF ref \in DOMAIN amounts THEN amounts[ref] ELSE 0

\* Mutant: the references of the books are all that is looked at.
Compare_Books(internal, channel) ==
  LET diffs == {ref \in DOMAIN internal : Cents_(channel, ref) # internal[ref]}
  IN  [diffs |-> diffs,
       cents |-> Total([ref \in diffs |-> Cents_(channel, ref) - Cents_(internal, ref)])]

\* First the references of the books, then what only the channel has.
Compare(internal, channel) ==
  LET differ == {ref \in DOMAIN internal : Cents_(channel, ref) # internal[ref]}
      unknown == DOMAIN channel \ DOMAIN internal
  IN  [diffs |-> differ \cup unknown,
       cents |-> Total([ref \in differ \cup unknown |->
                          Cents_(channel, ref) - Cents_(internal, ref)])]

ReconcileInit ==
  /\ kind \in {"wechat_pay", "wechat_refund", "split", "withdraw"}
  /\ books = [r \in Refs |-> NoEntry]
  /\ comparison = [c \in Runs |-> NotRunning]
  /\ log = NoResult

\* The rest of the system: a row appears, its status changes.
BooksMove(r) ==
  /\ \E s \in Statuses(kind), n \in Cents :
       /\ books[r] = NoEntry \/ (books[r].cents = n /\ books[r].status # s)
       /\ books' = [books EXCEPT ![r] = [status |-> s, cents |-> n]]
  /\ UNCHANGED <<kind, comparison, log>>

RunReconcile(c, report) ==
  /\ comparison[c] = NotRunning
  /\ comparison' = [comparison EXCEPT ![c] =
                      [at |-> "compared", report |-> report, internal |-> Internal]]
  /\ UNCHANGED <<kind, books, log>>

\* One row for a kind and a day; the result of a run takes the place of the
\* one before, which was perhaps resolved, whichever read the books later.
ReconcileType(c) ==
  /\ comparison[c].at = "compared"
  /\ LET internal == comparison[c].internal
         channel == Channel(comparison[c].report)
         found == Compare(internal, channel)
     IN  log' = [internal |-> internal, channel |-> channel,
                 diffs |-> found.diffs, cents |-> found.cents, resolved |-> FALSE]
  /\ comparison' = [comparison EXCEPT ![c] = NotRunning]
  /\ UNCHANGED <<kind, books>>

ResolveReconcile ==
  /\ log # NoResult
  /\ \E resolved \in BOOLEAN : log' = [log EXCEPT !.resolved = resolved]
  /\ UNCHANGED <<kind, books, comparison>>

ReconcileNext ==
  \/ \E r \in Refs : BooksMove(r)
  \/ \E c \in Runs : ReconcileType(c) \/ \E report \in Reports : RunReconcile(c, report)
  \/ ResolveReconcile

ReconcileSpec == ReconcileInit /\ [][ReconcileNext]_reconcileVars

---------------------------------------------------------------------------
(* Properties                                                              *)

(* The difference on record is what the channel has less what the books     *)
(* have, cent for cent; it is spread over the references that are listed,   *)
(* and a reference that is not listed agrees (finance_ops.go:146, 224-248). *)
DiffIsDifference ==
  /\ log.cents = Total(log.channel) - Total(log.internal)
  /\ \A ref \in (DOMAIN log.internal \cup DOMAIN log.channel) \ log.diffs :
       Cents_(log.internal, ref) = Cents_(log.channel, ref)
  /\ \A ref \in log.diffs :
       ref \in DOMAIN log.internal => log.internal[ref] # Cents_(log.channel, ref)

(* A row the channel has settled is in the books as well                    *)
(* (finance_ops.go:262 counts the refunds that are completed).  It is not:  *)
(* the status asked for is one no refund has.                               *)
SettledIsCounted ==
  [][\A c \in Runs : comparison'[c].at = "compared" /\ comparison[c] = NotRunning =>
       \A r \in Refs : books[r].status = "success" => r \in DOMAIN comparison'[c].internal
    ]_reconcileVars
=============================================================================
