------------------------------- MODULE Invoice -------------------------------
(***************************************************************************)
(* The invoice of a settled charge: applied for by the customer, issued by *)
(* two finance administrators, rejected by one.                            *)
(*                                                                         *)
(* Every HTTP call is taken apart where another call may come between: an  *)
(* application counts the requests of its order and inserts its own row    *)
(* afterwards; a reviewer's rights are looked at when the call arrives and *)
(* the request row is locked later.                                        *)
(***************************************************************************)
EXTENDS Integers, FiniteSets

CONSTANTS
    Charges,
    Requests,    \* invoice requests, by the request number the client chose
    OrderOf,     \* Requests -> the order the client names
    Reviewers,   \* administrators
    Urls         \* links to an issued invoice

ASSUME InvoiceAssumption == OrderOf \in [Requests -> Charges]

VARIABLES
    billed,      \* orders that have ended and have a fee receipt above zero
    applying,    \* requests whose duplicates have been counted, not inserted
    invoice,     \* Requests -> [status, url]
    signed,      \* Requests -> [status, first, url]: the row of the two signatures
    permitted,   \* administrators in the role customer_finance with invoice.review
    reviewing,   \* Reviewers -> the call on its way
    posted       \* every approval posted with the right to: <<reviewer, request, url>>

invoiceVars == <<billed, applying, invoice, signed, permitted, reviewing, posted>>

Nothing == "none"
NoReview == [op |-> "none"]

InvoiceInit ==
    /\ billed = {}
    /\ applying = {}
    /\ invoice = [q \in Requests |-> [status |-> "none", url |-> Nothing]]
    /\ signed = [q \in Requests |-> [status |-> "none", first |-> Nothing, url |-> Nothing]]
    /\ permitted = Reviewers
    /\ reviewing = [r \in Reviewers |-> NoReview]
    /\ posted = {}

Applied(o) == {q \in Requests : OrderOf[q] = o /\ invoice[q].status # "none"}

\* The charge has ended and its fee is known.
Billed(o) ==
    /\ o \notin billed
    /\ billed' = billed \union {o}
    /\ UNCHANGED <<applying, invoice, signed, permitted, reviewing, posted>>

\* The count sees a request in any state: a rejected one still stands in the way.
ApplyCounts(q) ==
    /\ OrderOf[q] \in billed
    /\ q \notin applying
    /\ Applied(OrderOf[q]) = {}
    /\ applying' = applying \union {q}
    /\ UNCHANGED <<billed, invoice, signed, permitted, reviewing, posted>>

\* The order number is not unique among the requests.
ApplyInserts(q) ==
    /\ q \in applying
    /\ applying' = applying \ {q}
    /\ invoice' = [invoice EXCEPT ![q].status = "pending"]
    /\ UNCHANGED <<billed, signed, permitted, reviewing, posted>>

ApplyFails(q) ==
    /\ q \in applying
    /\ applying' = applying \ {q}
    /\ UNCHANGED <<billed, invoice, signed, permitted, reviewing, posted>>

\* An administrator's role or right is given or taken away.
Regrade(r) ==
    /\ permitted' = IF r \in permitted THEN permitted \ {r} ELSE permitted \union {r}
    /\ UNCHANGED <<billed, applying, invoice, signed, reviewing, posted>>

\* reviewInvoice up to the transaction: the caller holds the right now.
Post(r, q, op, url) ==
    /\ r \in permitted /\ reviewing[r] = NoReview
    /\ invoice[q].status # "none"
    /\ reviewing' = [reviewing EXCEPT ![r] = [op |-> op, request |-> q, url |-> url]]
    /\ posted' = IF op = "approve" THEN posted \union {<<r, q, url>>} ELSE posted
    /\ UNCHANGED <<billed, applying, invoice, signed, permitted>>

Answered(r) == reviewing' = [reviewing EXCEPT ![r] = NoReview]

\* The transaction of a call, on the locked request row.
OnLocked(r, op, q) ==
    /\ reviewing[r].op = op /\ reviewing[r].request = q
    /\ invoice[q].status = "pending"
    /\ Answered(r)

SignFirst(r, q) ==
    /\ OnLocked(r, "approve", q)
    /\ signed[q].first = Nothing
    /\ signed' = [signed EXCEPT ![q] =
            [status |-> "awaiting_second", first |-> r, url |-> reviewing[r].url]]
    /\ UNCHANGED <<billed, applying, invoice, permitted, posted>>

\* A plausible slip: the first signature is taken as it was given.
MaySign_Stale(r, q) ==
    /\ signed[q].first \notin {Nothing, r}
    /\ signed[q].status = "awaiting_second"
    /\ signed[q].url = reviewing[r].url

\* What the second signature demands of the first.
MaySign(r, q) ==
    /\ signed[q].first \notin {Nothing, r}
    /\ signed[q].status = "awaiting_second"
    /\ signed[q].url = reviewing[r].url
    /\ signed[q].first \in permitted

SignSecond(r, q) ==
    /\ OnLocked(r, "approve", q)
    /\ MaySign(r, q)
    /\ signed' = [signed EXCEPT ![q].status = "approved"]
    /\ invoice' = [invoice EXCEPT ![q] = [status |-> "issued", url |-> reviewing[r].url]]
    /\ UNCHANGED <<billed, applying, permitted, posted>>

RejectInvoice(r, q) ==
    /\ OnLocked(r, "reject", q)
    /\ signed[q].status \in {"none", "awaiting_second"}
    /\ signed' = [signed EXCEPT ![q] =
            [status |-> "rejected", first |-> signed[q].first, url |-> Nothing]]
    /\ invoice' = [invoice EXCEPT ![q].status = "rejected"]
    /\ UNCHANGED <<billed, applying, permitted, posted>>

\* A conflict, or a transaction that fails: nothing is written.
ReviewFails(r) ==
    /\ reviewing[r] # NoReview
    /\ Answered(r)
    /\ UNCHANGED <<billed, applying, invoice, signed, permitted, posted>>

InvoiceNext ==
    \/ \E o \in Charges : Billed(o)
    \/ \E q \in Requests : ApplyCounts(q) \/ ApplyInserts(q) \/ ApplyFails(q)
    \/ \E r \in Reviewers :
        \/ Regrade(r)
        \/ ReviewFails(r)
        \/ \E q \in Requests :
            \/ \E url \in Urls : Post(r, q, "approve", url)
            \/ Post(r, q, "reject", Nothing)
            \/ SignFirst(r, q) \/ SignSecond(r, q) \/ RejectInvoice(r, q)

InvoiceSpec == InvoiceInit /\ [][InvoiceNext]_invoiceVars

-----------------------------------------------------------------------------
(* Properties.                                                             *)

\* The request becomes issued in this step by the signatures of two.
IssuedNow(q) ==
    \E first, second \in Reviewers :
        /\ first # second
        /\ {<<first, q, invoice'[q].url>>, <<second, q, invoice'[q].url>>} \subseteq posted
        /\ first \in permitted

\* An invoice is issued only when two different administrators, each with the
\* right to at the time, have posted the same link, the first of whom still
\* holds that right; and an issued or rejected request stays as it is, whatever
\* call arrives late (settlement/invoice_review.go Review).
IssuedByTwo ==
    [][\A q \in Requests :
        /\ invoice'[q].status = "issued" => invoice[q].status = "issued" \/ IssuedNow(q)
        /\ invoice[q].status \in {"issued", "rejected"} => invoice'[q] = invoice[q]
      ]_invoiceVars

\* What user_account.go says of applyInvoice: one charge, one invoice.
OneInvoicePerOrder ==
    \A o \in Charges : Cardinality(Applied(o)) <= 1
=============================================================================
