-------------------------- MODULE RegulatoryReport --------------------------
(***************************************************************************)
(* The queue of reports to the regulator: central leases queued reports to *)
(* a worker (central/admin/delivery_dispatch.go), which sends them one by  *)
(* one and reports the results back (delivery/regulatory.go).  Sending a   *)
(* batch may outlast the lease; the next claim then sends the rest again.  *)
(***************************************************************************)
EXTENDS Integers, FiniteSets

CONSTANTS
  Reports,       \* ids of regulatory_report
  Workers,       \* worker processes
  BatchSize,     \* reports a claim leases (20)
  MaxClaims      \* bound: leases given

ASSUME RegulatoryReportConstants ==
  /\ Reports \subseteq Nat \ {0} /\ IsFiniteSet(Reports) /\ IsFiniteSet(Workers)
  /\ BatchSize \in Nat \ {0} /\ MaxClaims \in Nat

VARIABLES
  report,        \* status, lease_token (0: NULL) and whether lease_until has passed
  tokens,        \* leases given so far
  batch,         \* what a worker has claimed: report, token and result
  arrived        \* reports the regulator has

queueVars == <<report, tokens, batch, arrived>>

QueueInit ==
  /\ report = [r \in Reports |-> [status |-> "none", token |-> 0, leased |-> FALSE]]
  /\ tokens = 0
  /\ batch = [w \in Workers |-> {}]
  /\ arrived = {}

\* INSERT; the same event again changes nothing, whatever its status.
Enqueue(r) ==
  /\ report[r].status = "none"
  /\ report' = [report EXCEPT ![r].status = "queued"]
  /\ UNCHANGED <<tokens, batch, arrived>>

Due == {r \in Reports : report[r].status \in {"queued", "processing"} /\ ~report[r].leased}

\* The first due reports by id, a new token each; the answer may get lost.
Claimed == {r \in Due : Cardinality({x \in Due : x < r}) < BatchSize}
Token(r) == tokens + Cardinality({x \in Claimed : x <= r})

Claim(w) ==
  /\ batch[w] = {} /\ Claimed # {}
  /\ tokens + Cardinality(Claimed) <= MaxClaims
  /\ tokens' = tokens + Cardinality(Claimed)
  /\ report' = [r \in Reports |->
       IF r \in Claimed THEN [status |-> "processing", token |-> Token(r), leased |-> TRUE]
       ELSE report[r]]
  /\ batch' \in {batch, [batch EXCEPT ![w] =
                  {[report |-> r, token |-> Token(r), result |-> "none"] : r \in Claimed}]}
  /\ UNCHANGED arrived

LeaseRunsOut(r) ==
  /\ report[r].leased
  /\ report' = [report EXCEPT ![r].leased = FALSE]
  /\ UNCHANGED <<tokens, batch, arrived>>

\* The next report is sent: it arrives and the answer does, or it counts as
\* failed, arrived or not.
SendReport(w) ==
  \E x \in batch[w] :
    /\ x.result = "none"
    /\ \A y \in batch[w] : y.report < x.report => y.result # "none"
    /\ \E ok \in BOOLEAN :
         /\ batch' = [batch EXCEPT ![w] =
              (@ \ {x}) \cup {[report |-> x.report, token |-> x.token,
                               result |-> IF ok THEN "ok" ELSE "failed"]}]
         /\ arrived' \in {arrived \cup {x.report}} \cup IF ok THEN {} ELSE {arrived}
    /\ UNCHANGED <<report, tokens>>

Sent(w) == batch[w] # {} /\ \A x \in batch[w] : x.result # "none"

\* What the results, taken one by one, make of the reports.
Outcome(results) ==
  [r \in Reports |->
     IF \E x \in results : x.report = r
     THEN [status |-> IF \E x \in results : x.report = r /\ x.result = "ok"
                      THEN "delivered" ELSE "queued",
           token |-> 0, leased |-> FALSE]
     ELSE report[r]]

FinishAnyBatch(w) ==
  /\ Sent(w)
  /\ report' = Outcome(batch[w])
  /\ batch' = [batch EXCEPT ![w] = {}]
  /\ UNCHANGED <<tokens, arrived>>

\* Each result is taken only under the token it was claimed with.
FinishBatch(w) ==
  /\ Sent(w)
  /\ report' = Outcome({x \in batch[w] : x.token = report[x.report].token})
  /\ batch' = [batch EXCEPT ![w] = {}]
  /\ UNCHANGED <<tokens, arrived>>

\* The results do not reach central, or the worker dies: the leases run out.
Drop(w) ==
  /\ batch[w] # {}
  /\ batch' = [batch EXCEPT ![w] = {}]
  /\ UNCHANGED <<report, tokens, arrived>>

QueueNext ==
  \/ \E r \in Reports : Enqueue(r) \/ LeaseRunsOut(r)
  \/ \E w \in Workers : Claim(w) \/ SendReport(w) \/ FinishBatch(w) \/ Drop(w)

QueueSpec == QueueInit /\ [][QueueNext]_queueVars

---------------------------------------------------------------------------
(* A report that is delivered stays so, and has arrived: the failure of a  *)
(* worker whose lease was given to another does not queue it again         *)
(* (delivery_dispatch.go:186-219).                                         *)
DeliveredIsFinal ==
  [][\A r \in Reports :
       /\ report[r].status = "delivered" => report'[r].status = "delivered"
       /\ report'[r].status = "delivered" => r \in arrived']_queueVars
=============================================================================
