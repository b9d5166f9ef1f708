----------------------------- MODULE MCOutreach -----------------------------
(***************************************************************************)
(* The two ways out of the system side by side.  They share no state, so a *)
(* behaviour follows one of them and lets the other rest in its initial    *)
(* state: the interleavings of the two would show nothing more.            *)
(***************************************************************************)
EXTENDS EventDelivery, RegulatoryReport, TLC

CONSTANTS fault, started, s1, s2, w1, w2

\* An event of device_event_stream, and one of charge_started_stream, whose
\* producer names no type.  s1 subscribes to everything.
TwoEvents == {fault, started}
StreamPlaces == [e \in Events |-> IF e = started THEN 1 ELSE 2]
TwoSubs == {s1, s2}
WantedOnes == [s \in Subs |-> IF s = s1 THEN Events ELSE {fault}]

VARIABLE side

MCInit == Init /\ QueueInit /\ side \in {"webhooks", "regulator"}

MCNext ==
  \/ side = "webhooks" /\ Next /\ UNCHANGED <<side, queueVars>>
  \/ side = "regulator" /\ QueueNext /\ UNCHANGED <<side, vars>>

\* Fairness of the behaviours that are about webhooks.
mcVars == <<side, vars, queueVars>>
OnStream(A) == side = "webhooks" /\ A
MCFairness ==
  /\ WF_vars(OnStream(\E e \in Events : Push(e))) /\ WF_vars(OnStream(Commit))
  /\ SF_vars(OnStream(RunDue))
  /\ WF_vars(OnStream(PassGoesOn)) /\ WF_vars(OnStream(LeaseExpires))

MCSpec == MCInit /\ [][MCNext]_mcVars /\ MCFairness
=============================================================================
