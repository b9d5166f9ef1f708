---------------------------- MODULE DeviceAlert ----------------------------
(***************************************************************************)
(* The alert of one fault metric of one device.  The gateway stores fault  *)
(* reports and heartbeats (gateway/control/device_faults.go); once a       *)
(* second central turns new reports into an alert and asks for the latest  *)
(* heartbeat after the fault to see whether it is over                     *)
(* (central/admin/alerts_sync.go, protocol/dc589/fault.go).                *)
(***************************************************************************)
EXTENDS Integers, Sequences, FiniteSets, FiniteSetsExt

CONSTANT MaxEvents  \* bound, at least 1: events the gateway stores

VARIABLES
  events,        \* device_event, in the order received: what each one says
  processed,     \* the reports that are marked
  recorded,      \* those that this round has recorded
  alerts         \* alert_event of the metric, oldest first

vars == <<events, processed, recorded, alerts>>

\* Code 0 says that the fault is over; a heartbeat may come without port states.
Reports == {"fault", "code 0"}
Heartbeats == {"safe", "unsafe", "no states"}

Init ==
  /\ events = <<>>
  /\ processed = {}
  /\ recorded = {}
  /\ alerts = <<>>

Receive ==
  /\ Len(events) < MaxEvents
  /\ \E says \in Reports \cup Heartbeats : events' = Append(events, says)
  /\ UNCHANGED <<processed, recorded, alerts>>

---------------------------------------------------------------------------
(* A round of the synchronisation                                          *)

Latest == alerts[Len(alerts)]
Open == alerts # <<>> /\ Latest.status \in {"active", "acknowledged"}
Known(k) ==
  /\ alerts # <<>>
  /\ \/ k = Latest.event \/ k < Latest.created
     \/ ~Open /\ k <= Latest.resolved

\* recordFault: an open alert takes a later report as its latest; otherwise a
\* report that is not known raises a new one.
RecordFault(k) ==
  /\ events[k] \in Reports /\ k \notin processed \cup recorded
  /\ recorded' = recorded \cup {k}
  /\ alerts' =
       IF events[k] = "code 0" \/ Known(k) THEN alerts
       ELSE IF Open THEN [alerts EXCEPT ![Len(alerts)].event = k]
       ELSE Append(alerts, [created |-> k, event |-> k, status |-> "active", resolved |-> 0])
  /\ UNCHANGED <<events, processed>>

\* The call may fail: the reports are then read and recorded again.
MarkProcessed ==
  /\ recorded # {}
  /\ processed' \in {processed, processed \cup recorded}
  /\ recorded' = {}
  /\ UNCHANGED <<events, alerts>>

\* latestHeartbeat: "after" has to parse, though "after_key" comes before it.
LatestHeartbeat(after, afterKey) ==
  LET later == {k \in DOMAIN events : k > afterKey /\ events[k] \in Heartbeats}
  IN  IF after = "" THEN "bad request"
      ELSE IF later = {} THEN "not found" ELSE events[Max(later)]

\* resolveRecovered sends the key of the alert's latest report, and no "after".
ResolveRecovered ==
  /\ Open
  /\ LatestHeartbeat("", Latest.event) = "safe"
  /\ alerts' = [alerts EXCEPT ![Len(alerts)].status = "auto_resolved",
                              ![Len(alerts)].resolved = Len(events)]
  /\ UNCHANGED <<events, processed, recorded>>

AckAlert ==
  /\ Open
  /\ alerts' = [alerts EXCEPT ![Len(alerts)].status = "acknowledged"]
  /\ UNCHANGED <<events, processed, recorded>>

Next ==
  \/ Receive
  \/ \E k \in DOMAIN events : RecordFault(k)
  \/ MarkProcessed \/ ResolveRecovered \/ AckAlert

Spec ==
  /\ Init /\ [][Next]_vars
  /\ WF_vars(MarkProcessed) /\ WF_vars(ResolveRecovered)
  /\ \A k \in 1..MaxEvents : WF_vars(k \in DOMAIN events /\ RecordFault(k))

---------------------------------------------------------------------------
\* The latest report of the alert is followed by a heartbeat that is safe.
Recovered == Open /\ LatestHeartbeat("any", Latest.event) = "safe"

(* An alert whose fault is over is resolved, or the fault comes back         *)
(* (alerts_sync.go:153-155).                                                 *)
RecoveredIsResolved == Recovered ~> ~Recovered
=============================================================================
