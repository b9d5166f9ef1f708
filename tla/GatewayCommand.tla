--------------------------- MODULE GatewayCommand ---------------------------
(***************************************************************************)
(* What the gateway persists about charges: the START command of each      *)
(* order, the user STOP command of each order, the occupation of each      *)
(* port, and the recorded end-of-charge events.  Each action is one        *)
(* gateway_db transaction of internal/gateway/store or of the worker-sync  *)
(* handlers in internal/gateway/control; nothing here touches the network. *)
(*                                                                         *)
(* Updates are conditional (UPDATE ... WHERE status ...): an update whose  *)
(* condition fails changes no row and is not an error unless requireOne    *)
(* guards it, which is where the model has an enabling condition.          *)
(***************************************************************************)
EXTENDS ChargeBase, Sequences, Integers

VARIABLES
    cmd,         \* charge_command.status; "none" before the row exists
    result,      \* charge_command.result_code: "ok" 0, "refused" 1..3,
                 \*   "compensated" 254
    reported,    \* orders whose command has result_reported
    portStatus,  \* device_port.status
    holder,      \* device_port.current_order_id
    userStop,    \* charge_stop_command.status
    events,      \* device_event rows of recorded BBs, by id
    processed    \* orders whose BB has processed_at

commandVars == <<cmd, result, reported>>
portVars    == <<portStatus, holder>>
eventVars   == <<events, processed>>
gatewayVars == <<commandVars, portVars, userStop, eventVars>>

CmdStatus  == {"none", "pending", "sent", "acked", "stopping", "rejected"}
StopStatus == {"none", "pending", "sent", "acked", "rejected"}

GatewayTypeOK ==
    /\ cmd \in [Orders -> CmdStatus]
    /\ result \in [Orders -> {"none", "ok", "refused", "compensated"}]
    /\ reported \subseteq Orders
    /\ portStatus \in [Ports -> {"idle", "charging"}]
    /\ holder \in [Ports -> Holders]
    /\ userStop \in [Orders -> StopStatus]
    /\ events \in Seq(Orders)
    /\ processed \subseteq Orders

GatewayInit ==
    /\ cmd = [o \in Orders |-> "none"]
    /\ result = [o \in Orders |-> "none"]
    /\ reported = {}
    /\ portStatus = [p \in Ports |-> "idle"]
    /\ holder = [p \in Ports |-> NoOrder]
    /\ userStop = [o \in Orders |-> "none"]
    /\ events = <<>>
    /\ processed = {}

-----------------------------------------------------------------------------
(* UPDATE charge_command SET status = to WHERE status IN from.              *)
Moved(o, from, to) ==
    [cmd EXCEPT ![o] = IF @ \in from THEN to ELSE @]

PortIdleFor(o, who) ==
    portStatus[PortOf[o]] = "idle" /\ holder[PortOf[o]] = who

(* UPDATE device_port SET current_order_id = NULL WHERE it is o AND idle.   *)
Unreserved(o) ==
    [holder EXCEPT ![PortOf[o]] = IF PortIdleFor(o, o) THEN NoOrder ELSE @]

(* Mutant: current_order_id IS NULL is not asked for.                       *)
ReserveStartOnIdle(o) ==
    /\ cmd[o] = "none"
    /\ portStatus[PortOf[o]] = "idle"
    /\ cmd' = [cmd EXCEPT ![o] = "pending"]
    /\ holder' = [holder EXCEPT ![PortOf[o]] = o]
    /\ UNCHANGED <<result, reported, portStatus, userStop, eventVars>>

(***************************************************************************)
(* Starting: charge_start.go                                               *)
(***************************************************************************)
ReserveStart(o) ==
    /\ cmd[o] = "none"
    /\ PortIdleFor(o, NoOrder)
    /\ cmd' = [cmd EXCEPT ![o] = "pending"]
    /\ holder' = [holder EXCEPT ![PortOf[o]] = o]
    /\ UNCHANGED <<result, reported, portStatus, userStop, eventVars>>

(* Mutant: a command already sent may be sent again.                        *)
MarkStartSentAgain(o) ==
    /\ cmd[o] \in {"pending", "sent"}
    /\ cmd' = Moved(o, {"pending"}, "sent")
    /\ UNCHANGED <<result, reported, portVars, userStop, eventVars>>

MarkStartSent(o) ==
    /\ cmd[o] = "pending"
    /\ cmd' = Moved(o, {"pending"}, "sent")
    /\ UNCHANGED <<result, reported, portVars, userStop, eventVars>>

(* Mutant: a failed Send is taken for a START that never arrived.           *)
MarkStartStoppingFreeing(o) ==
    /\ cmd' = Moved(o, {"sent", "acked"}, "stopping")
    /\ holder' = Unreserved(o)
    /\ UNCHANGED <<result, reported, portStatus, userStop, eventVars>>

(* Send reported an error: what the device received is unknown.             *)
MarkStartStopping(o) ==
    /\ cmd' = Moved(o, {"sent", "acked"}, "stopping")
    /\ UNCHANGED <<result, reported, portVars, userStop, eventVars>>

(***************************************************************************)
(* Record of a START acknowledgement: applyStartAck                        *)
(***************************************************************************)
StartAckConfirms(o) ==
    /\ cmd[o] = "sent"
    /\ cmd' = Moved(o, {"sent"}, "acked")
    /\ result' = [result EXCEPT ![o] = "ok"]
    /\ PortIdleFor(o, o)
    /\ portStatus' = [portStatus EXCEPT ![PortOf[o]] = "charging"]
    /\ UNCHANGED <<reported, holder, userStop, eventVars>>

StartAckRejects(o) ==
    /\ cmd[o] \in {"sent", "stopping"}
    /\ cmd' = Moved(o, {"sent", "stopping"}, "rejected")
    /\ result' = [result EXCEPT ![o] = "refused"]
    /\ holder' = Unreserved(o)
    /\ UNCHANGED <<reported, portStatus, userStop, eventVars>>

(* Mutant: the result code of the acknowledgement is not looked at.         *)
StartAckTakenAsYes(o, ok) ==
    \/ StartAckConfirms(o)
    \/ cmd[o] # "sent" /\ UNCHANGED gatewayVars

StartAckRecorded(o, ok) ==
    \/ ok /\ StartAckConfirms(o)
    \/ ~ok /\ StartAckRejects(o)
    \/ /\ cmd[o] \notin (IF ok THEN {"sent"} ELSE {"sent", "stopping"})
       /\ UNCHANGED gatewayVars

(***************************************************************************)
(* Compensation: compensation.go, applyStopAck                             *)
(***************************************************************************)
CompensateStart(o) ==
    /\ cmd[o] # "none"
    /\ cmd' = [cmd EXCEPT ![o] = CASE @ = "pending"  -> "rejected"
                                   [] @ = "rejected" -> "rejected"
                                   [] OTHER          -> "stopping"]
    /\ result' = [result EXCEPT ![o] =
                    IF cmd[o] = "pending" THEN "compensated" ELSE @]
    /\ holder' = IF cmd[o] = "pending" THEN Unreserved(o) ELSE holder
    /\ UNCHANGED <<reported, portStatus, userStop, eventVars>>

(* The accepted STOP of a stopping command frees the port it still holds;   *)
(* when it holds it no longer, Record fails and its transaction rolls back. *)
StopAckApplies(o, accepted) == accepted /\ cmd[o] = "stopping"

StopAckFails(o, accepted) ==
    StopAckApplies(o, accepted) /\ holder[PortOf[o]] # o

(* Mutant: the command is closed and the port forgotten.                    *)
StopAckKeepsPort(o, accepted) ==
    \/ /\ StopAckApplies(o, accepted)
       /\ holder[PortOf[o]] = o
       /\ cmd' = Moved(o, {"stopping"}, "rejected")
       /\ result' = [result EXCEPT ![o] = "compensated"]
       /\ UNCHANGED <<reported, portVars, userStop, eventVars>>
    \/ ~StopAckApplies(o, accepted) /\ UNCHANGED gatewayVars

StopAckRecorded(o, accepted) ==
    \/ /\ StopAckApplies(o, accepted)
       /\ holder[PortOf[o]] = o
       /\ cmd' = Moved(o, {"stopping"}, "rejected")
       /\ result' = [result EXCEPT ![o] = "compensated"]
       /\ portStatus' = [portStatus EXCEPT ![PortOf[o]] = "idle"]
       /\ holder' = [holder EXCEPT ![PortOf[o]] = NoOrder]
       /\ UNCHANGED <<reported, userStop, eventVars>>
    \/ ~StopAckApplies(o, accepted) /\ UNCHANGED gatewayVars

(***************************************************************************)
(* The user's STOP: user_stop.go, applyUserStopAck                         *)
(***************************************************************************)
ReserveUserStop(o, sent) ==
    /\ userStop[o] = "none"
    /\ cmd[o] = "acked"
    /\ portStatus[PortOf[o]] = "charging" /\ holder[PortOf[o]] = o
    /\ userStop' = [userStop EXCEPT ![o] = IF sent THEN "sent" ELSE "pending"]
    /\ UNCHANGED <<commandVars, portVars, eventVars>>

MarkUserStopSent(o) ==
    /\ userStop[o] \in {"pending", "sent"}
    /\ userStop' = [userStop EXCEPT ![o] = "sent"]
    /\ UNCHANGED <<commandVars, portVars, eventVars>>

UserStopAckRecorded(o, accepted) ==
    /\ userStop' = [userStop EXCEPT ![o] =
           IF @ # "sent" THEN @ ELSE IF accepted THEN "acked" ELSE "rejected"]
    /\ UNCHANGED <<commandVars, portVars, eventVars>>

(***************************************************************************)
(* End events: Record, releasePort, mark-processed, mark-reported          *)
(***************************************************************************)
Recorded == {events[i] : i \in DOMAIN events}

(* eventKey makes a resent BB the same event, inserted once.                *)
EndRecorded(o) ==
    /\ events' = IF o \in Recorded THEN events ELSE Append(events, o)
    /\ UNCHANGED <<commandVars, portVars, userStop, processed>>

(* Mutant: current_order_id is not compared.                                *)
ReleaseFreesAnyone(o) == portStatus[PortOf[o]] = "charging"

ReleaseFrees(o) ==
    portStatus[PortOf[o]] = "charging" /\ holder[PortOf[o]] = o

(* 409 unless the port is charging for o, or idle with no order.            *)
ReleaseConflict(o) == ~ReleaseFrees(o) /\ ~PortIdleFor(o, NoOrder)

ReleasePort(o) ==
    /\ ~ReleaseConflict(o)
    /\ portStatus' = [portStatus EXCEPT ![PortOf[o]] = "idle"]
    /\ holder' = [holder EXCEPT ![PortOf[o]] = NoOrder]
    /\ UNCHANGED <<commandVars, userStop, eventVars>>

MarkProcessed(S) ==
    /\ processed' = processed \cup S
    /\ UNCHANGED <<commandVars, portVars, userStop, events>>

MarkReported(S) ==
    /\ reported' = reported \cup {o \in S : cmd[o] \in {"acked", "rejected"}}
    /\ UNCHANGED <<cmd, result, portVars, userStop, eventVars>>

-----------------------------------------------------------------------------
(* The two tables that decide who may use a port agree.  A command that has *)
(* not been answered holds its port, idle, so that no second START can be   *)
(* reserved on it while the device may still act on the first; a port that  *)
(* shows charging is held by an order the device confirmed.                 *)
UnansweredHoldsPort ==
    \A o \in Orders : cmd[o] \in {"pending", "sent"} => PortIdleFor(o, o)

HolderIsLive ==
    \A p \in Ports : holder[p] # NoOrder =>
        /\ PortOf[holder[p]] = p
        /\ cmd[holder[p]] \in {"pending", "sent", "acked", "stopping"}

ChargingPortIsHeld ==
    \A p \in Ports : portStatus[p] = "charging" =>
        holder[p] # NoOrder /\ cmd[holder[p]] \in {"acked", "stopping"}

PortOwnership == UnansweredHoldsPort /\ HolderIsLive /\ ChargingPortIsHeld
=============================================================================
