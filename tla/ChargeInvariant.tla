-------------------------- MODULE ChargeInvariant --------------------------
(***************************************************************************)
(* Why the lifecycle is safe: what every reachable state satisfies about   *)
(* the frames in flight and the rows that quote them.  The invariants of   *)
(* ChargeLifecycle follow from it, and no step breaks it.                  *)
(*                                                                         *)
(* A START is written once.  Until it is answered its order holds the      *)
(* port; a STOP for the order travels behind it, so that by the time the   *)
(* board answers the STOP nothing can energise the order any more.         *)
(***************************************************************************)
EXTENDS ChargeLifecycle

Has(seq, x) == \E i \in DOMAIN seq : seq[i] = x

DownHas(kind, o)   == Has(down, DownFrame(kind, o))
UpHas(kind, o, ok) == Has(up, UpFrame(kind, o, ok))

(* Nothing about the order has reached the link yet.                        *)
Untouched(o) ==
    /\ ~DownHas("start", o) /\ ~DownHas("stop", o)
    /\ \A ok \in BOOLEAN : ~UpHas("startack", o, ok) /\ ~UpHas("stopack", o, ok)
    /\ ~EverEnergised(o)
    /\ result[o] = "none"

Unsent ==
    \A o \in Orders :
        /\ cmd[o] \in {"none", "pending"} => handler[o] = "none" /\ Untouched(o)
        /\ handler[o] \in {"marked", "failed"} => cmd[o] = "sent" /\ Untouched(o)

StartTravels ==
    \A o \in Orders : DownHas("start", o) =>
        /\ cmd[o] \in {"sent", "stopping"}
        /\ result[o] = "none"
        /\ holder[PortOf[o]] = o
        /\ ~EverEnergised(o)
        /\ \A ok \in BOOLEAN : ~UpHas("startack", o, ok) /\ ~UpHas("stopack", o, ok)

(* One START per order, and no STOP for the order ahead of it.              *)
StartFirst ==
    \A i, j \in DOMAIN down :
        /\ down[i].kind = "start"
        /\ down[j].kind \in {"start", "stop"}
        /\ down[i].order = down[j].order
        => i <= j

OneAck(seq) ==
    \A i, j \in DOMAIN seq :
        /\ seq[i].kind = "startack" /\ seq[j].kind = "startack"
        /\ seq[i].order = seq[j].order
        => i = j

OneStartAck == OneAck(up)

AckTravels ==
    \A o \in Orders, ok \in BOOLEAN : UpHas("startack", o, ok) =>
        /\ cmd[o] = "rejected" \/ (cmd[o] \in {"sent", "stopping"} /\ result[o] = "none")
        /\ EverEnergised(o) <=> ok

StopTravels ==
    \A o \in Orders :
        /\ DownHas("stop", o) => cmd[o] \in {"stopping", "rejected"}
        /\ \A ok \in BOOLEAN : UpHas("stopack", o, ok) =>
               cmd[o] \in {"stopping", "rejected"} /\ ~Energised(o)

(* A charge that is on has its port and a START the gateway remembers.      *)
RunningIsHeld ==
    \A p \in Ports : running[p] # NoOrder =>
        /\ PortOf[running[p]] = p
        /\ running[p] \notin completed
        /\ holder[p] = running[p]
        /\ cmd[running[p]] \in {"sent", "acked", "stopping"}

ResultIsTrue ==
    \A o \in Orders :
        /\ cmd[o] = "sent" => result[o] = "none"
        /\ cmd[o] = "acked" => result[o] = "ok"
        /\ result[o] = "ok" => EverEnergised(o)
        /\ result[o] = "refused" => cmd[o] = "rejected" /\ ~EverEnergised(o)

ChargingIsConfirmed ==
    \A p \in Ports : portStatus[p] = "charging" =>
        holder[p] # NoOrder /\ result[holder[p]] = "ok"

StartBatchIsTrue ==
    \A r \in startBatch :
        /\ r.ok => EverEnergised(r.order)
        /\ ~r.ok => result[r.order] = "refused"

OrderIsTrue ==
    \A o \in Orders :
        /\ cmd[o] # "none" => order[o] # "none"
        /\ order[o] \in {"none", "paid"} => startReceipt[o] = "none"
        /\ order[o] \in {"charging", "completed"} => startReceipt[o] = "ok"
        /\ order[o] \in {"refunding", "refunded"} => startReceipt[o] = "refused"
        /\ startReceipt[o] = "ok" => EverEnergised(o)
        /\ startReceipt[o] = "refused" => result[o] = "refused"

(* End reports tell of charges that are over, and what was released for     *)
(* them stays released.                                                     *)
EndIsTrue ==
    /\ \A o \in Orders :
           Has(pending, o) \/ Has(events, o) \/ UpHas("end", o, TRUE) \/ UpHas("end", o, FALSE)
             => o \in completed
    /\ endBatch \subseteq completed
    /\ endReceipt \subseteq completed
    /\ endItem # NoOrder => endItem \in endReceipt
    /\ \A o \in endDone \cup processed : o \in endReceipt /\ holder[PortOf[o]] # o
    /\ \A o \in Orders : o \in endReceipt <=> order[o] = "completed"

Consistent ==
    /\ PortOwnership
    /\ Unsent /\ StartTravels /\ StartFirst /\ OneStartAck
    /\ AckTravels /\ StopTravels
    /\ RunningIsHeld /\ ResultIsTrue /\ ChargingIsConfirmed
    /\ StartBatchIsTrue /\ OrderIsTrue /\ EndIsTrue

InductiveInvariant == TypeOK /\ Consistent
=============================================================================
