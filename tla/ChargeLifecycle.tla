-------------------------- MODULE ChargeLifecycle --------------------------
(***************************************************************************)
(* One paid charge, from the payment to the end receipt, across the four   *)
(* parties that carry it: central (CentralOrder), the gateway's tables     *)
(* (GatewayCommand), the board (DeviceDC589), and the worker that moves    *)
(* facts between central and the gateway.  The parties share no            *)
(* transaction; they meet in HTTP calls and in the frames of one TCP       *)
(* connection, and each may stop between any two of its steps.             *)
(*                                                                         *)
(* The link is FIFO while it is up; losing it loses the frames in flight.  *)
(* A frame a party sends after losing the link is not sent at all.         *)
(***************************************************************************)
EXTENDS CentralOrder, GatewayCommand, DeviceDC589

CONSTANTS
    LateSendError,  \* TRUE: Send(START) may fail after START was written
    AckWriteErrors, \* TRUE: the board may fail to write its answer to a STOP
    MaxFaults,      \* bound on disconnects, crashes, aborts and refusals
    LinkBound       \* bound on the unread frames a timer may add to

ASSUME LateSendErrorAssumption == LateSendError \in BOOLEAN
ASSUME AckWriteErrorsAssumption == AckWriteErrors \in BOOLEAN
ASSUME MaxFaultsAssumption == MaxFaults \in Nat
ASSUME LinkBoundAssumption == LinkBound \in Nat \ {0}

VARIABLES
    conn,        \* the registry holds a session for the board
    down,        \* frames gateway -> board
    up,          \* frames board -> gateway
    handler,     \* StartService.Start in progress for the order
    startBatch,  \* start results the worker fetched and has not posted
    startDone,   \* start results posted and not marked reported
    endBatch,    \* end events the worker fetched and has not posted
    endItem,     \* end event accepted by central, port not yet released
    endDone,     \* end events released and not marked processed
    faults       \* faults so far

linkVars   == <<conn, down, up>>
startVars  == <<startBatch, startDone>>
endVars    == <<endBatch, endItem, endDone>>
workerVars == <<startVars, endVars>>
vars == <<centralVars, gatewayVars, deviceVars, linkVars, handler,
          workerVars, faults>>

DownKinds == {"start", "stop", "userstop", "endreply"}
UpKinds   == {"startack", "stopack", "userstopack", "end"}
DownFrames == [kind : DownKinds, order : Orders]
UpFrames   == [kind : UpKinds, order : Orders, ok : BOOLEAN]
DownFrame(kind, o) == [kind |-> kind, order |-> o]
UpFrame(kind, o, ok) == [kind |-> kind, order |-> o, ok |-> ok]
StartRow(o, ok) == [order |-> o, ok |-> ok]

TypeOK ==
    /\ CentralTypeOK
    /\ GatewayTypeOK
    /\ DeviceTypeOK
    /\ conn \in BOOLEAN
    /\ down \in Seq(DownFrames)
    /\ up \in Seq(UpFrames)
    /\ handler \in [Orders -> {"none", "marked", "written", "failed"}]
    /\ startBatch \subseteq [order : Orders, ok : BOOLEAN]
    /\ startDone \subseteq Orders
    /\ endBatch \subseteq Orders
    /\ endItem \in Holders
    /\ endDone \subseteq Orders
    /\ faults \in 0..MaxFaults

Init ==
    /\ CentralInit
    /\ GatewayInit
    /\ DeviceInit
    /\ conn = TRUE
    /\ down = <<>>
    /\ up = <<>>
    /\ handler = [o \in Orders |-> "none"]
    /\ startBatch = {}
    /\ startDone = {}
    /\ endBatch = {}
    /\ endItem = NoOrder
    /\ endDone = {}
    /\ faults = 0

Fault == faults < MaxFaults /\ faults' = faults + 1

(* What is repeated on a timer is repeated while few frames are unread.     *)
Quiet == Len(down) < LinkBound /\ Len(up) < LinkBound

Send(kind, o) == conn /\ down' = Append(down, DownFrame(kind, o))

(* A best-effort Send: nothing leaves when no session is registered.        *)
TrySend(kind, o) == Send(kind, o) \/ (~conn /\ UNCHANGED down)

DropLink == conn' = FALSE /\ down' = <<>> /\ up' = <<>>

WorkerIdle ==
    /\ startBatch = {} /\ startDone = {}
    /\ endBatch = {} /\ endItem = NoOrder /\ endDone = {}

-----------------------------------------------------------------------------
(* central on its own                                                       *)

Pay(o) ==
    /\ CreatePaidOrder(o)
    /\ UNCHANGED <<gatewayVars, deviceVars, linkVars, handler, workerVars, faults>>

Refund(o) ==
    /\ RefundSucceeded(o)
    /\ UNCHANGED <<gatewayVars, deviceVars, linkVars, handler, workerVars, faults>>

-----------------------------------------------------------------------------
(* PaidStarter.DispatchBatch -> StartService.Start, step by step.  The      *)
(* handler outlives the worker's request, so it is a party of its own.      *)

DispatchReserve(o) ==
    /\ WorkerIdle
    /\ order[o] = "paid"
    /\ ReserveStart(o)
    /\ UNCHANGED <<centralVars, deviceVars, linkVars, handler, workerVars, faults>>

DispatchSend(o) ==
    /\ WorkerIdle
    /\ order[o] = "paid"
    /\ conn
    /\ MarkStartSent(o)
    /\ handler' = [handler EXCEPT ![o] = "marked"]
    /\ UNCHANGED <<centralVars, deviceVars, linkVars, workerVars, faults>>

(* Without a session, or with the request cancelled, nothing is written.    *)
WriteStart(o) ==
    /\ handler[o] = "marked"
    /\ \/ /\ Send("start", o)
          /\ handler' = [handler EXCEPT ![o] = "written"]
          /\ UNCHANGED faults
       \/ /\ (~conn /\ UNCHANGED faults) \/ (conn /\ Fault)
          /\ handler' = [handler EXCEPT ![o] = "failed"]
          /\ UNCHANGED down
    /\ UNCHANGED <<centralVars, gatewayVars, deviceVars, conn, up, workerVars>>

SendReturns(o) ==
    /\ handler[o] = "written"
    /\ handler' = [handler EXCEPT ![o] = "none"]
    /\ UNCHANGED <<centralVars, gatewayVars, deviceVars, linkVars, workerVars, faults>>

(* Send(START) ends with setHeartbeat, whose failure is Send's failure.     *)
SendFails(o) ==
    /\ \/ handler[o] = "failed" /\ UNCHANGED faults
       \/ handler[o] = "written" /\ LateSendError /\ Fault
    /\ MarkStartStopping(o)
    /\ TrySend("stop", o)
    /\ handler' = [handler EXCEPT ![o] = "none"]
    /\ UNCHANGED <<centralVars, deviceVars, conn, up, workerVars>>

-----------------------------------------------------------------------------
(* The gateway's 5 s loop and the user's stop request                       *)

RetryStopping(o) ==
    /\ cmd[o] = "stopping"
    /\ Quiet
    /\ Send("stop", o)
    /\ UNCHANGED <<centralVars, gatewayVars, deviceVars, conn, up, handler, workerVars, faults>>

UserStopRequest(o) ==
    /\ order[o] = "charging"
    /\ ReserveUserStop(o, conn)
    /\ TrySend("userstop", o)
    /\ UNCHANGED <<centralVars, deviceVars, conn, up, handler, workerVars, faults>>

RetryUserStop(o) ==
    /\ MarkUserStopSent(o)
    /\ Quiet
    /\ Send("userstop", o)
    /\ UNCHANGED <<centralVars, deviceVars, conn, up, handler, workerVars, faults>>

-----------------------------------------------------------------------------
(* The board                                                                *)

Received(kinds) == down # <<>> /\ Head(down).kind \in kinds /\ down' = Tail(down)

StartAck(o, ok) == UpFrame("startack", o, ok)
EndReport(o)    == UpFrame("end", o, TRUE)

(* queueReport sends a BB as soon as the charge ends, if it can.            *)
ReportsEnd(p) == IF running[p] = NoOrder THEN <<>> ELSE <<EndReport(running[p])>>

BoardStart ==
    /\ Received({"start"})
    /\ LET o == Head(down).order
       IN \/ DeviceStart(o) /\ up' = Append(up, StartAck(o, TRUE))
          \/ UNCHANGED deviceVars /\ up' = Append(up, StartAck(o, FALSE))
    /\ UNCHANGED <<centralVars, gatewayVars, conn, handler, workerVars, faults>>

(* A faulty port answers 4; its charge, if any, ends all the same.          *)
BoardStop ==
    /\ Received({"stop", "userstop"})
    /\ LET o == Head(down).order
           kind == IF Head(down).kind = "stop" THEN "stopack" ELSE "userstopack"
       IN /\ DeviceStop(PortOf[o])
          /\ \E ok \in BOOLEAN :
                /\ up' = Append(up, UpFrame(kind, o, ok)) \o ReportsEnd(PortOf[o])
                /\ (ok /\ UNCHANGED faults) \/ (~ok /\ Fault)
    /\ UNCHANGED <<centralVars, gatewayVars, conn, handler, workerVars>>

(* The connection breaks after STOP was read and before it is answered.     *)
BoardStopUnanswered ==
    /\ AckWriteErrors /\ Fault
    /\ down # <<>> /\ Head(down).kind \in {"stop", "userstop"}
    /\ EndUnreported(PortOf[Head(down).order])
    /\ DropLink
    /\ UNCHANGED <<centralVars, gatewayVars, handler, workerVars>>

BoardEndReply ==
    /\ Received({"endreply"})
    /\ Acknowledge(PortOf[Head(down).order])
    /\ UNCHANGED <<centralVars, gatewayVars, conn, up, handler, workerVars, faults>>

(* Time or energy used up, unplugged, full, fault: advance.                 *)
BoardFinish(p) ==
    /\ EndCharge(p)
    /\ up' = IF conn THEN up \o ReportsEnd(p) ELSE up
    /\ UNCHANGED <<centralVars, gatewayVars, conn, down, handler, workerVars, faults>>

PendingReports == [i \in DOMAIN pending |-> EndReport(pending[i])]

(* With every heartbeat the board repeats its pending reports in order.     *)
BoardHeartbeat ==
    /\ conn
    /\ pending # <<>>
    /\ Quiet
    /\ up' = up \o PendingReports
    /\ UNCHANGED <<centralVars, gatewayVars, deviceVars, conn, down, handler, workerVars, faults>>

-----------------------------------------------------------------------------
(* ServeConn: each frame is recorded before it is answered                  *)

Arrived(kind) == up # <<>> /\ Head(up).kind = kind

RecordStartAck ==
    /\ Arrived("startack")
    /\ StartAckRecorded(Head(up).order, Head(up).ok)
    /\ up' = Tail(up)
    /\ UNCHANGED <<centralVars, deviceVars, conn, down, handler, workerVars, faults>>

(* A failed Record ends ServeConn and with it the connection.               *)
RecordStopAck ==
    /\ Arrived("stopack")
    /\ IF StopAckFails(Head(up).order, Head(up).ok)
         THEN DropLink /\ UNCHANGED gatewayVars
         ELSE /\ StopAckRecorded(Head(up).order, Head(up).ok)
              /\ up' = Tail(up)
              /\ UNCHANGED <<conn, down>>
    /\ UNCHANGED <<centralVars, deviceVars, handler, workerVars, faults>>

RecordUserStopAck ==
    /\ Arrived("userstopack")
    /\ UserStopAckRecorded(Head(up).order, Head(up).ok)
    /\ up' = Tail(up)
    /\ UNCHANGED <<centralVars, deviceVars, conn, down, handler, workerVars, faults>>

RecordEnd ==
    /\ Arrived("end")
    /\ EndRecorded(Head(up).order)
    /\ up' = Tail(up)
    /\ Send("endreply", Head(up).order)
    /\ UNCHANGED <<centralVars, deviceVars, conn, handler, workerVars, faults>>

-----------------------------------------------------------------------------
(* Synchronizer.SyncBatch: start results.  A result above 3 is left for     *)
(* review and is never posted.                                              *)

(* Mutant: a compensated start (254) is posted as a refused one.            *)
StartRowsOfAnyRejection ==
    {StartRow(o, cmd[o] = "acked") : o \in
        {x \in Orders \ reported : cmd[x] \in {"acked", "rejected"}}}

StartRows ==
    {StartRow(o, cmd[o] = "acked") : o \in
        {x \in Orders \ reported :
            cmd[x] = "acked" \/ (cmd[x] = "rejected" /\ result[x] = "refused")}}

StartFetch ==
    /\ WorkerIdle
    /\ StartRows # {}
    /\ startBatch' = StartRows
    /\ UNCHANGED <<centralVars, gatewayVars, deviceVars, linkVars, handler, startDone, endVars, faults>>

(* The reply may be lost: central has applied the row, the worker goes on.  *)
Posted(r) ==
    /\ startBatch' = startBatch \ {r}
    /\ \/ startDone' = startDone \cup {r.order} /\ UNCHANGED faults
       \/ Fault /\ UNCHANGED startDone
    /\ UNCHANGED <<gatewayVars, deviceVars, linkVars, handler, endVars>>

StartPost(r) ==
    /\ \/ StartReplayed(r.order, r.ok) /\ UNCHANGED centralVars
       \/ r.ok /\ ApplyStartOK(r.order)
       \/ ~r.ok /\ ApplyStartRefused(r.order)
    /\ Posted(r)

(* Mutant: a row is marked as reported although its request failed.         *)
StartPostFailsReported(r) ==
    /\ Fault
    /\ startBatch' = startBatch \ {r}
    /\ startDone' = startDone \cup {r.order}
    /\ UNCHANGED <<centralVars, gatewayVars, deviceVars, linkVars, handler, endVars>>

(* The request may fail before it reaches central; the row is left.         *)
StartPostFails(r) ==
    /\ Fault
    /\ startBatch' = startBatch \ {r}
    /\ UNCHANGED <<centralVars, gatewayVars, deviceVars, linkVars, handler, startDone, endVars>>

(* A refused success is undone on the device: Compensation.Request.         *)
StartPostConflict(r) ==
    /\ StartConflict(r.order, r.ok)
    /\ startBatch' = startBatch \ {r}
    /\ IF r.ok
         THEN /\ CompensateStart(r.order)
              /\ IF cmd'[r.order] = "stopping"
                   THEN TrySend("stop", r.order)
                   ELSE UNCHANGED down
         ELSE UNCHANGED <<gatewayVars, down>>
    /\ UNCHANGED <<centralVars, deviceVars, conn, up, handler, startDone, endVars, faults>>

StartMark ==
    /\ startBatch = {} /\ startDone # {}
    /\ MarkReported(startDone)
    /\ startDone' = {}
    /\ UNCHANGED <<centralVars, deviceVars, linkVars, handler, startBatch, endVars, faults>>

-----------------------------------------------------------------------------
(* EndSynchronizer.SyncBatch: end events, in the order they were recorded   *)

EndFetch ==
    /\ WorkerIdle
    /\ Recorded \ processed # {}
    /\ endBatch' = Recorded \ processed
    /\ UNCHANGED <<centralVars, gatewayVars, deviceVars, linkVars, handler, startVars, endItem, endDone, faults>>

NextEnd(o) ==
    \E i \in DOMAIN events :
        /\ events[i] = o /\ o \in endBatch
        /\ \A j \in DOMAIN events : events[j] \in endBatch => i <= j

EndPost(o) ==
    /\ endItem = NoOrder
    /\ NextEnd(o)
    /\ cmd[o] = "acked"
    /\ ApplyEnd(o) \/ (EndReplayed(o) /\ UNCHANGED centralVars)
    /\ endBatch' = endBatch \ {o}
    /\ endItem' = o
    /\ UNCHANGED <<gatewayVars, deviceVars, linkVars, handler, startVars, endDone, faults>>

(* Mutant: an event that was not accepted is counted as done.               *)
EndSkipAsDone(o) ==
    /\ endItem = NoOrder
    /\ NextEnd(o)
    /\ \/ (cmd[o] # "acked" \/ EndConflict(o)) /\ UNCHANGED faults
       \/ Fault
    /\ endBatch' = endBatch \ {o}
    /\ endDone' = endDone \cup {o}
    /\ UNCHANGED <<centralVars, gatewayVars, deviceVars, linkVars, handler, startVars, endItem>>

(* Not a confirmed START, refused by central, or a failed call: left for    *)
(* the next batch.                                                          *)
EndSkip(o) ==
    /\ endItem = NoOrder
    /\ NextEnd(o)
    /\ \/ (cmd[o] # "acked" \/ EndConflict(o)) /\ UNCHANGED faults
       \/ Fault
    /\ endBatch' = endBatch \ {o}
    /\ UNCHANGED <<centralVars, gatewayVars, deviceVars, linkVars, handler, startVars, endItem, endDone>>

(* central has saved the end, but its reply is lost.                        *)
EndReplyLost ==
    /\ endItem # NoOrder
    /\ Fault
    /\ endItem' = NoOrder
    /\ UNCHANGED <<centralVars, gatewayVars, deviceVars, linkVars, handler, startVars, endBatch, endDone>>

(* A port that cannot be released ends the batch there and then.            *)
EndRelease ==
    /\ endItem # NoOrder
    /\ endItem' = NoOrder
    /\ IF ReleaseConflict(endItem)
         THEN endBatch' = {} /\ endDone' = {} /\ UNCHANGED gatewayVars
         ELSE /\ ReleasePort(endItem)
              /\ endDone' = endDone \cup {endItem}
              /\ UNCHANGED endBatch
    /\ UNCHANGED <<centralVars, deviceVars, linkVars, handler, startVars, faults>>

EndMark ==
    /\ endBatch = {} /\ endItem = NoOrder /\ endDone # {}
    /\ MarkProcessed(endDone)
    /\ endDone' = {}
    /\ UNCHANGED <<centralVars, deviceVars, linkVars, handler, startVars, endBatch, endItem, faults>>

-----------------------------------------------------------------------------
(* Faults                                                                   *)

Disconnect ==
    /\ conn /\ Fault /\ DropLink
    /\ UNCHANGED <<centralVars, gatewayVars, deviceVars, handler, workerVars>>

(* serveOnce: once registered, the board first repeats what is pending.     *)
Reconnect ==
    /\ ~conn /\ conn' = TRUE
    /\ up' = PendingReports
    /\ UNCHANGED <<centralVars, gatewayVars, deviceVars, down, handler, workerVars, faults>>

GatewayCrash ==
    /\ Fault /\ DropLink
    /\ handler' = [o \in Orders |-> "none"]
    /\ UNCHANGED <<centralVars, gatewayVars, deviceVars, workerVars>>

(* The worker stops, or a call that ends the batch fails: it starts again   *)
(* from what is saved.                                                      *)
WorkerAbort ==
    /\ ~WorkerIdle /\ Fault
    /\ startBatch' = {} /\ startDone' = {}
    /\ endBatch' = {} /\ endItem' = NoOrder /\ endDone' = {}
    /\ UNCHANGED <<centralVars, gatewayVars, deviceVars, linkVars, handler>>

-----------------------------------------------------------------------------
CentralNext == \E o \in Orders : Pay(o) \/ Refund(o)

HandlerNext ==
    \E o \in Orders : WriteStart(o) \/ SendReturns(o) \/ SendFails(o)

GatewayNext ==
    \/ \E o \in Orders : RetryStopping(o) \/ UserStopRequest(o) \/ RetryUserStop(o)
    \/ RecordStartAck \/ RecordStopAck \/ RecordUserStopAck \/ RecordEnd

BoardNext ==
    \/ BoardStart \/ BoardStop \/ BoardStopUnanswered \/ BoardEndReply \/ BoardHeartbeat
    \/ \E p \in Ports : BoardFinish(p)

WorkerNext ==
    \/ \E o \in Orders : DispatchReserve(o) \/ DispatchSend(o)
    \/ StartFetch \/ StartMark
    \/ \E r \in startBatch : StartPost(r) \/ StartPostFails(r) \/ StartPostConflict(r)
    \/ EndFetch \/ EndReplyLost \/ EndRelease \/ EndMark
    \/ \E o \in Orders : EndPost(o) \/ EndSkip(o)

FaultNext == Disconnect \/ Reconnect \/ GatewayCrash \/ WorkerAbort

Next == CentralNext \/ HandlerNext \/ GatewayNext \/ BoardNext \/ WorkerNext \/ FaultNext

Spec == Init /\ [][Next]_vars

-----------------------------------------------------------------------------
(* What the lifecycle guarantees                                            *)

Energised(o) == \E p \in Ports : running[p] = o
EverEnergised(o) == Energised(o) \/ o \in completed

(* A port that is physically on belongs, in the gateway's books, to the     *)
(* order it is on for: whatever is lost, late or retried, the port is never *)
(* offered to a second order while the first may still draw current.        *)
PhysicalExclusion ==
    \A p \in Ports : running[p] # NoOrder => holder[p] = running[p]

(* Money goes back for a failed start only if the board never energised the *)
(* order: a lost, late or repeated acknowledgement cannot refund a charge   *)
(* that took place.                                                         *)
RefundedNeverEnergised ==
    \A o \in Orders :
        order[o] \in {"refunding", "refunded"} => ~EverEnergised(o)

(* The receipts central saves tell what the board did: a start saved as     *)
(* successful did start, and an end is saved only after the power is off.   *)
ReceiptsAreTrue ==
    \A o \in Orders :
        /\ startReceipt[o] = "ok" => EverEnergised(o)
        /\ o \in endReceipt => o \in completed

(* The gateway takes an end event off its list only after central has saved *)
(* the end and the port is no longer the order's, whatever step of the end  *)
(* batch was cut short and repeated.                                        *)
ProcessedIsSettled ==
    \A o \in processed : o \in endReceipt /\ holder[PortOf[o]] # o

(* A charge that ended is not forgotten: until the gateway has recorded the *)
(* end, the report is on its way or on the board's list of unacknowledged   *)
(* reports (README.md:99).                                                  *)
EndReportKept ==
    \A o \in completed :
        \/ o \in Recorded
        \/ \E i \in DOMAIN pending : pending[i] = o
        \/ \E i \in DOMAIN up : up[i] = EndReport(o)

(* An order central shows as charging still occupies its port: the gateway  *)
(* gives the port to another order only after central has saved the end     *)
(* (README.md:152).                                                         *)
ChargingHoldsPort ==
    \A o \in Orders : order[o] = "charging" => holder[PortOf[o]] = o
-----------------------------------------------------------------------------
(* The lifecycle implements ChargeContract: what the board has done counts, *)
(* not what any of the other parties has heard of it.                       *)

PhaseOf(o) ==
    CASE order[o] = "none"                       -> "unpaid"
      [] order[o] \in {"refunding", "refunded"}  -> "refunded"
      [] order[o] = "completed"                  -> "settled"
      [] order[o] \in {"paid", "charging"} /\ o \in completed  -> "ended"
      [] order[o] \in {"paid", "charging"} /\ o \notin completed ->
            IF Energised(o) THEN "energised" ELSE "paid"

Contract == INSTANCE ChargeContract WITH
    phase <- [o \in Orders |-> PhaseOf(o)],
    claim <- holder

(* Every step of the lifecycle is a step of the contract or invisible to    *)
(* it, for any interleaving, loss, repetition and restart.                  *)
ImplementsContract == Contract!ContractSpec
=============================================================================
