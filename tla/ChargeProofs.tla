---------------------------- MODULE ChargeProofs ----------------------------
(***************************************************************************)
(* The inductive invariant of the lifecycle, and the safety it gives.      *)
(* Every step of the lifecycle is a step of each component, or leaves the  *)
(* component alone; what is proved of a component from its own steps       *)
(* therefore holds of the whole system.  Then come facts about the frames  *)
(* in flight: what sending, receiving, losing and reporting do to the sets *)
(* of frames ChargeInvariant speaks of.  The rest takes the conjuncts of   *)
(* the invariant one by one.  At the end, the lifecycle is shown to        *)
(* implement its contract.                                                 *)
(***************************************************************************)
EXTENDS ChargeInvariant, SequenceTheorems, TLAPS

CentralStep ==
    \/ \E o \in Orders :
          \/ CreatePaidOrder(o) \/ RefundSucceeded(o)
          \/ ApplyStartOK(o) \/ ApplyStartRefused(o) \/ ApplyEnd(o)
    \/ UNCHANGED centralVars

GatewayStep ==
    \/ \E o \in Orders :
          \/ ReserveStart(o) \/ MarkStartSent(o) \/ MarkStartStopping(o)
          \/ CompensateStart(o) \/ MarkUserStopSent(o) \/ EndRecorded(o)
          \/ ReleasePort(o)
          \/ \E ok \in BOOLEAN :
                \/ StartAckRecorded(o, ok) \/ StopAckRecorded(o, ok)
                \/ UserStopAckRecorded(o, ok) \/ ReserveUserStop(o, ok)
    \/ \E S \in SUBSET Orders : MarkProcessed(S) \/ MarkReported(S)
    \/ UNCHANGED gatewayVars

DeviceStep ==
    \/ \E o \in Orders : DeviceStart(o)
    \/ \E p \in Ports :
          EndCharge(p) \/ EndUnreported(p) \/ Acknowledge(p)
    \/ UNCHANGED deviceVars

-----------------------------------------------------------------------------
(* Each component keeps its own types.                                      *)

LEMMA CentralTypes ==
    ASSUME CentralTypeOK, CentralStep
    PROVE  CentralTypeOK'
<1> USE OrdersAssumption, PortOfAssumption DEF CentralTypeOK, OrderStatus, Holders
<1>1. CASE UNCHANGED centralVars
    BY <1>1 DEF centralVars
<1>2. ASSUME NEW o \in Orders, CreatePaidOrder(o) PROVE CentralTypeOK'
    BY <1>2 DEF CreatePaidOrder
<1>3. ASSUME NEW o \in Orders, RefundSucceeded(o) PROVE CentralTypeOK'
    BY <1>3 DEF RefundSucceeded
<1>4. ASSUME NEW o \in Orders, ApplyStartOK(o) PROVE CentralTypeOK'
    BY <1>4 DEF ApplyStartOK
<1>5. ASSUME NEW o \in Orders, ApplyStartRefused(o) PROVE CentralTypeOK'
    BY <1>5 DEF ApplyStartRefused
<1>6. ASSUME NEW o \in Orders, ApplyEnd(o) PROVE CentralTypeOK'
    BY <1>6 DEF ApplyEnd
<1> QED
    BY CentralStep, <1>1, <1>2, <1>3, <1>4, <1>5, <1>6 DEF CentralStep

LEMMA GatewayTypes ==
    ASSUME GatewayTypeOK, GatewayStep
    PROVE  GatewayTypeOK'
<1> USE OrdersAssumption, PortOfAssumption
    DEF GatewayTypeOK, CmdStatus, StopStatus, Holders, commandVars, portVars,
        eventVars, gatewayVars, Moved, Unreserved
<1>1. CASE UNCHANGED gatewayVars
    BY <1>1
<1>2. ASSUME NEW o \in Orders, ReserveStart(o) PROVE GatewayTypeOK'
    BY <1>2 DEF ReserveStart
<1>3. ASSUME NEW o \in Orders, MarkStartSent(o) PROVE GatewayTypeOK'
    BY <1>3 DEF MarkStartSent
<1>4. ASSUME NEW o \in Orders, MarkStartStopping(o) PROVE GatewayTypeOK'
    BY <1>4 DEF MarkStartStopping
<1>5. ASSUME NEW o \in Orders, CompensateStart(o) PROVE GatewayTypeOK'
    BY <1>5 DEF CompensateStart
<1>6. ASSUME NEW o \in Orders, MarkUserStopSent(o) PROVE GatewayTypeOK'
    BY <1>6 DEF MarkUserStopSent
<1>7. ASSUME NEW o \in Orders, EndRecorded(o) PROVE GatewayTypeOK'
    BY <1>7 DEF EndRecorded
<1>8. ASSUME NEW o \in Orders, ReleasePort(o) PROVE GatewayTypeOK'
    BY <1>8 DEF ReleasePort
<1>9. ASSUME NEW o \in Orders, NEW ok \in BOOLEAN, StartAckRecorded(o, ok)
      PROVE  GatewayTypeOK'
    BY <1>9 DEF StartAckRecorded, StartAckConfirms, StartAckRejects
<1>10. ASSUME NEW o \in Orders, NEW ok \in BOOLEAN, StopAckRecorded(o, ok)
       PROVE  GatewayTypeOK'
    BY <1>10 DEF StopAckRecorded
<1>11. ASSUME NEW o \in Orders, NEW ok \in BOOLEAN, UserStopAckRecorded(o, ok)
       PROVE  GatewayTypeOK'
    BY <1>11 DEF UserStopAckRecorded
<1>12. ASSUME NEW o \in Orders, NEW ok \in BOOLEAN, ReserveUserStop(o, ok)
       PROVE  GatewayTypeOK'
    BY <1>12 DEF ReserveUserStop
<1>13. ASSUME NEW S \in SUBSET Orders, MarkProcessed(S) PROVE GatewayTypeOK'
    BY <1>13 DEF MarkProcessed
<1>14. ASSUME NEW S \in SUBSET Orders, MarkReported(S) PROVE GatewayTypeOK'
    BY <1>14 DEF MarkReported
<1> QED
    BY GatewayStep, <1>1, <1>2, <1>3, <1>4, <1>5, <1>6, <1>7, <1>8, <1>9,
       <1>10, <1>11, <1>12, <1>13, <1>14
    DEF GatewayStep

LEMMA DeviceTypes ==
    ASSUME DeviceTypeOK, DeviceStep
    PROVE  DeviceTypeOK'
<1> USE OrdersAssumption, PortOfAssumption DEF DeviceTypeOK, Holders
<1>1. CASE UNCHANGED deviceVars
    BY <1>1 DEF deviceVars
<1>2. ASSUME NEW o \in Orders, DeviceStart(o) PROVE DeviceTypeOK'
    BY <1>2 DEF DeviceStart
<1>3. ASSUME NEW p \in Ports, EndCharge(p) PROVE DeviceTypeOK'
    BY <1>3 DEF EndCharge, SwitchOff
<1>4. ASSUME NEW p \in Ports, EndUnreported(p) PROVE DeviceTypeOK'
    BY <1>4 DEF EndUnreported, SwitchOff
<1>5. ASSUME NEW p \in Ports, Acknowledge(p) PROVE DeviceTypeOK'
  <2>1. CASE PendingAt(p) = {} /\ UNCHANGED pending
      BY <1>5, <2>1 DEF Acknowledge
  <2>2. ASSUME NEW i \in PendingAt(p),
               pending' = SubSeq(pending, 1, i - 1)
                            \o SubSeq(pending, i + 1, Len(pending))
        PROVE  DeviceTypeOK'
    <3>1. i \in 1..Len(pending)
        BY DEF PendingAt
    <3>2. SubSeq(pending, 1, i - 1) \in Seq(Orders)
        BY <3>1, SubSeqProperties
    <3>3. SubSeq(pending, i + 1, Len(pending)) \in Seq(Orders)
        BY <3>1, SubSeqProperties
    <3> QED
        BY <1>5, <2>2, <3>2, <3>3, ConcatProperties DEF Acknowledge
  <2> QED
      BY <1>5, <2>1, <2>2 DEF Acknowledge
<1> QED
    BY DeviceStep, <1>1, <1>2, <1>3, <1>4, <1>5 DEF DeviceStep
-----------------------------------------------------------------------------
(* What a frame carries.                                                    *)

LEMMA DownHead ==
    ASSUME TypeOK, down # <<>>
    PROVE  /\ Head(down) \in DownFrames
           /\ Head(down).order \in Orders
           /\ Tail(down) \in Seq(DownFrames)
<1>1. Head(down) \in DownFrames /\ Tail(down) \in Seq(DownFrames)
    BY HeadTailProperties DEF TypeOK
<1> QED
    BY <1>1 DEF DownFrames

LEMMA UpHead ==
    ASSUME TypeOK, up # <<>>
    PROVE  /\ Head(up) \in UpFrames
           /\ Head(up).order \in Orders
           /\ Head(up).ok \in BOOLEAN
           /\ Tail(up) \in Seq(UpFrames)
<1>1. Head(up) \in UpFrames /\ Tail(up) \in Seq(UpFrames)
    BY HeadTailProperties DEF TypeOK
<1> QED
    BY <1>1 DEF UpFrames

-----------------------------------------------------------------------------
(* The system is composed of its components' steps.                         *)

LEMMA CentralComposed ==
    ASSUME TypeOK, [Next]_vars
    PROVE  CentralStep
<1> USE DEF CentralStep, TypeOK
<1>1. CASE UNCHANGED vars
    BY <1>1 DEF vars
<1>2. CASE CentralNext
    BY <1>2 DEF CentralNext, Pay, Refund
<1>3. CASE HandlerNext
    BY <1>3 DEF HandlerNext, WriteStart, SendReturns, SendFails
<1>4. CASE GatewayNext
    BY <1>4 DEF GatewayNext, RetryStopping, UserStopRequest, RetryUserStop,
        RecordStartAck, RecordStopAck, RecordUserStopAck, RecordEnd
<1>5. CASE BoardNext
    BY <1>5 DEF BoardNext, BoardStart, BoardStop, BoardStopUnanswered,
        BoardEndReply, BoardHeartbeat, BoardFinish
<1>6. CASE WorkerNext
  <2>1. ASSUME NEW r \in startBatch, StartPost(r) PROVE CentralStep
      BY <2>1 DEF StartPost, Posted
  <2>2. ASSUME NEW r \in startBatch, StartPostFails(r) \/ StartPostConflict(r)
        PROVE  CentralStep
      BY <2>2 DEF StartPostFails, StartPostConflict
  <2>3. ASSUME NEW o \in Orders, EndPost(o) PROVE CentralStep
      BY <2>3 DEF EndPost
  <2> QED
      BY <1>6, <2>1, <2>2, <2>3
      DEF WorkerNext, DispatchReserve, DispatchSend, StartFetch, StartMark,
          EndFetch, EndReplyLost, EndRelease, EndMark, EndSkip
<1>7. CASE FaultNext
    BY <1>7 DEF FaultNext, Disconnect, Reconnect, GatewayCrash, WorkerAbort
<1> QED
    BY <1>1, <1>2, <1>3, <1>4, <1>5, <1>6, <1>7 DEF Next

LEMMA GatewayComposed ==
    ASSUME TypeOK, [Next]_vars
    PROVE  GatewayStep
<1> USE DEF GatewayStep
<1>1. CASE UNCHANGED vars
    BY <1>1 DEF vars
<1>2. CASE CentralNext
    BY <1>2 DEF CentralNext, Pay, Refund
<1>3. CASE HandlerNext
    BY <1>3 DEF HandlerNext, WriteStart, SendReturns, SendFails
<1>4. CASE GatewayNext
  <2>1. ASSUME NEW o \in Orders,
               RetryStopping(o) \/ UserStopRequest(o) \/ RetryUserStop(o)
        PROVE  GatewayStep
      BY <2>1, conn \in BOOLEAN
      DEF RetryStopping, UserStopRequest, RetryUserStop, TypeOK
  <2>2. CASE RecordStartAck
      BY <2>2, UpHead DEF RecordStartAck, Arrived
  <2>3. CASE RecordStopAck
      BY <2>3, UpHead DEF RecordStopAck, Arrived
  <2>4. CASE RecordUserStopAck
      BY <2>4, UpHead DEF RecordUserStopAck, Arrived
  <2>5. CASE RecordEnd
      BY <2>5, UpHead DEF RecordEnd, Arrived
  <2> QED
      BY <1>4, <2>1, <2>2, <2>3, <2>4, <2>5 DEF GatewayNext
<1>5. CASE BoardNext
    BY <1>5 DEF BoardNext, BoardStart, BoardStop, BoardStopUnanswered,
        BoardEndReply, BoardHeartbeat, BoardFinish
<1>6. CASE WorkerNext
  <2>1. ASSUME NEW r \in startBatch,
               StartPost(r) \/ StartPostFails(r) \/ StartPostConflict(r)
        PROVE  GatewayStep
      BY <2>1 DEF StartPost, Posted, StartPostFails, StartPostConflict, TypeOK
  <2>2. CASE EndRelease
      BY <2>2, OrdersAssumption DEF EndRelease, TypeOK, Holders
  <2>3. CASE StartMark \/ EndMark
      BY <2>3 DEF StartMark, EndMark, TypeOK
  <2> QED
      BY <1>6, <2>1, <2>2, <2>3
      DEF WorkerNext, DispatchReserve, DispatchSend, StartFetch,
          EndFetch, EndReplyLost, EndPost, EndSkip
<1>7. CASE FaultNext
    BY <1>7 DEF FaultNext, Disconnect, Reconnect, GatewayCrash, WorkerAbort
<1> QED
    BY <1>1, <1>2, <1>3, <1>4, <1>5, <1>6, <1>7 DEF Next

LEMMA DeviceComposed ==
    ASSUME TypeOK, [Next]_vars
    PROVE  DeviceStep
<1> USE PortOfAssumption DEF DeviceStep
<1>1. CASE UNCHANGED vars
    BY <1>1 DEF vars
<1>2. CASE CentralNext \/ HandlerNext
    BY <1>2 DEF CentralNext, Pay, Refund, HandlerNext, WriteStart, SendReturns, SendFails
<1>3. CASE GatewayNext
    BY <1>3 DEF GatewayNext, RetryStopping, UserStopRequest, RetryUserStop,
        RecordStartAck, RecordStopAck, RecordUserStopAck, RecordEnd
<1>4. CASE BoardNext
  <2>1. CASE BoardStart
      BY <2>1, DownHead DEF BoardStart, Received
  <2>2. CASE BoardStop
      BY <2>2, DownHead DEF BoardStop, Received, DeviceStop
  <2>3. CASE BoardStopUnanswered
      BY <2>3, DownHead DEF BoardStopUnanswered
  <2>4. CASE BoardEndReply
      BY <2>4, DownHead DEF BoardEndReply, Received
  <2>5. ASSUME NEW p \in Ports, BoardFinish(p) PROVE DeviceStep
      BY <2>5 DEF BoardFinish
  <2> QED
      BY <1>4, <2>1, <2>2, <2>3, <2>4, <2>5 DEF BoardNext, BoardHeartbeat
<1>5. CASE WorkerNext
    BY <1>5 DEF WorkerNext, DispatchReserve, DispatchSend, StartFetch, StartMark,
        StartPost, Posted, StartPostFails, StartPostConflict,
        EndFetch, EndReplyLost, EndRelease, EndMark, EndPost, EndSkip
<1>6. CASE FaultNext
    BY <1>6 DEF FaultNext, Disconnect, Reconnect, GatewayCrash, WorkerAbort
<1> QED
    BY <1>1, <1>2, <1>3, <1>4, <1>5, <1>6 DEF Next

-----------------------------------------------------------------------------
(* What no component owns: the link, and what the worker holds in memory.   *)

LinkTypeOK ==
    /\ conn \in BOOLEAN
    /\ down \in Seq(DownFrames)
    /\ up \in Seq(UpFrames)

MemoryTypeOK ==
    /\ handler \in [Orders -> {"none", "marked", "written", "failed"}]
    /\ startBatch \subseteq [order : Orders, ok : BOOLEAN]
    /\ startDone \subseteq Orders
    /\ endBatch \subseteq Orders
    /\ endItem \in Holders
    /\ endDone \subseteq Orders
    /\ faults \in 0..MaxFaults

LEMMA SentTyped ==
    ASSUME TypeOK, NEW kind \in DownKinds, NEW o \in Orders,
           Send(kind, o) \/ TrySend(kind, o)
    PROVE  down' \in Seq(DownFrames)
<1>1. DownFrame(kind, o) \in DownFrames
    BY DEF DownFrame, DownFrames
<1>2. down \in Seq(DownFrames)
    BY DEF TypeOK
<1>3. Append(down, DownFrame(kind, o)) \in Seq(DownFrames)
    BY <1>1, <1>2, AppendProperties
<1> QED
    BY <1>2, <1>3 DEF Send, TrySend

LEMMA FrameTyped ==
    ASSUME NEW kind \in UpKinds, NEW o \in Orders, NEW ok \in BOOLEAN
    PROVE  /\ UpFrame(kind, o, ok) \in UpFrames
           /\ <<UpFrame(kind, o, ok)>> \in Seq(UpFrames)
<1>1. UpFrame(kind, o, ok) \in UpFrames
    BY DEF UpFrame, UpFrames
<1> QED
    BY <1>1, AppendProperties

LEMMA ReportsTyped ==
    ASSUME TypeOK
    PROVE  /\ PendingReports \in Seq(UpFrames)
           /\ \A p \in Ports : ReportsEnd(p) \in Seq(UpFrames)
<1>1. ASSUME NEW o \in Orders PROVE EndReport(o) \in UpFrames
    BY FrameTyped DEF EndReport, UpKinds
<1>2. PendingReports \in Seq(UpFrames)
  <2>1. Len(pending) \in Nat /\ DOMAIN pending = 1..Len(pending)
      BY DEF TypeOK, DeviceTypeOK
  <2>2. \A i \in DOMAIN pending : pending[i] \in Orders
      BY DEF TypeOK, DeviceTypeOK
  <2>3. PendingReports \in [1..Len(pending) -> UpFrames]
      BY <1>1, <2>1, <2>2 DEF PendingReports
  <2> QED
      BY <2>1, <2>3, SeqDef
<1>3. ASSUME NEW p \in Ports PROVE ReportsEnd(p) \in Seq(UpFrames)
  <2>1. CASE running[p] = NoOrder
      BY <2>1 DEF ReportsEnd
  <2>2. CASE running[p] # NoOrder
    <3>1. EndReport(running[p]) \in UpFrames
        BY <1>1, <2>2 DEF TypeOK, DeviceTypeOK, Holders
    <3> QED
        BY <2>2, <3>1 DEF ReportsEnd
  <2> QED
      BY <2>1, <2>2
<1> QED
    BY <1>2, <1>3
LEMMA LinkTypes ==
    ASSUME TypeOK, [Next]_vars
    PROVE  LinkTypeOK'
<1> USE DEF LinkTypeOK
<1>0. /\ conn \in BOOLEAN
      /\ down \in Seq(DownFrames) /\ up \in Seq(UpFrames)
      /\ <<>> \in Seq(DownFrames) /\ <<>> \in Seq(UpFrames)
    BY EmptySeq DEF TypeOK
<1>1. CASE UNCHANGED vars
    BY <1>0, <1>1 DEF vars, linkVars
<1>2. CASE CentralNext
    BY <1>0, <1>2 DEF CentralNext, Pay, Refund, linkVars
<1>3. CASE HandlerNext
  <2>1. ASSUME NEW o \in Orders, WriteStart(o) \/ SendFails(o) PROVE LinkTypeOK'
      BY <1>0, <2>1, SentTyped DEF WriteStart, SendFails, DownKinds
  <2>2. ASSUME NEW o \in Orders, SendReturns(o) PROVE LinkTypeOK'
      BY <1>0, <2>2 DEF SendReturns, linkVars
  <2> QED
      BY <1>3, <2>1, <2>2 DEF HandlerNext
<1>4. CASE GatewayNext
  <2>1. ASSUME NEW o \in Orders,
               RetryStopping(o) \/ UserStopRequest(o) \/ RetryUserStop(o)
        PROVE  LinkTypeOK'
      BY <1>0, <2>1, SentTyped
      DEF RetryStopping, UserStopRequest, RetryUserStop, DownKinds
  <2>2. CASE RecordStartAck \/ RecordStopAck \/ RecordUserStopAck
      BY <1>0, <2>2, UpHead
      DEF RecordStartAck, RecordStopAck, RecordUserStopAck, Arrived, DropLink
  <2>3. CASE RecordEnd
      BY <1>0, <2>3, UpHead, SentTyped DEF RecordEnd, Arrived, DownKinds
  <2> QED
      BY <1>4, <2>1, <2>2, <2>3 DEF GatewayNext
<1>5. CASE BoardNext
  <2>1. CASE BoardStart
    <3>1. ASSUME NEW ok \in BOOLEAN
          PROVE  Append(up, StartAck(Head(down).order, ok)) \in Seq(UpFrames)
        BY <1>0, <2>1, DownHead, FrameTyped, AppendProperties
        DEF BoardStart, Received, StartAck, UpKinds
    <3> QED
        BY <1>0, <2>1, <3>1, DownHead DEF BoardStart, Received
  <2>2. CASE BoardStop
    <3>1. ASSUME NEW ok \in BOOLEAN, NEW kind \in {"stopack", "userstopack"}
          PROVE  Append(up, UpFrame(kind, Head(down).order, ok))
                   \o ReportsEnd(PortOf[Head(down).order]) \in Seq(UpFrames)
      <4>1. Head(down).order \in Orders /\ PortOf[Head(down).order] \in Ports
          BY <2>2, DownHead, PortOfAssumption DEF BoardStop, Received
      <4>2. Append(up, UpFrame(kind, Head(down).order, ok)) \in Seq(UpFrames)
          BY <1>0, <4>1, FrameTyped, AppendProperties DEF UpKinds
      <4> QED
          BY <4>1, <4>2, ReportsTyped, ConcatProperties
    <3> QED
        BY <1>0, <2>2, <3>1, DownHead DEF BoardStop, Received
  <2>3. CASE BoardStopUnanswered
      BY <1>0, <2>3 DEF BoardStopUnanswered, DropLink
  <2>4. CASE BoardEndReply
      BY <1>0, <2>4, DownHead DEF BoardEndReply, Received
  <2>5. CASE BoardHeartbeat
      BY <1>0, <2>5, ReportsTyped, ConcatProperties DEF BoardHeartbeat
  <2>6. ASSUME NEW p \in Ports, BoardFinish(p) PROVE LinkTypeOK'
      BY <1>0, <2>6, ReportsTyped, ConcatProperties DEF BoardFinish
  <2> QED
      BY <1>5, <2>1, <2>2, <2>3, <2>4, <2>5, <2>6 DEF BoardNext
<1>6. CASE WorkerNext
  <2>1. ASSUME NEW r \in startBatch, StartPostConflict(r) PROVE LinkTypeOK'
    <3>1. r.order \in Orders
        BY <2>1 DEF TypeOK
    <3> QED
        BY <1>0, <2>1, <3>1, SentTyped DEF StartPostConflict, DownKinds
  <2>2. ASSUME NEW r \in startBatch, StartPost(r) \/ StartPostFails(r)
        PROVE  LinkTypeOK'
      BY <1>0, <2>2 DEF StartPost, Posted, StartPostFails, linkVars
  <2> QED
      BY <1>0, <1>6, <2>1, <2>2
      DEF WorkerNext, DispatchReserve, DispatchSend, StartFetch, StartMark,
          EndFetch, EndReplyLost, EndRelease, EndMark, EndPost, EndSkip, linkVars
<1>7. CASE FaultNext
    BY <1>0, <1>7, ReportsTyped
    DEF FaultNext, Disconnect, Reconnect, GatewayCrash, WorkerAbort, DropLink, linkVars
<1> QED
    BY <1>1, <1>2, <1>3, <1>4, <1>5, <1>6, <1>7 DEF Next

LEMMA FaultTyped ==
    ASSUME TypeOK, Fault
    PROVE  faults' \in 0..MaxFaults
BY MaxFaultsAssumption DEF TypeOK, Fault

LEMMA MemoryTypes ==
    ASSUME TypeOK, [Next]_vars
    PROVE  MemoryTypeOK'
<1> USE DEF MemoryTypeOK
<1>0. MemoryTypeOK
    BY DEF TypeOK
<1>1. CASE UNCHANGED vars
    BY <1>0, <1>1 DEF vars, workerVars, startVars, endVars
<1>2. CASE CentralNext
    BY <1>0, <1>2 DEF CentralNext, Pay, Refund, workerVars, startVars, endVars
<1>3. CASE HandlerNext
    BY <1>0, <1>3, FaultTyped
    DEF HandlerNext, WriteStart, SendReturns, SendFails, workerVars, startVars, endVars
<1>4. CASE GatewayNext
    BY <1>0, <1>4
    DEF GatewayNext, RetryStopping, UserStopRequest, RetryUserStop, RecordStartAck,
        RecordStopAck, RecordUserStopAck, RecordEnd, workerVars, startVars, endVars
<1>5. CASE BoardNext
    BY <1>0, <1>5, FaultTyped
    DEF BoardNext, BoardStart, BoardStop, BoardStopUnanswered, BoardEndReply,
        BoardHeartbeat, BoardFinish, workerVars, startVars, endVars
<1>6. CASE WorkerNext
  <2>1. ASSUME NEW r \in startBatch,
               StartPost(r) \/ StartPostFails(r) \/ StartPostConflict(r)
        PROVE  MemoryTypeOK'
    <3>1. r.order \in Orders
        BY <2>1, <1>0
    <3> QED
        BY <1>0, <2>1, <3>1, FaultTyped
        DEF StartPost, Posted, StartPostFails, StartPostConflict, endVars
  <2>2. CASE StartFetch
    <3>1. StartRows \subseteq [order : Orders, ok : BOOLEAN]
      <4>1. ASSUME NEW o \in Orders, NEW ok \in BOOLEAN
            PROVE  StartRow(o, ok) \in [order : Orders, ok : BOOLEAN]
          BY DEF StartRow
      <4>2. \A o \in Orders : (cmd[o] = "acked") \in BOOLEAN
          OBVIOUS
      <4> QED
          BY <4>1, <4>2, Zenon DEF StartRows
    <3> QED
        BY <1>0, <2>2, <3>1 DEF StartFetch, endVars
  <2>3. CASE EndFetch
    <3>1. Recorded \subseteq Orders
      <4>1. events \in Seq(Orders)
          BY DEF TypeOK, GatewayTypeOK
      <4>2. \A i \in DOMAIN events : events[i] \in Orders
          BY <4>1
      <4> QED
          BY <4>2 DEF Recorded
    <3> QED
        BY <1>0, <2>3, <3>1 DEF EndFetch, startVars
  <2>4. CASE StartMark \/ EndMark
      BY <1>0, <2>4 DEF StartMark, EndMark, startVars, endVars
  <2>5. CASE EndRelease \/ EndReplyLost
      BY <1>0, <2>5, FaultTyped DEF EndRelease, EndReplyLost, Holders, startVars
  <2>6. ASSUME NEW o \in Orders, EndPost(o) \/ EndSkip(o) PROVE MemoryTypeOK'
      BY <1>0, <2>6, FaultTyped DEF EndPost, EndSkip, Holders, startVars
  <2>7. ASSUME NEW o \in Orders, DispatchReserve(o) \/ DispatchSend(o)
        PROVE  MemoryTypeOK'
      BY <1>0, <2>7 DEF DispatchReserve, DispatchSend, workerVars, startVars, endVars
  <2> QED
      BY <1>6, <2>1, <2>2, <2>3, <2>4, <2>5, <2>6, <2>7 DEF WorkerNext
<1>7. CASE FaultNext
    BY <1>0, <1>7, FaultTyped
    DEF FaultNext, Disconnect, Reconnect, GatewayCrash, WorkerAbort, Holders,
        workerVars, startVars, endVars
<1> QED
    BY <1>1, <1>2, <1>3, <1>4, <1>5, <1>6, <1>7 DEF Next

-----------------------------------------------------------------------------
(* Every variable of the four parties keeps its type, for any number of     *)
(* orders, ports and faults.                                                *)
THEOREM TypeCorrect == Spec => []TypeOK
<1>1. Init => TypeOK
  <2> SUFFICES ASSUME Init PROVE TypeOK
      OBVIOUS
  <2>1. CentralTypeOK
      BY OrdersAssumption, PortOfAssumption
      DEF Init, CentralInit, CentralTypeOK, OrderStatus, Holders
  <2>2. GatewayTypeOK
      BY DEF Init, GatewayInit, GatewayTypeOK, CmdStatus, StopStatus, Holders
  <2>3. DeviceTypeOK
      BY DEF Init, DeviceInit, DeviceTypeOK, Holders
  <2> QED
      BY <2>1, <2>2, <2>3, MaxFaultsAssumption DEF Init, TypeOK, Holders
<1>2. TypeOK /\ [Next]_vars => TypeOK'
  <2> SUFFICES ASSUME TypeOK, [Next]_vars PROVE TypeOK'
      OBVIOUS
  <2>1. CentralTypeOK'
      BY CentralComposed, CentralTypes DEF TypeOK
  <2>2. GatewayTypeOK'
      BY GatewayComposed, GatewayTypes DEF TypeOK
  <2>3. DeviceTypeOK'
      BY DeviceComposed, DeviceTypes DEF TypeOK
  <2> QED
      BY <2>1, <2>2, <2>3, LinkTypes, MemoryTypes DEF TypeOK, LinkTypeOK, MemoryTypeOK
<1> QED
    BY <1>1, <1>2, PTL DEF Spec

(* The port row of active_port_charge and the order status always name the  *)
(* same charge (start_result.go, end_result.go): it follows from central's  *)
(* own transactions, whatever the gateway, the board and the worker do.     *)
THEOREM ActivePortCorrect == Spec => []ActivePortMatchesOrder
<1>1. Init => ActivePortMatchesOrder
    BY OrdersAssumption, PortOfAssumption DEF Init, CentralInit, ActivePortMatchesOrder
<1>2. ASSUME TypeOK, ActivePortMatchesOrder, [Next]_vars
      PROVE  ActivePortMatchesOrder'
  <2> USE OrdersAssumption, PortOfAssumption
      DEF ActivePortMatchesOrder, CentralTypeOK, OrderStatus, Holders
  <2>0. CentralTypeOK
      BY <1>2 DEF TypeOK
  <2>1. CASE UNCHANGED centralVars
      BY <1>2, <2>1 DEF centralVars
  <2>2. ASSUME NEW o \in Orders,
               CreatePaidOrder(o) \/ RefundSucceeded(o) \/ ApplyStartRefused(o)
        PROVE  ActivePortMatchesOrder'
      BY <1>2, <2>0, <2>2
      DEF CreatePaidOrder, RefundSucceeded, ApplyStartRefused, StartApplicable
  <2>3. ASSUME NEW o \in Orders, ApplyStartOK(o) PROVE ActivePortMatchesOrder'
      BY <1>2, <2>0, <2>3 DEF ApplyStartOK, StartApplicable
  <2>4. ASSUME NEW o \in Orders, ApplyEnd(o) PROVE ActivePortMatchesOrder'
      BY <1>2, <2>0, <2>4 DEF ApplyEnd, EndApplicable
  <2> QED
      BY <1>2, <2>1, <2>2, <2>3, <2>4, CentralComposed DEF CentralStep
<1> QED
    BY <1>1, <1>2, TypeCorrect, PTL DEF Spec

-----------------------------------------------------------------------------
(* Membership in a sequence.                                                *)

LEMMA HasEmpty == ASSUME NEW x PROVE ~Has(<<>>, x)
BY DEF Has

LEMMA HasAppend ==
    ASSUME NEW S, NEW seq \in Seq(S), NEW e \in S, NEW x
    PROVE  Has(Append(seq, e), x) <=> Has(seq, x) \/ x = e
<1> DEFINE t == Append(seq, e)
<1>1. /\ DOMAIN seq = 1..Len(seq) /\ DOMAIN t = 1..(Len(seq) + 1)
      /\ Len(seq) \in Nat
      /\ \A i \in 1..Len(seq) : t[i] = seq[i]
      /\ t[Len(seq) + 1] = e
    BY AppendProperties, LenProperties
<1> HIDE DEF t
<1>2. ASSUME Has(t, x) PROVE Has(seq, x) \/ x = e
    BY <1>1, <1>2 DEF Has
<1>3. ASSUME Has(seq, x) PROVE Has(t, x)
    BY <1>1, <1>3 DEF Has
<1>4. ASSUME x = e PROVE Has(t, x)
    BY <1>1, <1>4 DEF Has
<1> QED
    BY <1>2, <1>3, <1>4 DEF t

LEMMA HasTail ==
    ASSUME NEW S, NEW seq \in Seq(S), seq # <<>>, NEW x
    PROVE  /\ Has(seq, Head(seq))
           /\ Has(Tail(seq), x) => Has(seq, x)
BY DEF Has

LEMMA HasConcat ==
    ASSUME NEW S, NEW s \in Seq(S), NEW t \in Seq(S), NEW x
    PROVE  Has(s \o t, x) <=> Has(s, x) \/ Has(t, x)
<1> DEFINE u == s \o t
<1>1. /\ DOMAIN s = 1..Len(s) /\ DOMAIN t = 1..Len(t)
      /\ DOMAIN u = 1..(Len(s) + Len(t))
      /\ Len(s) \in Nat /\ Len(t) \in Nat
      /\ \A i \in 1..(Len(s) + Len(t)) :
             u[i] = IF i <= Len(s) THEN s[i] ELSE t[i - Len(s)]
    BY ConcatProperties, LenProperties
<1> HIDE DEF u
<1>2. ASSUME Has(u, x) PROVE Has(s, x) \/ Has(t, x)
    BY <1>1, <1>2 DEF Has
<1>3. ASSUME Has(s, x) PROVE Has(u, x)
    BY <1>1, <1>3 DEF Has
<1>4. ASSUME Has(t, x) PROVE Has(u, x)
  <2>1. PICK i \in 1..Len(t) : t[i] = x
      BY <1>1, <1>4 DEF Has
  <2>2. u[i + Len(s)] = x /\ i + Len(s) \in DOMAIN u
      BY <1>1, <2>1
  <2> QED
      BY <2>2 DEF Has
<1> QED
    BY <1>2, <1>3, <1>4 DEF u

-----------------------------------------------------------------------------
(* What is in flight after a frame is sent, received or lost.               *)

LEMMA SendEffect ==
    ASSUME TypeOK, NEW kind \in DownKinds, NEW o \in Orders, Send(kind, o)
    PROVE  \A k \in DownKinds, q \in Orders :
               DownHas(k, q)' <=> DownHas(k, q) \/ (k = kind /\ q = o)
<1>1. DownFrame(kind, o) \in DownFrames
    BY DEF DownFrame, DownFrames
<1>2. ASSUME NEW k \in DownKinds, NEW q \in Orders
      PROVE  DownHas(k, q)' <=> DownHas(k, q) \/ DownFrame(k, q) = DownFrame(kind, o)
    BY <1>1, HasAppend DEF DownHas, Send, TypeOK
<1> QED
    BY <1>2 DEF DownFrame
LEMMA SendOrder ==
    ASSUME TypeOK, StartFirst, NEW kind \in DownKinds, NEW o \in Orders,
           Send(kind, o), kind # "start" \/ (~DownHas("start", o) /\ ~DownHas("stop", o))
    PROVE  StartFirst'
<1> DEFINE n == Len(down)
<1>1. /\ n \in Nat /\ DOMAIN down = 1..n /\ DOMAIN down' = 1..(n + 1)
      /\ \A i \in 1..n : down'[i] = down[i] /\ down[i] \in DownFrames
      /\ down'[n + 1] = DownFrame(kind, o)
  <2>1. down \in Seq(DownFrames) /\ DownFrame(kind, o) \in DownFrames
      BY DEF TypeOK, DownFrame, DownFrames
  <2> QED
      BY <2>1, AppendProperties, LenProperties, ElementOfSeq DEF Send
<1> SUFFICES ASSUME NEW i \in 1..(n + 1), NEW j \in 1..(n + 1),
                    down'[i].kind = "start",
                    down'[j].kind \in {"start", "stop"},
                    down'[i].order = down'[j].order
             PROVE  i <= j
    BY <1>1 DEF StartFirst
<1>2. CASE j = n + 1
    BY <1>1, <1>2
<1>3. CASE j \in 1..n /\ i \in 1..n
    BY <1>1, <1>3 DEF StartFirst
<1>4. CASE j \in 1..n /\ i = n + 1
  <2>1. kind = "start" /\ down[j].order = o /\ down[j].kind \in {"start", "stop"}
      BY <1>1, <1>4 DEF DownFrame
  <2>2. down[j] = DownFrame(down[j].kind, o)
      BY <1>1, <1>4, <2>1 DEF DownFrames, DownFrame
  <2>3. DownHas("start", o) \/ DownHas("stop", o)
      BY <1>1, <1>4, <2>1, <2>2 DEF DownHas, Has
  <2> QED
      BY <2>1, <2>3
<1> QED
    BY <1>1, <1>2, <1>3, <1>4

LEMMA ReceiveEffect ==
    ASSUME TypeOK, StartFirst, down # <<>>, down' = Tail(down),
           NEW kind, NEW o, kind = Head(down).kind, o = Head(down).order
    PROVE  /\ kind \in DownKinds /\ o \in Orders
           /\ DownHas(kind, o)
           /\ \A k \in DownKinds, q \in Orders : DownHas(k, q)' => DownHas(k, q)
           /\ kind = "start" => ~DownHas("start", o)'
           /\ kind = "stop" => ~DownHas("start", o)
           /\ StartFirst'
<1> DEFINE n == Len(down)
<1>1. /\ n \in Nat \ {0} /\ DOMAIN down = 1..n /\ DOMAIN down' = 1..(n - 1)
      /\ \A i \in 1..(n - 1) : down'[i] = down[i + 1]
      /\ \A i \in 1..n : down[i] \in DownFrames
      /\ Head(down) = down[1]
      /\ down \in Seq(DownFrames)
  <2>1. down \in Seq(DownFrames)
      BY DEF TypeOK
  <2> QED
      BY <2>1, HeadTailProperties, LenProperties, ElementOfSeq, EmptySeq
<1>2. Head(down) = DownFrame(kind, o) /\ kind \in DownKinds /\ o \in Orders
    BY <1>1 DEF DownFrames, DownFrame
<1>3. DownHas(kind, o)
    BY <1>1, <1>2 DEF DownHas, Has
<1>4. ASSUME NEW k \in DownKinds, NEW q \in Orders, DownHas(k, q)'
      PROVE  DownHas(k, q)
    BY <1>1, <1>4, HasTail DEF DownHas
<1>5. ASSUME NEW i \in 1..n, i # 1, down[i].kind = "start", down[i].order = o,
             kind \in {"start", "stop"}
      PROVE  FALSE
    BY <1>1, <1>2, <1>5 DEF StartFirst, DownFrame
<1>6. kind = "start" => ~DownHas("start", o)'
  <2> SUFFICES ASSUME kind = "start", DownHas("start", o)' PROVE FALSE
      OBVIOUS
  <2>1. PICK i \in 1..(n - 1) : down'[i] = DownFrame("start", o)
      BY <1>1 DEF DownHas, Has
  <2>2. i + 1 \in 1..n /\ i + 1 # 1 /\ down[i + 1] = DownFrame("start", o)
      BY <1>1, <2>1
  <2> QED
      BY <1>5, <2>2 DEF DownFrame
<1>7. kind = "stop" => ~DownHas("start", o)
  <2> SUFFICES ASSUME kind = "stop", DownHas("start", o) PROVE FALSE
      OBVIOUS
  <2>1. PICK i \in 1..n : down[i] = DownFrame("start", o)
      BY <1>1 DEF DownHas, Has
  <2>2. i # 1
      BY <1>1, <1>2, <2>1 DEF DownFrame
  <2> QED
      BY <1>5, <2>1, <2>2 DEF DownFrame
<1>8. StartFirst'
  <2> SUFFICES ASSUME NEW i \in 1..(n - 1), NEW j \in 1..(n - 1),
                      down'[i].kind = "start",
                      down'[j].kind \in {"start", "stop"},
                      down'[i].order = down'[j].order
               PROVE  i <= j
      BY <1>1 DEF StartFirst
  <2>1. i + 1 \in DOMAIN down /\ j + 1 \in DOMAIN down
      BY <1>1
  <2>2. i + 1 <= j + 1
      BY <1>1, <2>1 DEF StartFirst
  <2> QED
      BY <2>2
<1> QED
    BY <1>2, <1>3, <1>4, <1>6, <1>7, <1>8

LEMMA LossEffect ==
    /\ down' = <<>> => StartFirst' /\ \A k, q : ~DownHas(k, q)'
    /\ up' = <<>> => OneStartAck' /\ \A k, q, b : ~UpHas(k, q, b)'
<1>1. ASSUME down' = <<>> PROVE StartFirst' /\ \A k, q : ~DownHas(k, q)'
    BY <1>1 DEF StartFirst, DownHas, Has
<1>2. ASSUME up' = <<>> PROVE OneStartAck' /\ \A k, q, b : ~UpHas(k, q, b)'
    BY <1>2 DEF OneStartAck, OneAck, UpHas, Has
<1> QED
    BY <1>1, <1>2

LEMMA AnswerEffect ==
    ASSUME TypeOK, OneStartAck, NEW kind \in UpKinds, NEW o \in Orders, NEW ok \in BOOLEAN,
           kind # "startack" \/ \A b \in BOOLEAN : ~UpHas("startack", o, b)
    PROVE  LET t == Append(up, UpFrame(kind, o, ok))
           IN  /\ t \in Seq(UpFrames)
               /\ \A k \in UpKinds, q \in Orders, b \in BOOLEAN :
                      Has(t, UpFrame(k, q, b))
                        <=> UpHas(k, q, b) \/ (k = kind /\ q = o /\ b = ok)
               /\ OneAck(t)
<1> DEFINE t == Append(up, UpFrame(kind, o, ok))
<1>1. UpFrame(kind, o, ok) \in UpFrames /\ up \in Seq(UpFrames)
    BY DEF UpFrame, UpFrames, TypeOK
<1>0. t \in Seq(UpFrames)
    BY <1>1, AppendProperties
<1>2. ASSUME NEW k \in UpKinds, NEW q \in Orders, NEW b \in BOOLEAN
      PROVE  Has(t, UpFrame(k, q, b))
               <=> UpHas(k, q, b) \/ UpFrame(k, q, b) = UpFrame(kind, o, ok)
    BY <1>1, HasAppend DEF UpHas
<1>3. OneAck(t)
  <2> DEFINE n == Len(up)
  <2>1. /\ n \in Nat /\ DOMAIN up = 1..n /\ DOMAIN t = 1..(n + 1)
        /\ \A i \in 1..n : t[i] = up[i] /\ up[i] \in UpFrames
        /\ t[n + 1] = UpFrame(kind, o, ok)
      BY <1>1, AppendProperties, LenProperties, ElementOfSeq
  <2>2. ASSUME NEW i \in 1..n, up[i].kind = "startack", up[i].order = o,
               kind = "startack"
        PROVE  FALSE
    <3>1. up[i] = UpFrame("startack", o, up[i].ok) /\ up[i].ok \in BOOLEAN
        BY <2>1, <2>2 DEF UpFrames, UpFrame
    <3> QED
        BY <2>1, <2>2, <3>1 DEF UpHas, Has
  <2> SUFFICES ASSUME NEW i \in 1..(n + 1), NEW j \in 1..(n + 1),
                      t[i].kind = "startack", t[j].kind = "startack",
                      t[i].order = t[j].order
               PROVE  i = j
      BY <2>1 DEF OneStartAck, OneAck
  <2>3. CASE i \in 1..n /\ j \in 1..n
      BY <2>1, <2>3 DEF OneStartAck, OneAck
  <2>4. CASE i = n + 1 /\ j \in 1..n
      BY <2>1, <2>2, <2>4 DEF UpFrame
  <2>5. CASE j = n + 1 /\ i \in 1..n
      BY <2>1, <2>2, <2>5 DEF UpFrame
  <2> QED
      BY <2>3, <2>4, <2>5
<1> QED
    BY <1>0, <1>2, <1>3 DEF UpFrame

(* Frames other than START acknowledgements may follow anything.            *)
LEMMA ReportEffect ==
    ASSUME NEW s \in Seq(UpFrames), NEW t \in Seq(UpFrames), OneAck(s),
           \A i \in DOMAIN t : t[i].kind = "end"
    PROVE  OneAck(s \o t)
<1> DEFINE n == Len(s)
           m == Len(t)
           u == s \o t
<1>1. /\ n \in Nat /\ m \in Nat /\ DOMAIN s = 1..n /\ DOMAIN t = 1..m
      /\ DOMAIN u = 1..(n + m)
      /\ \A i \in 1..(n + m) : u[i] = IF i <= n THEN s[i] ELSE t[i - n]
    BY ConcatProperties, LenProperties
<1> HIDE DEF u
<1> SUFFICES ASSUME NEW i \in 1..(n + m), NEW j \in 1..(n + m),
                    u[i].kind = "startack", u[j].kind = "startack",
                    u[i].order = u[j].order
             PROVE  i = j
    BY <1>1 DEF OneAck, u
<1>2. ASSUME NEW h \in 1..(n + m), u[h].kind = "startack" PROVE h \in 1..n
  <2>1. CASE h > n
    <3>1. h - n \in DOMAIN t /\ u[h] = t[h - n]
        BY <1>1, <2>1
    <3> QED
        BY <1>2, <3>1
  <2> QED
      BY <1>1, <2>1
<1>3. i \in 1..n /\ j \in 1..n
    BY <1>2
<1>4. u[i] = s[i] /\ u[j] = s[j]
    BY <1>1, <1>3
<1> QED
    BY <1>1, <1>3, <1>4 DEF OneAck

LEMMA ArriveEffect ==
    ASSUME TypeOK, OneStartAck, up # <<>>, up' = Tail(up),
           NEW kind, NEW o, NEW ok,
           kind = Head(up).kind, o = Head(up).order, ok = Head(up).ok
    PROVE  /\ kind \in UpKinds /\ o \in Orders /\ ok \in BOOLEAN
           /\ UpHas(kind, o, ok)
           /\ \A k \in UpKinds, q \in Orders, b \in BOOLEAN : UpHas(k, q, b)' => UpHas(k, q, b)
           /\ kind = "startack" => \A b \in BOOLEAN : ~UpHas("startack", o, b)'
           /\ OneStartAck'
<1> DEFINE n == Len(up)
<1>1. /\ n \in Nat \ {0} /\ DOMAIN up = 1..n /\ DOMAIN up' = 1..(n - 1)
      /\ \A i \in 1..(n - 1) : up'[i] = up[i + 1]
      /\ \A i \in 1..n : up[i] \in UpFrames
      /\ Head(up) = up[1]
      /\ up \in Seq(UpFrames)
  <2>1. up \in Seq(UpFrames)
      BY DEF TypeOK
  <2> QED
      BY <2>1, HeadTailProperties, LenProperties, ElementOfSeq, EmptySeq
<1>2. Head(up) = UpFrame(kind, o, ok) /\ kind \in UpKinds /\ o \in Orders /\ ok \in BOOLEAN
    BY <1>1 DEF UpFrames, UpFrame
<1>3. UpHas(kind, o, ok)
    BY <1>1, <1>2 DEF UpHas, Has
<1>4. ASSUME NEW k \in UpKinds, NEW q \in Orders, NEW b \in BOOLEAN, UpHas(k, q, b)'
      PROVE  UpHas(k, q, b)
    BY <1>1, <1>4, HasTail DEF UpHas
<1>5. ASSUME kind = "startack", NEW b \in BOOLEAN, UpHas("startack", o, b)'
      PROVE  FALSE
  <2>1. PICK i \in 1..(n - 1) : up'[i] = UpFrame("startack", o, b)
      BY <1>1, <1>5 DEF UpHas, Has
  <2>2. i + 1 \in 1..n /\ i + 1 # 1 /\ up[i + 1] = UpFrame("startack", o, b)
      BY <1>1, <2>1
  <2>3. /\ 1 \in DOMAIN up /\ i + 1 \in DOMAIN up
        /\ up[1].kind = "startack" /\ up[1].order = o
        /\ up[i + 1].kind = "startack" /\ up[i + 1].order = o
      BY <1>1, <1>2, <1>5, <2>2 DEF UpFrame
  <2>4. 1 = i + 1
      BY <2>3 DEF OneStartAck, OneAck
  <2> QED
      BY <2>2, <2>4
<1>6. OneStartAck'
  <2> SUFFICES ASSUME NEW i \in 1..(n - 1), NEW j \in 1..(n - 1),
                      up'[i].kind = "startack", up'[j].kind = "startack",
                      up'[i].order = up'[j].order
               PROVE  i = j
      BY <1>1 DEF OneStartAck, OneAck
  <2>1. i + 1 \in DOMAIN up /\ j + 1 \in DOMAIN up
      BY <1>1
  <2>2. i + 1 = j + 1
      BY <1>1, <2>1 DEF OneStartAck, OneAck
  <2> QED
      BY <2>2
<1> QED
    BY <1>2, <1>3, <1>4, <1>5, <1>6

(* What the board reports.                                                  *)
LEMMA ReportsContent ==
    ASSUME TypeOK
    PROVE  /\ \A i \in DOMAIN PendingReports : PendingReports[i].kind = "end"
           /\ \A k \in UpKinds, q \in Orders, b \in BOOLEAN :
                 Has(PendingReports, UpFrame(k, q, b)) => k = "end" /\ Has(pending, q)
           /\ \A p \in Ports : \A i \in DOMAIN ReportsEnd(p) : ReportsEnd(p)[i].kind = "end"
           /\ \A p \in Ports, k \in UpKinds, q \in Orders, b \in BOOLEAN :
                 Has(ReportsEnd(p), UpFrame(k, q, b)) => k = "end" /\ q = running[p]
<1>1. DOMAIN PendingReports = DOMAIN pending
    BY DEF PendingReports
<1>2. \A i \in DOMAIN pending : PendingReports[i] = UpFrame("end", pending[i], TRUE)
    BY DEF PendingReports, EndReport
<1>3. \A p \in Ports : \A i \in DOMAIN ReportsEnd(p) :
          ReportsEnd(p)[i] = UpFrame("end", running[p], TRUE)
  <2> SUFFICES ASSUME NEW p \in Ports, NEW i \in DOMAIN ReportsEnd(p)
               PROVE  ReportsEnd(p)[i] = UpFrame("end", running[p], TRUE)
      OBVIOUS
  <2> DEFINE e == EndReport(running[p])
  <2>1. CASE running[p] = NoOrder
    <3>1. ReportsEnd(p) = <<>>
        BY <2>1 DEF ReportsEnd
    <3>2. DOMAIN ReportsEnd(p) = {}
        BY <3>1
    <3> QED
        BY <3>2
  <2>2. CASE running[p] # NoOrder
    <3>1. ReportsEnd(p) = <<e>>
        BY <2>2 DEF ReportsEnd
    <3> HIDE DEF e
    <3>2. DOMAIN <<e>> = {1} /\ <<e>>[1] = e
        OBVIOUS
    <3>3. ReportsEnd(p)[i] = e
        BY <3>1, <3>2
    <3> QED
        BY <3>3 DEF e, EndReport
  <2> QED
      BY <2>1, <2>2
<1>4. ASSUME NEW k \in UpKinds, NEW q \in Orders, NEW b \in BOOLEAN,
             Has(PendingReports, UpFrame(k, q, b))
      PROVE  k = "end" /\ Has(pending, q)
  <2>1. PICK i \in DOMAIN pending : PendingReports[i] = UpFrame(k, q, b)
      BY <1>1, <1>4 DEF Has
  <2>2. UpFrame("end", pending[i], TRUE) = UpFrame(k, q, b)
      BY <1>2, <2>1
  <2>3. k = "end" /\ q = pending[i]
      BY <2>2 DEF UpFrame
  <2> QED
      BY <2>3 DEF Has
<1>5. ASSUME NEW p \in Ports, NEW k \in UpKinds, NEW q \in Orders, NEW b \in BOOLEAN,
             Has(ReportsEnd(p), UpFrame(k, q, b))
      PROVE  k = "end" /\ q = running[p]
  <2>1. UpFrame("end", running[p], TRUE) = UpFrame(k, q, b)
      BY <1>3, <1>5 DEF Has
  <2> QED
      BY <2>1 DEF UpFrame
<1>6. \A i \in DOMAIN PendingReports : PendingReports[i].kind = "end"
    BY <1>1, <1>2 DEF UpFrame
<1>7. \A p \in Ports : \A i \in DOMAIN ReportsEnd(p) : ReportsEnd(p)[i].kind = "end"
    BY <1>3 DEF UpFrame
<1> QED
    BY <1>4, <1>5, <1>6, <1>7

-----------------------------------------------------------------------------

Typed ==
    /\ order \in [Orders -> OrderStatus]
    /\ startReceipt \in [Orders -> {"none", "ok", "refused"}]
    /\ endReceipt \subseteq Orders
    /\ cmd \in [Orders -> CmdStatus]
    /\ result \in [Orders -> {"none", "ok", "refused", "compensated"}]
    /\ portStatus \in [Ports -> {"idle", "charging"}]
    /\ holder \in [Ports -> Holders]
    /\ processed \subseteq Orders
    /\ running \in [Ports -> Holders]
    /\ completed \subseteq Orders
    /\ handler \in [Orders -> {"none", "marked", "written", "failed"}]
    /\ startBatch \subseteq [order : Orders, ok : BOOLEAN]
    /\ endBatch \subseteq Orders
    /\ endItem \in Holders
    /\ endDone \subseteq Orders

LEMMA TypedOf == TypeOK => Typed
BY DEF Typed, TypeOK, CentralTypeOK, GatewayTypeOK, DeviceTypeOK

-----------------------------------------------------------------------------
(* A step that leaves alone what a part of the invariant speaks of keeps it.*)

Ownership == PortOwnership /\ RunningIsHeld /\ ResultIsTrue /\ ChargingIsConfirmed

Frames == Unsent /\ StartTravels /\ StartFirst /\ OneStartAck /\ AckTravels /\ StopTravels

chargeVars == <<cmd, result, running, completed>>

LEMMA OwnershipKept ==
    ASSUME Ownership, UNCHANGED <<chargeVars, portStatus, holder>>
    PROVE  Ownership'
BY DEF chargeVars, Ownership, PortOwnership, UnansweredHoldsPort, HolderIsLive,
       ChargingPortIsHeld, PortIdleFor, RunningIsHeld, ResultIsTrue,
       ChargingIsConfirmed, EverEnergised, Energised

LEMMA FramesKept ==
    ASSUME Frames, UNCHANGED <<chargeVars, holder, handler, down, up>>
    PROVE  Frames'
BY DEF chargeVars, Frames, Unsent, Untouched, StartTravels, StartFirst, OneStartAck,
       AckTravels, StopTravels, DownHas, UpHas, EverEnergised, Energised

LEMMA BatchKept ==
    ASSUME StartBatchIsTrue, UNCHANGED <<result, running, completed>>,
           startBatch' \subseteq startBatch
    PROVE  StartBatchIsTrue'
BY DEF StartBatchIsTrue, EverEnergised, Energised

LEMMA OrderKept ==
    ASSUME OrderIsTrue, UNCHANGED <<chargeVars, order, startReceipt>>
    PROVE  OrderIsTrue'
BY DEF chargeVars, OrderIsTrue, EverEnergised, Energised

LEMMA EndKept ==
    ASSUME EndIsTrue,
           UNCHANGED <<pending, up, events, endItem, processed, endReceipt, order,
                       holder, completed>>,
           endBatch' \subseteq endBatch, endDone' \subseteq endDone
    PROVE  EndIsTrue'
BY DEF EndIsTrue, UpHas

-----------------------------------------------------------------------------
(* What a step may add to the frames in flight.                             *)

DownAdds(kind, o) ==
    \A k \in DownKinds, q \in Orders :
        DownHas(k, q)' => DownHas(k, q) \/ (k = kind /\ q = o)

DownShrinks == \A k \in DownKinds, q \in Orders : DownHas(k, q)' => DownHas(k, q)

UpShrinks ==
    \A k \in UpKinds, q \in Orders, b \in BOOLEAN : UpHas(k, q, b)' => UpHas(k, q, b)

LEMMA Sending ==
    ASSUME TypeOK, Consistent, NEW kind \in DownKinds, NEW o \in Orders,
           Send(kind, o) \/ UNCHANGED down,
           kind # "start" \/ (~DownHas("start", o) /\ ~DownHas("stop", o))
    PROVE  DownAdds(kind, o) /\ StartFirst'
<1>1. CASE Send(kind, o)
    BY <1>1, SendEffect, SendOrder DEF DownAdds, Consistent
<1>2. CASE UNCHANGED down
    BY <1>2 DEF DownAdds, DownHas, StartFirst, Consistent
<1> QED
    BY <1>1, <1>2

(* Losing frames, and handlers that die, disturb nothing else.              *)
LEMMA FramesLost ==
    ASSUME Frames, UNCHANGED <<chargeVars, holder>>,
           \A o \in Orders : handler'[o] \in {handler[o], "none"},
           DownShrinks, UpShrinks, StartFirst', OneStartAck'
    PROVE  Frames'
<1> USE DEF Frames, chargeVars, DownShrinks, UpShrinks, DownKinds, UpKinds,
            EverEnergised, Energised
<1>1. Unsent'
    BY DEF Unsent, Untouched
<1>2. StartTravels'
    BY DEF StartTravels
<1>3. AckTravels'
    BY DEF AckTravels
<1>4. StopTravels'
    BY DEF StopTravels
<1> QED
    BY <1>1, <1>2, <1>3, <1>4

LEMMA EndLost ==
    ASSUME EndIsTrue, UpShrinks,
           UNCHANGED <<pending, events, endBatch, endItem, endDone, processed,
                       endReceipt, order, holder, completed>>
    PROVE  EndIsTrue'
BY DEF EndIsTrue, UpShrinks, UpKinds

LEMMA LinkKept ==
    /\ UNCHANGED down => DownShrinks /\ StartFirst' = StartFirst
    /\ UNCHANGED up => UpShrinks /\ OneStartAck' = OneStartAck
<1>1. ASSUME UNCHANGED down PROVE DownShrinks /\ StartFirst' = StartFirst
    BY <1>1 DEF DownShrinks, DownHas, StartFirst
<1>2. ASSUME UNCHANGED up PROVE UpShrinks /\ OneStartAck' = OneStartAck
    BY <1>2 DEF UpShrinks, UpHas, OneStartAck
<1> QED
    BY <1>1, <1>2

LEMMA LinkDropped ==
    ASSUME DropLink
    PROVE  DownShrinks /\ UpShrinks /\ StartFirst' /\ OneStartAck'
BY LossEffect DEF DropLink, DownShrinks, UpShrinks

LEMMA Arriving ==
    ASSUME TypeOK, Consistent, NEW kind, Arrived(kind), up' = Tail(up)
    PROVE  \E o \in Orders, ok \in BOOLEAN :
               /\ o = Head(up).order /\ ok = Head(up).ok
               /\ kind \in UpKinds
               /\ UpHas(kind, o, ok)
               /\ UpShrinks /\ OneStartAck'
               /\ kind = "startack" => \A b \in BOOLEAN : ~UpHas("startack", o, b)'
<1>1. PICK o, ok : o = Head(up).order /\ ok = Head(up).ok
    OBVIOUS
<1>2. kind = Head(up).kind /\ up # <<>>
    BY DEF Arrived
<1> QED
    BY <1>1, <1>2, ArriveEffect DEF UpShrinks, Consistent

LEMMA Reading ==
    ASSUME TypeOK, Consistent, down # <<>>, down' = Tail(down)
    PROVE  \E kind \in DownKinds, o \in Orders :
               /\ kind = Head(down).kind /\ o = Head(down).order
               /\ DownHas(kind, o)
               /\ DownShrinks /\ StartFirst'
               /\ kind = "start" => ~DownHas("start", o)'
               /\ kind = "stop" => ~DownHas("start", o)
<1>1. PICK kind, o : kind = Head(down).kind /\ o = Head(down).order
    OBVIOUS
<1> QED
    BY <1>1, ReceiveEffect DEF DownShrinks, Consistent

(* The board answers a STOP only when nothing of the order is left to do.   *)
LEMMA FramesAnswered ==
    ASSUME Frames, UNCHANGED <<cmd, result, holder, handler>>,
           DownShrinks, StartFirst', OneStartAck',
           \A q \in Orders : EverEnergised(q)' <=> EverEnergised(q),
           \A q \in Orders : Energised(q)' => Energised(q),
           \A k \in UpKinds, q \in Orders, b \in BOOLEAN : UpHas(k, q, b)' =>
               \/ UpHas(k, q, b)
               \/ k \in {"end", "userstopack"}
               \/ k = "stopack" /\ DownHas("stop", q) /\ ~DownHas("start", q)
                    /\ ~Energised(q)'
    PROVE  Frames'
<1> USE DEF Frames, DownShrinks, DownKinds, UpKinds
<1>1. Unsent'
    BY DEF Unsent, Untouched
<1>2. StartTravels'
    BY DEF StartTravels
<1>3. AckTravels'
    BY DEF AckTravels
<1>4. StopTravels'
    BY DEF StopTravels
<1> QED
    BY <1>1, <1>2, <1>3, <1>4

LEMMA EndReported ==
    ASSUME EndIsTrue,
           UNCHANGED <<events, endBatch, endItem, endDone, processed, endReceipt, order, holder>>,
           completed \subseteq completed',
           \A q \in Orders : Has(pending, q)' => q \in completed',
           \A q \in Orders, b \in BOOLEAN :
               UpHas("end", q, b)' => UpHas("end", q, b) \/ q \in completed'
    PROVE  EndIsTrue'
BY DEF EndIsTrue

-----------------------------------------------------------------------------
(* One lemma per action: central, the worker and the calls between them.    *)

LEMMA PayKeeps ==
    ASSUME TypeOK, Consistent, NEW o \in Orders, Pay(o)
    PROVE  Consistent'
<1> USE OrdersAssumption, PortOfAssumption
    DEF Consistent, Ownership, Frames, chargeVars, Pay, CreatePaidOrder,
        gatewayVars, commandVars, portVars, eventVars, deviceVars, linkVars,
        workerVars, startVars, endVars
<1>0. Typed
    BY TypedOf
<1>1. Ownership' /\ Frames' /\ StartBatchIsTrue'
    BY OwnershipKept, FramesKept, BatchKept
<1>2. OrderIsTrue'
    BY <1>0 DEF Typed, OrderIsTrue, EverEnergised, Energised
<1>3. EndIsTrue'
  <2>1. UNCHANGED <<pending, events, up, completed, endBatch, endItem, endDone,
                    processed, endReceipt, holder>>
      OBVIOUS
  <2>2. \A q \in Orders : order'[q] = "completed" <=> order[q] = "completed"
      BY <1>0 DEF Typed
  <2>3. EndIsTrue
      OBVIOUS
  <2> HIDE DEF Consistent, Pay, CreatePaidOrder, Ownership, Frames
  <2> QED
      BY ONLY <2>1, <2>2, <2>3 DEF EndIsTrue, UpHas, UpFrame
<1> QED
    BY <1>1, <1>2, <1>3

LEMMA RefundKeeps ==
    ASSUME TypeOK, Consistent, NEW o \in Orders, Refund(o)
    PROVE  Consistent'
<1> USE OrdersAssumption, PortOfAssumption
    DEF Consistent, Ownership, Frames, chargeVars, Refund, RefundSucceeded,
        gatewayVars, commandVars, portVars, eventVars, deviceVars, linkVars,
        workerVars, startVars, endVars
<1>0. Typed
    BY TypedOf
<1>1. Ownership' /\ Frames' /\ StartBatchIsTrue'
    BY OwnershipKept, FramesKept, BatchKept
<1>2. OrderIsTrue'
    BY <1>0 DEF Typed, OrderIsTrue, EverEnergised, Energised
<1>3. EndIsTrue'
  <2>1. UNCHANGED <<pending, events, up, completed, endBatch, endItem, endDone,
                    processed, endReceipt, holder>>
      OBVIOUS
  <2>2. \A q \in Orders : order'[q] = "completed" <=> order[q] = "completed"
      BY <1>0 DEF Typed
  <2>3. EndIsTrue
      OBVIOUS
  <2> HIDE DEF Consistent, Refund, RefundSucceeded, Ownership, Frames
  <2> QED
      BY ONLY <2>1, <2>2, <2>3 DEF EndIsTrue, UpHas, UpFrame
<1> QED
    BY <1>1, <1>2, <1>3

LEMMA DispatchReserveKeeps ==
    ASSUME TypeOK, Consistent, NEW o \in Orders, DispatchReserve(o)
    PROVE  Consistent'
<1> USE OrdersAssumption, PortOfAssumption
    DEF Consistent, Ownership, Frames, chargeVars, DispatchReserve,
        ReserveStart, PortIdleFor, centralVars, eventVars, deviceVars,
        linkVars, workerVars, startVars, endVars
<1>0. Typed
    BY TypedOf
<1>1. StartBatchIsTrue'
    BY BatchKept
<1>2. PortOwnership'
    BY <1>0 DEF Typed, PortOwnership, UnansweredHoldsPort, HolderIsLive,
       ChargingPortIsHeld, Unsent, Untouched
<1>3. RunningIsHeld'
    BY <1>0 DEF Typed, RunningIsHeld, PortOwnership, UnansweredHoldsPort,
       HolderIsLive, ChargingPortIsHeld
<1>4. ResultIsTrue'
    BY <1>0 DEF Typed, ResultIsTrue, EverEnergised, Energised, PortOwnership,
       UnansweredHoldsPort, HolderIsLive, ChargingPortIsHeld
<1>5. ChargingIsConfirmed'
    BY <1>0 DEF Typed, ChargingIsConfirmed, PortOwnership,
       UnansweredHoldsPort, HolderIsLive, ChargingPortIsHeld
<1>6. Unsent'
    BY <1>0 DEF Typed, Unsent, Untouched, EverEnergised, Energised, DownHas,
       UpHas, ResultIsTrue
<1>7. StartTravels'
    BY <1>0 DEF Typed, StartTravels, EverEnergised, Energised, DownHas, UpHas,
       Unsent, Untouched, ResultIsTrue
<1>8. StartFirst'
    BY <1>0 DEF Typed, StartFirst
<1>9. OneStartAck'
    BY <1>0 DEF Typed, OneStartAck
<1>10. AckTravels'
    BY <1>0 DEF Typed, AckTravels, EverEnergised, Energised, DownHas, UpHas,
       Unsent, Untouched, ResultIsTrue
<1>11. StopTravels'
    BY <1>0 DEF Typed, StopTravels, Energised, DownHas, UpHas, Unsent,
       Untouched, ResultIsTrue
<1>12. OrderIsTrue'
    BY <1>0 DEF Typed, OrderIsTrue, EverEnergised, Energised
<1>13. EndIsTrue'
    BY <1>0 DEF Typed, EndIsTrue, UpHas, OrderIsTrue, Unsent, Untouched,
       EverEnergised
<1> QED
    BY <1>1, <1>2, <1>3, <1>4, <1>5, <1>6, <1>7, <1>8, <1>9, <1>10, <1>11,
       <1>12, <1>13

LEMMA DispatchSendKeeps ==
    ASSUME TypeOK, Consistent, NEW o \in Orders, DispatchSend(o)
    PROVE  Consistent'
<1> USE OrdersAssumption, PortOfAssumption
    DEF Consistent, Ownership, Frames, chargeVars, DispatchSend,
        MarkStartSent, Moved, centralVars, portVars, eventVars, deviceVars,
        linkVars, workerVars, startVars, endVars
<1>0. Typed
    BY TypedOf
<1>1. StartBatchIsTrue' /\ EndIsTrue'
    BY BatchKept, EndKept
<1>2. PortOwnership'
    BY <1>0 DEF Typed, PortOwnership, UnansweredHoldsPort, HolderIsLive,
       ChargingPortIsHeld, PortIdleFor, Unsent, Untouched
<1>3. RunningIsHeld'
    BY <1>0 DEF Typed, RunningIsHeld, Unsent, Untouched
<1>4. ResultIsTrue'
    BY <1>0 DEF Typed, ResultIsTrue, EverEnergised, Energised, Unsent,
       Untouched
<1>5. ChargingIsConfirmed'
    BY <1>0 DEF Typed, ChargingIsConfirmed, Unsent, Untouched
<1>6. Unsent'
    BY <1>0 DEF Typed, Unsent, Untouched, EverEnergised, Energised, DownHas,
       UpHas, ResultIsTrue
<1>7. StartTravels'
    BY <1>0 DEF Typed, StartTravels, EverEnergised, Energised, DownHas, UpHas,
       Unsent, Untouched, ResultIsTrue
<1>8. StartFirst'
    BY <1>0 DEF Typed, StartFirst, DownHas, UpHas, Unsent, Untouched,
       ResultIsTrue
<1>9. OneStartAck'
    BY <1>0 DEF Typed, OneStartAck, DownHas, UpHas, Unsent, Untouched,
       ResultIsTrue
<1>10. AckTravels'
    BY <1>0 DEF Typed, AckTravels, EverEnergised, Energised, DownHas, UpHas,
       Unsent, Untouched, ResultIsTrue
<1>11. StopTravels'
    BY <1>0 DEF Typed, StopTravels, Energised, DownHas, UpHas, Unsent,
       Untouched, ResultIsTrue
<1>12. OrderIsTrue'
    BY <1>0 DEF Typed, OrderIsTrue, EverEnergised, Energised
<1> QED
    BY <1>1, <1>2, <1>3, <1>4, <1>5, <1>6, <1>7, <1>8, <1>9, <1>10, <1>11,
       <1>12

LEMMA SendReturnsKeeps ==
    ASSUME TypeOK, Consistent, NEW o \in Orders, SendReturns(o)
    PROVE  Consistent'
<1> USE OrdersAssumption, PortOfAssumption
    DEF Consistent, Ownership, Frames, chargeVars, SendReturns, centralVars,
        gatewayVars, commandVars, portVars, eventVars, deviceVars, linkVars,
        workerVars, startVars, endVars
<1>0. Typed
    BY TypedOf
<1>1. Ownership' /\ StartBatchIsTrue' /\ OrderIsTrue' /\ EndIsTrue'
    BY OwnershipKept, BatchKept, OrderKept, EndKept
<1>2. Unsent'
    BY <1>0 DEF Typed, Unsent, Untouched, EverEnergised, Energised, DownHas,
       UpHas
<1>3. StartTravels'
    BY <1>0 DEF Typed, StartTravels, EverEnergised, Energised, DownHas, UpHas
<1>4. StartFirst'
    BY <1>0 DEF Typed, StartFirst, DownHas, UpHas
<1>5. OneStartAck'
    BY <1>0 DEF Typed, OneStartAck, DownHas, UpHas
<1>6. AckTravels'
    BY <1>0 DEF Typed, AckTravels, EverEnergised, Energised, DownHas, UpHas
<1>7. StopTravels'
    BY <1>0 DEF Typed, StopTravels, Energised, DownHas, UpHas
<1> QED
    BY <1>1, <1>2, <1>3, <1>4, <1>5, <1>6, <1>7

LEMMA StartFetchKeeps ==
    ASSUME TypeOK, Consistent, StartFetch
    PROVE  Consistent'
<1> USE OrdersAssumption, PortOfAssumption
    DEF Consistent, Ownership, Frames, chargeVars, StartFetch, centralVars,
        gatewayVars, commandVars, portVars, eventVars, deviceVars, linkVars,
        endVars
<1>0. Typed
    BY TypedOf
<1>1. Ownership' /\ Frames' /\ OrderIsTrue' /\ EndIsTrue'
    BY OwnershipKept, FramesKept, OrderKept, EndKept
<1>2. StartBatchIsTrue'
  <2> SUFFICES ASSUME NEW r \in StartRows
               PROVE  /\ r.ok => EverEnergised(r.order)
                      /\ ~r.ok => result[r.order] = "refused"
      BY DEF StartBatchIsTrue, EverEnergised, Energised
  <2>1. PICK o \in Orders :
            /\ r = StartRow(o, cmd[o] = "acked")
            /\ cmd[o] = "acked" \/ (cmd[o] = "rejected" /\ result[o] = "refused")
      BY DEF StartRows
  <2>2. r.order = o /\ (r.ok <=> cmd[o] = "acked")
      BY <2>1 DEF StartRow
  <2> QED
      BY <2>1, <2>2 DEF ResultIsTrue
<1> QED
    BY <1>1, <1>2

LEMMA StartPostFailsKeeps ==
    ASSUME TypeOK, Consistent, NEW r \in startBatch, StartPostFails(r)
    PROVE  Consistent'
<1> USE OrdersAssumption, PortOfAssumption
    DEF Consistent, Ownership, Frames, chargeVars, StartPostFails,
        centralVars, gatewayVars, commandVars, portVars, eventVars,
        deviceVars, linkVars, endVars
<1>0. Typed
    BY TypedOf
<1>1. Ownership' /\ Frames' /\ StartBatchIsTrue' /\ OrderIsTrue' /\ EndIsTrue'
    BY OwnershipKept, FramesKept, BatchKept, OrderKept, EndKept
<1> QED
    BY <1>1

LEMMA StartMarkKeeps ==
    ASSUME TypeOK, Consistent, StartMark
    PROVE  Consistent'
<1> USE OrdersAssumption, PortOfAssumption
    DEF Consistent, Ownership, Frames, chargeVars, StartMark, MarkReported,
        centralVars, portVars, eventVars, deviceVars, linkVars, endVars
<1>0. Typed
    BY TypedOf
<1>1. Ownership' /\ Frames' /\ StartBatchIsTrue' /\ OrderIsTrue' /\ EndIsTrue'
    BY OwnershipKept, FramesKept, BatchKept, OrderKept, EndKept
<1> QED
    BY <1>1

LEMMA EndFetchKeeps ==
    ASSUME TypeOK, Consistent, EndFetch
    PROVE  Consistent'
<1> USE OrdersAssumption, PortOfAssumption
    DEF Consistent, Ownership, Frames, chargeVars, EndFetch, centralVars,
        gatewayVars, commandVars, portVars, eventVars, deviceVars, linkVars,
        startVars
<1>0. Typed
    BY TypedOf
<1>a. Recorded \subseteq completed
  <2>1. \A i \in DOMAIN events : Has(events, events[i]) /\ events[i] \in Orders
      BY DEF Has, TypeOK, GatewayTypeOK
  <2> QED
      BY <2>1 DEF Recorded, EndIsTrue
<1>1. Ownership' /\ Frames' /\ StartBatchIsTrue' /\ OrderIsTrue'
    BY OwnershipKept, FramesKept, BatchKept, OrderKept
<1>2. EndIsTrue'
    BY <1>0, <1>a DEF Typed, EndIsTrue, UpHas
<1> QED
    BY <1>1, <1>2

LEMMA EndSkipKeeps ==
    ASSUME TypeOK, Consistent, NEW o \in Orders, EndSkip(o)
    PROVE  Consistent'
<1> USE OrdersAssumption, PortOfAssumption
    DEF Consistent, Ownership, Frames, chargeVars, EndSkip, centralVars,
        gatewayVars, commandVars, portVars, eventVars, deviceVars, linkVars,
        startVars
<1>0. Typed
    BY TypedOf
<1>1. Ownership' /\ Frames' /\ StartBatchIsTrue' /\ OrderIsTrue' /\ EndIsTrue'
    BY OwnershipKept, FramesKept, BatchKept, OrderKept, EndKept
<1> QED
    BY <1>1

LEMMA EndReplyLostKeeps ==
    ASSUME TypeOK, Consistent, EndReplyLost
    PROVE  Consistent'
<1> USE OrdersAssumption, PortOfAssumption
    DEF Consistent, Ownership, Frames, chargeVars, EndReplyLost, centralVars,
        gatewayVars, commandVars, portVars, eventVars, deviceVars, linkVars,
        startVars
<1>0. Typed
    BY TypedOf
<1>1. Ownership' /\ Frames' /\ StartBatchIsTrue' /\ OrderIsTrue'
    BY OwnershipKept, FramesKept, BatchKept, OrderKept
<1>2. EndIsTrue'
    BY <1>0 DEF Typed, EndIsTrue, UpHas
<1> QED
    BY <1>1, <1>2

LEMMA EndMarkKeeps ==
    ASSUME TypeOK, Consistent, EndMark
    PROVE  Consistent'
<1> USE OrdersAssumption, PortOfAssumption
    DEF Consistent, Ownership, Frames, chargeVars, EndMark, MarkProcessed,
        centralVars, commandVars, portVars, eventVars, deviceVars, linkVars,
        startVars
<1>0. Typed
    BY TypedOf
<1>1. Ownership' /\ Frames' /\ StartBatchIsTrue' /\ OrderIsTrue'
    BY OwnershipKept, FramesKept, BatchKept, OrderKept
<1>2. EndIsTrue'
    BY <1>0 DEF Typed, EndIsTrue, UpHas
<1> QED
    BY <1>1, <1>2

LEMMA WorkerAbortKeeps ==
    ASSUME TypeOK, Consistent, WorkerAbort
    PROVE  Consistent'
<1> USE OrdersAssumption, PortOfAssumption
    DEF Consistent, Ownership, Frames, chargeVars, WorkerAbort, centralVars,
        gatewayVars, commandVars, portVars, eventVars, deviceVars, linkVars
<1>0. Typed
    BY TypedOf
<1>1. Ownership' /\ Frames' /\ StartBatchIsTrue' /\ OrderIsTrue'
    BY OwnershipKept, FramesKept, BatchKept, OrderKept
<1>2. EndIsTrue'
    BY <1>0 DEF Typed, EndIsTrue, UpHas
<1> QED
    BY <1>1, <1>2

LEMMA StartPostKeeps ==
    ASSUME TypeOK, Consistent, NEW r \in startBatch, StartPost(r)
    PROVE  Consistent'
<1> USE OrdersAssumption, PortOfAssumption
    DEF Consistent, Ownership, Frames, chargeVars, StartPost, Posted,
        gatewayVars, commandVars, portVars, eventVars, deviceVars, linkVars,
        centralVars, endVars
<1>0. Typed
    BY TypedOf
<1>a. r.order \in Orders
    BY <1>0 DEF Typed
<1>1. Ownership' /\ Frames' /\ StartBatchIsTrue'
    BY OwnershipKept, FramesKept, BatchKept
<1>2. OrderIsTrue'
    BY <1>0, <1>a DEF Typed, OrderIsTrue, EverEnergised, Energised,
       ApplyStartOK, ApplyStartRefused, StartApplicable, StartBatchIsTrue
<1>3. EndIsTrue'
  <2>1. CASE UNCHANGED centralVars
      BY <2>1, EndKept
  <2>2. CASE ApplyStartOK(r.order) \/ ApplyStartRefused(r.order)
    <3>1. /\ order[r.order] = "paid"
          /\ \A o \in Orders : order'[o] = "completed" <=> order[o] = "completed"
          /\ endReceipt' = endReceipt
        BY <1>0, <1>a, <2>2 DEF Typed, ApplyStartOK, ApplyStartRefused, StartApplicable
    <3> QED
        BY <3>1 DEF EndIsTrue, UpHas
  <2> QED
      BY <2>1, <2>2
<1> QED
    BY <1>1, <1>2, <1>3

LEMMA EndPostKeeps ==
    ASSUME TypeOK, Consistent, NEW o \in Orders, EndPost(o)
    PROVE  Consistent'
<1> USE OrdersAssumption, PortOfAssumption
    DEF Consistent, Ownership, Frames, chargeVars, EndPost, gatewayVars,
        commandVars, portVars, eventVars, deviceVars, linkVars, startVars,
        centralVars
<1>0. Typed
    BY TypedOf
<1>a. o \in completed
    BY DEF NextEnd, EndIsTrue
<1>1. Ownership' /\ Frames' /\ StartBatchIsTrue'
    BY OwnershipKept, FramesKept, BatchKept
<1>2. OrderIsTrue'
    BY <1>0, <1>a DEF Typed, OrderIsTrue, EverEnergised, Energised, ApplyEnd,
       EndApplicable
<1>3. EndIsTrue'
  <2>1. /\ endReceipt' = endReceipt \cup {o}
        /\ \A q \in Orders : order'[q] = "completed" <=> (q = o \/ order[q] = "completed")
      BY <1>0 DEF Typed, ApplyEnd, EndApplicable, EndReplayed, EndIsTrue
  <2> QED
      BY <1>0, <1>a, <2>1 DEF Typed, EndIsTrue, UpHas
<1> QED
    BY <1>1, <1>2, <1>3

LEMMA EndReleaseKeeps ==
    ASSUME TypeOK, Consistent, EndRelease
    PROVE  Consistent'
<1> USE OrdersAssumption, PortOfAssumption
    DEF Consistent, Ownership, Frames, chargeVars, EndRelease, centralVars,
        gatewayVars, commandVars, eventVars, deviceVars, linkVars, startVars
<1>0. Typed
    BY TypedOf
<1>1. endItem \in Orders /\ endItem \in endReceipt /\ endItem \in completed
    BY <1>0 DEF Typed, Holders, EndIsTrue
<1>2. UNCHANGED <<chargeVars, order, startReceipt, startBatch, handler, down, up>>
    BY DEF ReleasePort
<1>3. StartBatchIsTrue' /\ OrderIsTrue'
    BY <1>2, BatchKept, OrderKept
<1>4. CASE ReleaseConflict(endItem)
  <2>1. UNCHANGED gatewayVars /\ endBatch' = {} /\ endDone' = {} /\ endItem' = NoOrder
      BY <1>4
  <2>2. Ownership' /\ Frames'
      BY <1>2, <2>1, OwnershipKept, FramesKept DEF portVars
  <2>3. UNCHANGED <<pending, up, events, processed, endReceipt, order, holder, completed>>
      BY <2>1 DEF portVars
  <2>4. \A q \in endDone' \cup processed' : q \in endReceipt' /\ holder'[PortOf[q]] # q
      BY <2>1, <2>3 DEF EndIsTrue
  <2>5. EndIsTrue'
      BY <2>1, <2>3, <2>4 DEF EndIsTrue, UpHas
  <2> QED
      BY <1>3, <2>2, <2>5
<1>5. CASE ~ReleaseConflict(endItem)
  <2> DEFINE p == PortOf[endItem]
  <2>1. /\ p \in Ports
        /\ \/ portStatus[p] = "charging" /\ holder[p] = endItem
           \/ portStatus[p] = "idle" /\ holder[p] = NoOrder
        /\ portStatus' = [portStatus EXCEPT ![p] = "idle"]
        /\ holder' = [holder EXCEPT ![p] = NoOrder]
      BY <1>1, <1>5 DEF ReleasePort, ReleaseConflict, ReleaseFrees, PortIdleFor
  <2>2. PortOwnership'
      BY <1>0, <1>1, <1>2, <2>1
      DEF Typed, PortOwnership, UnansweredHoldsPort, HolderIsLive, ChargingPortIsHeld,
          PortIdleFor
  <2>3. RunningIsHeld'
      BY <1>0, <1>1, <1>2, <2>1 DEF Typed, RunningIsHeld
  <2>4. ResultIsTrue'
      BY <1>2 DEF ResultIsTrue, EverEnergised, Energised
  <2>5. ChargingIsConfirmed'
      BY <1>0, <1>1, <1>2, <2>1 DEF Typed, ChargingIsConfirmed
  <2>6. StartTravels'
      BY <1>0, <1>1, <1>2, <2>1
      DEF Typed, StartTravels, DownHas, UpHas, EverEnergised, Energised
  <2>7. Unsent' /\ StartFirst' /\ OneStartAck' /\ AckTravels' /\ StopTravels'
      BY <1>2
      DEF Unsent, Untouched, StartFirst, OneStartAck, AckTravels, StopTravels,
          DownHas, UpHas, EverEnergised, Energised
  <2>8. EndIsTrue'
    <3>1. \A q \in Orders : holder'[PortOf[q]] \in {holder[PortOf[q]], NoOrder}
        BY <1>0, <2>1 DEF Typed
    <3>2. holder'[PortOf[endItem]] = NoOrder
        BY <1>0, <2>1 DEF Typed
    <3>3. UNCHANGED <<pending, up, events, endReceipt, order, completed, processed>>
        BY <1>5 DEF ReleasePort
    <3>4. \A q \in endDone' \cup processed' : q \in endReceipt' /\ holder'[PortOf[q]] # q
      <4>1. endDone' = endDone \cup {endItem} /\ endDone \subseteq Orders /\ processed \subseteq Orders
          BY <1>0, <1>5 DEF Typed
      <4>2. \A q \in endDone \cup processed : q \in endReceipt /\ holder[PortOf[q]] # q
          BY DEF EndIsTrue
      <4> QED
          BY <1>1, <3>1, <3>2, <3>3, <4>1, <4>2
    <3>5. endItem' = NoOrder /\ endBatch' = endBatch
        BY <1>5
    <3> QED
        BY <3>3, <3>4, <3>5 DEF EndIsTrue, UpHas
  <2> QED
      BY <1>3, <2>2, <2>3, <2>4, <2>5, <2>6, <2>7, <2>8
<1> QED
    BY <1>4, <1>5

-----------------------------------------------------------------------------
(* The gateway: what it sends and what it records.                          *)

LEMMA WriteStartKeeps ==
    ASSUME TypeOK, Consistent, NEW o \in Orders, WriteStart(o)
    PROVE  Consistent'
<1> USE OrdersAssumption, PortOfAssumption
    DEF Consistent, Ownership, Frames, chargeVars, WriteStart, centralVars,
        gatewayVars, commandVars, portVars, eventVars, deviceVars, workerVars,
        startVars, endVars
<1>0. Typed
    BY TypedOf
<1>a. DownAdds("start", o) /\ StartFirst'
    BY Sending DEF DownKinds, TrySend, Unsent, Untouched
<1>b. /\ cmd[o] = "sent" /\ result[o] = "none" /\ holder[PortOf[o]] = o /\ Untouched(o)
    BY DEF Unsent, ResultIsTrue, PortOwnership, UnansweredHoldsPort, PortIdleFor
<1>c. ~EverEnergised(o) /\ \A b \in BOOLEAN : ~UpHas("startack", o, b) /\ ~UpHas("stopack", o, b)
    BY <1>b DEF Untouched
<1>d. handler'[o] = "failed" => ~DownHas("start", o)' /\ ~DownHas("stop", o)'
    BY <1>0, <1>b DEF Typed, Untouched, DownHas
<1>1. Ownership' /\ StartBatchIsTrue' /\ OrderIsTrue' /\ EndIsTrue'
    BY OwnershipKept, BatchKept, OrderKept, EndKept
<1>2. Unsent'
    BY <1>0, <1>a, <1>b, <1>c, <1>d DEF Typed, Unsent, Untouched,
       EverEnergised, Energised, DownAdds, DownKinds, UpHas
<1>3. StartTravels'
    BY <1>0, <1>a, <1>b, <1>c DEF Typed, StartTravels, EverEnergised,
       Energised, DownAdds, DownKinds, UpHas
<1>4. StartFirst'
    BY <1>a
<1>5. OneStartAck'
    BY DEF OneStartAck
<1>6. AckTravels'
    BY <1>0, <1>a, <1>b, <1>c DEF Typed, AckTravels, EverEnergised, Energised,
       DownAdds, DownKinds, UpHas
<1>7. StopTravels'
    BY <1>0, <1>a, <1>b, <1>c DEF Typed, StopTravels, Energised, DownAdds,
       DownKinds, UpHas
<1> QED
    BY <1>1, <1>2, <1>3, <1>4, <1>5, <1>6, <1>7

LEMMA SendFailsKeeps ==
    ASSUME TypeOK, Consistent, NEW o \in Orders, SendFails(o)
    PROVE  Consistent'
<1> USE OrdersAssumption, PortOfAssumption
    DEF Consistent, Ownership, Frames, chargeVars, SendFails,
        MarkStartStopping, Moved, centralVars, portVars, eventVars,
        deviceVars, workerVars, startVars, endVars
<1>0. Typed
    BY TypedOf
<1>a. DownAdds("stop", o) /\ StartFirst'
    BY Sending DEF DownKinds, TrySend
<1>b. cmd[o] \notin {"none", "pending"}
    BY DEF Unsent
<1>c. cmd'[o] \in {"stopping", "rejected"} /\ \A q \in Orders \ {o} : cmd'[q] = cmd[q]
    BY <1>0, <1>b DEF Typed, CmdStatus
<1>1. StartBatchIsTrue' /\ EndIsTrue'
    BY BatchKept, EndKept
<1>2. PortOwnership'
    BY <1>0, <1>b DEF Typed, PortOwnership, UnansweredHoldsPort, HolderIsLive,
       ChargingPortIsHeld, PortIdleFor
<1>3. RunningIsHeld'
    BY <1>0, <1>b DEF Typed, RunningIsHeld
<1>4. ResultIsTrue'
    BY <1>0, <1>b DEF Typed, ResultIsTrue, EverEnergised, Energised
<1>5. ChargingIsConfirmed'
    BY <1>0, <1>b DEF Typed, ChargingIsConfirmed
<1>6. Unsent'
    BY <1>0, <1>a, <1>b DEF Typed, Unsent, Untouched, EverEnergised,
       Energised, DownAdds, DownKinds, UpHas
<1>7. StartTravels'
    BY <1>0, <1>a, <1>b DEF Typed, StartTravels, EverEnergised, Energised,
       DownAdds, DownKinds, UpHas
<1>8. StartFirst'
    BY <1>a
<1>9. OneStartAck'
    BY DEF OneStartAck
<1>10. AckTravels'
    BY <1>0, <1>a, <1>b DEF Typed, AckTravels, EverEnergised, Energised,
       DownAdds, DownKinds, UpHas
<1>11. StopTravels'
    BY <1>0, <1>a, <1>c DEF Typed, StopTravels, Energised, DownAdds,
       DownKinds, UpHas
<1>12. OrderIsTrue'
    BY <1>0, <1>b DEF Typed, OrderIsTrue, EverEnergised, Energised
<1> QED
    BY <1>1, <1>2, <1>3, <1>4, <1>5, <1>6, <1>7, <1>8, <1>9, <1>10, <1>11,
       <1>12

LEMMA RetryStoppingKeeps ==
    ASSUME TypeOK, Consistent, NEW o \in Orders, RetryStopping(o)
    PROVE  Consistent'
<1> USE OrdersAssumption, PortOfAssumption
    DEF Consistent, Ownership, Frames, chargeVars, RetryStopping, centralVars,
        gatewayVars, commandVars, portVars, eventVars, deviceVars, workerVars,
        startVars, endVars
<1>0. Typed
    BY TypedOf
<1>a. DownAdds("stop", o) /\ StartFirst'
    BY Sending DEF DownKinds, TrySend
<1>1. Ownership' /\ StartBatchIsTrue' /\ OrderIsTrue' /\ EndIsTrue'
    BY OwnershipKept, BatchKept, OrderKept, EndKept
<1>2. Unsent'
    BY <1>0, <1>a DEF Typed, Unsent, Untouched, EverEnergised, Energised,
       DownAdds, DownKinds, UpHas
<1>3. StartTravels'
    BY <1>0, <1>a DEF Typed, StartTravels, EverEnergised, Energised, DownAdds,
       DownKinds, UpHas
<1>4. StartFirst'
    BY <1>a
<1>5. OneStartAck'
    BY DEF OneStartAck
<1>6. AckTravels'
    BY <1>0, <1>a DEF Typed, AckTravels, EverEnergised, Energised, DownAdds,
       DownKinds, UpHas
<1>7. StopTravels'
    BY <1>0, <1>a DEF Typed, StopTravels, Energised, DownAdds, DownKinds,
       UpHas
<1> QED
    BY <1>1, <1>2, <1>3, <1>4, <1>5, <1>6, <1>7

LEMMA UserStopRequestKeeps ==
    ASSUME TypeOK, Consistent, NEW o \in Orders, UserStopRequest(o)
    PROVE  Consistent'
<1> USE OrdersAssumption, PortOfAssumption
    DEF Consistent, Ownership, Frames, chargeVars, UserStopRequest,
        ReserveUserStop, centralVars, commandVars, portVars, eventVars,
        deviceVars, workerVars, startVars, endVars
<1>0. Typed
    BY TypedOf
<1>a. DownAdds("userstop", o) /\ StartFirst'
    BY Sending DEF DownKinds, TrySend
<1>1. Ownership' /\ StartBatchIsTrue' /\ OrderIsTrue' /\ EndIsTrue'
    BY OwnershipKept, BatchKept, OrderKept, EndKept
<1>2. Unsent'
    BY <1>0, <1>a DEF Typed, Unsent, Untouched, EverEnergised, Energised,
       DownAdds, DownKinds, UpHas
<1>3. StartTravels'
    BY <1>0, <1>a DEF Typed, StartTravels, EverEnergised, Energised, DownAdds,
       DownKinds, UpHas
<1>4. StartFirst'
    BY <1>a
<1>5. OneStartAck'
    BY DEF OneStartAck
<1>6. AckTravels'
    BY <1>0, <1>a DEF Typed, AckTravels, EverEnergised, Energised, DownAdds,
       DownKinds, UpHas
<1>7. StopTravels'
    BY <1>0, <1>a DEF Typed, StopTravels, Energised, DownAdds, DownKinds,
       UpHas
<1> QED
    BY <1>1, <1>2, <1>3, <1>4, <1>5, <1>6, <1>7

LEMMA RetryUserStopKeeps ==
    ASSUME TypeOK, Consistent, NEW o \in Orders, RetryUserStop(o)
    PROVE  Consistent'
<1> USE OrdersAssumption, PortOfAssumption
    DEF Consistent, Ownership, Frames, chargeVars, RetryUserStop,
        MarkUserStopSent, centralVars, commandVars, portVars, eventVars,
        deviceVars, workerVars, startVars, endVars
<1>0. Typed
    BY TypedOf
<1>a. DownAdds("userstop", o) /\ StartFirst'
    BY Sending DEF DownKinds, TrySend
<1>1. Ownership' /\ StartBatchIsTrue' /\ OrderIsTrue' /\ EndIsTrue'
    BY OwnershipKept, BatchKept, OrderKept, EndKept
<1>2. Unsent'
    BY <1>0, <1>a DEF Typed, Unsent, Untouched, EverEnergised, Energised,
       DownAdds, DownKinds, UpHas
<1>3. StartTravels'
    BY <1>0, <1>a DEF Typed, StartTravels, EverEnergised, Energised, DownAdds,
       DownKinds, UpHas
<1>4. StartFirst'
    BY <1>a
<1>5. OneStartAck'
    BY DEF OneStartAck
<1>6. AckTravels'
    BY <1>0, <1>a DEF Typed, AckTravels, EverEnergised, Energised, DownAdds,
       DownKinds, UpHas
<1>7. StopTravels'
    BY <1>0, <1>a DEF Typed, StopTravels, Energised, DownAdds, DownKinds,
       UpHas
<1> QED
    BY <1>1, <1>2, <1>3, <1>4, <1>5, <1>6, <1>7

LEMMA StartPostConflictKeeps ==
    ASSUME TypeOK, Consistent, NEW r \in startBatch, StartPostConflict(r)
    PROVE  Consistent'
<1> USE OrdersAssumption, PortOfAssumption
    DEF Consistent, Ownership, Frames, chargeVars
<1> DEFINE o == r.order
<1>0. Typed
    BY TypedOf
<1>1. o \in Orders
    BY <1>0 DEF Typed
<1>2. /\ startBatch' \subseteq startBatch
      /\ UNCHANGED <<running, completed, pending, order, startReceipt, endReceipt, up,
                    handler, endBatch, endItem, endDone, events, processed,
                    result, holder, portStatus>>
      /\ \/ UNCHANGED <<cmd, down>>
         \/ /\ cmd[o] \in {"sent", "acked", "stopping"} /\ EverEnergised(o)
            /\ cmd' = [cmd EXCEPT ![o] = "stopping"]
            /\ TrySend("stop", o)
  <2>1. r.ok => cmd[o] \notin {"none", "pending"} /\ EverEnergised(o)
      BY <1>1 DEF StartBatchIsTrue, Unsent, Untouched
  <2>2. CASE UNCHANGED gatewayVars /\ UNCHANGED down
      BY <2>2
      DEF StartPostConflict, gatewayVars, commandVars, portVars, eventVars, deviceVars,
          centralVars, endVars
  <2>3. CASE r.ok /\ CompensateStart(o)
      BY <1>0, <1>1, <2>1, <2>3
      DEF StartPostConflict, CompensateStart, Typed, CmdStatus, eventVars, deviceVars,
          centralVars, endVars
  <2> QED
      BY <2>2, <2>3 DEF StartPostConflict
<1>3. StartBatchIsTrue' /\ EndIsTrue'
    BY <1>2, BatchKept, EndKept
<1>4. CASE UNCHANGED <<cmd, down>>
    BY <1>2, <1>3, <1>4, OwnershipKept, FramesKept, OrderKept
<1>5. CASE /\ cmd[o] \in {"sent", "acked", "stopping"} /\ EverEnergised(o)
           /\ cmd' = [cmd EXCEPT ![o] = "stopping"]
           /\ TrySend("stop", o)
  <2>1. DownAdds("stop", o) /\ StartFirst'
      BY <1>1, <1>5, Sending DEF TrySend, DownKinds
  <2>2. PortOwnership'
      BY <1>0, <1>1, <1>2, <1>5
      DEF Typed, PortOwnership, UnansweredHoldsPort, HolderIsLive, ChargingPortIsHeld,
          PortIdleFor
  <2>3. RunningIsHeld' /\ ChargingIsConfirmed' /\ OrderIsTrue'
      BY <1>0, <1>1, <1>2, <1>5
      DEF Typed, RunningIsHeld, ChargingIsConfirmed, OrderIsTrue, EverEnergised, Energised
  <2>4. ResultIsTrue'
      BY <1>0, <1>1, <1>2, <1>5 DEF Typed, ResultIsTrue, EverEnergised, Energised
  <2>5. Unsent'
      BY <1>0, <1>1, <1>2, <1>5, <2>1
      DEF Typed, Unsent, Untouched, DownAdds, DownKinds, UpHas, ResultIsTrue, EverEnergised, Energised
  <2>6. StartTravels'
      BY <1>0, <1>1, <1>2, <1>5, <2>1
      DEF Typed, StartTravels, DownAdds, DownKinds, UpHas, EverEnergised, Energised
  <2>7. StopTravels'
      BY <1>0, <1>1, <1>2, <1>5, <2>1
      DEF Typed, StopTravels, DownAdds, DownKinds, UpHas, Energised
  <2>8. AckTravels' /\ OneStartAck'
      BY <1>0, <1>1, <1>2, <1>5
      DEF Typed, AckTravels, OneStartAck, UpHas, EverEnergised, Energised, ResultIsTrue
  <2> QED
      BY <1>3, <2>1, <2>2, <2>3, <2>4, <2>5, <2>6, <2>7, <2>8
<1> QED
    BY <1>2, <1>4, <1>5

LEMMA RecordStartAckKeeps ==
    ASSUME TypeOK, Consistent, RecordStartAck
    PROVE  Consistent'
<1> USE OrdersAssumption, PortOfAssumption
    DEF Consistent, Ownership, Frames, chargeVars, UpKinds
<1>0. Typed
    BY TypedOf
<1>1. PICK o \in Orders, ok \in BOOLEAN :
          /\ o = Head(up).order /\ ok = Head(up).ok
          /\ UpHas("startack", o, ok)
          /\ UpShrinks /\ OneStartAck'
          /\ \A b \in BOOLEAN : ~UpHas("startack", o, b)'
    BY Arriving DEF RecordStartAck
<1>2. /\ UNCHANGED <<running, completed, pending, order, startReceipt, endReceipt, down,
                    handler, startBatch, endBatch, endItem, endDone, events, processed>>
      /\ StartAckRecorded(o, ok)
    BY <1>1 DEF RecordStartAck, StartAckRecorded, StartAckConfirms, StartAckRejects, centralVars,
           gatewayVars, eventVars, deviceVars, workerVars, startVars, endVars
<1>3. /\ EverEnergised(o) <=> ok
      /\ cmd[o] = "rejected" \/ (cmd[o] \in {"sent", "stopping"} /\ result[o] = "none")
      /\ ~DownHas("start", o)
    BY <1>1 DEF AckTravels, StartTravels
<1>4. DownShrinks /\ StartFirst'
    BY <1>2, LinkKept
<1>5. CASE UNCHANGED gatewayVars
    BY <1>1, <1>2, <1>4, <1>5, OwnershipKept, FramesLost, BatchKept, OrderKept, EndLost
    DEF gatewayVars, commandVars, portVars
<1>6. CASE StartAckConfirms(o)
  <2> USE DEF StartAckConfirms, Moved, PortIdleFor
  <2>1. ok
      BY <1>0, <1>1, <1>2, <1>3, <1>6 DEF Typed, StartAckRecorded, StartAckRejects
  <2>2. PortOwnership' /\ RunningIsHeld'
      BY <1>0, <1>1, <1>2, <1>6
      DEF Typed, PortOwnership, UnansweredHoldsPort, HolderIsLive, ChargingPortIsHeld,
          RunningIsHeld
  <2>3. ResultIsTrue'
    <3>1. \A q \in Orders : EverEnergised(q)' <=> EverEnergised(q)
        BY <1>2 DEF EverEnergised, Energised
    <3>2. EverEnergised(o)
        BY <1>3, <2>1
    <3> QED
        BY <1>0, <1>1, <1>6, <3>1, <3>2 DEF Typed, ResultIsTrue
  <2>10. ChargingIsConfirmed'
      BY <1>0, <1>1, <1>6 DEF Typed, ChargingIsConfirmed
  <2>4. Unsent'
      BY <1>0, <1>1, <1>2, <1>3, <1>6, <2>1
      DEF Typed, Unsent, Untouched, UpShrinks, DownHas, EverEnergised, Energised
  <2>5. StartTravels'
      BY <1>0, <1>1, <1>2, <1>3, <1>6
      DEF Typed, StartTravels, UpShrinks, DownHas, EverEnergised, Energised
  <2>8. StopTravels'
      BY <1>0, <1>1, <1>2, <1>3, <1>6
      DEF Typed, StopTravels, UpShrinks, DownHas, Energised
  <2>9. AckTravels'
      BY <1>0, <1>1, <1>2, <1>3, <1>6
      DEF Typed, AckTravels, UpShrinks, EverEnergised, Energised
  <2>6. StartBatchIsTrue' /\ OrderIsTrue'
      BY <1>0, <1>1, <1>2, <1>3, <1>6
      DEF Typed, StartBatchIsTrue, OrderIsTrue, EverEnergised, Energised
  <2>7. EndIsTrue'
      BY <1>1, <1>2, <1>6, EndLost
  <2> QED
      BY <1>1, <1>4, <2>2, <2>3, <2>4, <2>5, <2>6, <2>7, <2>8, <2>9, <2>10
<1>7. CASE StartAckRejects(o)
  <2>1. ~ok
      BY <1>0, <1>1, <1>2, <1>3, <1>7
      DEF Typed, StartAckRecorded, StartAckConfirms, StartAckRejects, Moved, gatewayVars,
          commandVars
  <2>2. /\ result[o] = "none" /\ ~EverEnergised(o)
        /\ cmd[o] \in {"sent", "stopping"}
        /\ cmd' = [cmd EXCEPT ![o] = "rejected"]
        /\ result' = [result EXCEPT ![o] = "refused"]
        /\ UNCHANGED portStatus
        /\ holder' = [holder EXCEPT ![PortOf[o]] = IF PortIdleFor(o, o) THEN NoOrder ELSE @]
      BY <1>0, <1>3, <1>7, <2>1 DEF StartAckRejects, Moved, Unreserved, Typed
  <2>3. ~(portStatus[PortOf[o]] = "charging" /\ holder[PortOf[o]] = o)
      BY <1>0, <1>1, <2>2 DEF Typed, ChargingIsConfirmed
  <2>4. \A p \in Ports : holder'[p] \in {holder[p], NoOrder} /\ holder'[p] # o
      BY <1>0, <1>1, <2>2, <2>3 DEF Typed, PortOwnership, HolderIsLive, PortIdleFor
  <2>5. \A p \in Ports : holder'[p] # holder[p] =>
             p = PortOf[o] /\ holder[p] = o /\ portStatus[p] = "idle"
      BY <1>0, <1>1, <2>2 DEF Typed, PortIdleFor
  <2>6. PortOwnership'
    <3>1. UnansweredHoldsPort'
        BY <1>0, <1>1, <2>2, <2>5 DEF Typed, PortOwnership, UnansweredHoldsPort, PortIdleFor
    <3>2. HolderIsLive'
        BY <1>0, <1>1, <2>2, <2>4 DEF Typed, PortOwnership, HolderIsLive
    <3>3. ChargingPortIsHeld'
        BY <1>0, <1>1, <2>2, <2>4, <2>5 DEF Typed, PortOwnership, ChargingPortIsHeld
    <3> QED
        BY <3>1, <3>2, <3>3 DEF PortOwnership
  <2>7. RunningIsHeld'
      BY <1>0, <1>1, <1>2, <2>2, <2>4, <2>5 DEF Typed, RunningIsHeld, EverEnergised, Energised
  <2>8. ResultIsTrue' /\ ChargingIsConfirmed'
      BY <1>0, <1>1, <1>2, <2>2, <2>4, <2>5
      DEF Typed, ResultIsTrue, ChargingIsConfirmed, EverEnergised, Energised
  <2>9. Unsent'
      BY <1>0, <1>1, <1>2, <2>2
      DEF Typed, Unsent, Untouched, UpShrinks, DownHas, EverEnergised, Energised
  <2>10. StartTravels'
      BY <1>0, <1>1, <1>2, <1>3, <2>2, <2>4, <2>5
      DEF Typed, StartTravels, UpShrinks, DownHas, EverEnergised, Energised
  <2>11. StopTravels' /\ AckTravels'
      BY <1>0, <1>1, <1>2, <2>2
      DEF Typed, StopTravels, AckTravels, UpShrinks, DownHas, EverEnergised, Energised
  <2>12. StartBatchIsTrue' /\ OrderIsTrue'
      BY <1>0, <1>1, <1>2, <2>2
      DEF Typed, StartBatchIsTrue, OrderIsTrue, EverEnergised, Energised
  <2>13. EndIsTrue'
    <3>1. \A q \in endDone \cup processed : holder'[PortOf[q]] # q
        BY <1>0, <2>4 DEF Typed, EndIsTrue
    <3> QED
        BY <1>1, <1>2, <3>1 DEF EndIsTrue, UpShrinks
  <2> QED
      BY <1>1, <1>4, <2>6, <2>7, <2>8, <2>9, <2>10, <2>11, <2>12, <2>13
<1> QED
    BY <1>2, <1>5, <1>6, <1>7 DEF StartAckRecorded

LEMMA RecordStopAckKeeps ==
    ASSUME TypeOK, Consistent, RecordStopAck
    PROVE  Consistent'
<1> USE OrdersAssumption, PortOfAssumption
    DEF Consistent, Ownership, Frames, chargeVars, UpKinds
<1>0. Typed
    BY TypedOf
<1>1. UNCHANGED <<running, completed, pending, order, startReceipt, endReceipt,
                  handler, startBatch, endBatch, endItem, endDone, events, processed>>
    BY DEF RecordStopAck, StopAckRecorded, centralVars,
           gatewayVars, eventVars, deviceVars, workerVars, startVars, endVars
<1>2. \A q \in Orders : handler'[q] \in {handler[q], "none"}
    BY <1>1
<1>3. CASE StopAckFails(Head(up).order, Head(up).ok)
  <2>1. UNCHANGED gatewayVars /\ DownShrinks /\ UpShrinks /\ StartFirst' /\ OneStartAck'
      BY <1>3, LinkDropped DEF RecordStopAck
  <2> QED
      BY <1>1, <1>2, <2>1, OwnershipKept, FramesLost, BatchKept, OrderKept, EndLost
      DEF gatewayVars, commandVars, portVars
<1>4. CASE ~StopAckFails(Head(up).order, Head(up).ok)
  <2>0. PICK o \in Orders, ok \in BOOLEAN :
            /\ o = Head(up).order /\ ok = Head(up).ok
            /\ UpHas("stopack", o, ok)
            /\ UpShrinks /\ OneStartAck'
      BY <1>4, Arriving DEF RecordStopAck
  <2>1. /\ o \in Orders /\ ok \in BOOLEAN
        /\ UpHas("stopack", o, ok)
        /\ UpShrinks /\ OneStartAck'
        /\ StopAckRecorded(o, ok) /\ UNCHANGED down
      BY <1>4, <2>0 DEF RecordStopAck
  <2>2. DownShrinks /\ StartFirst'
      BY <2>1, LinkKept
  <2>3. CASE UNCHANGED gatewayVars
      BY <1>1, <1>2, <2>1, <2>2, <2>3, OwnershipKept, FramesLost, BatchKept, OrderKept, EndLost
      DEF gatewayVars, commandVars, portVars
  <2>4. CASE ~UNCHANGED gatewayVars
    <3>1. /\ cmd[o] = "stopping" /\ holder[PortOf[o]] = o
          /\ cmd' = [cmd EXCEPT ![o] = "rejected"]
          /\ result' = [result EXCEPT ![o] = "compensated"]
          /\ portStatus' = [portStatus EXCEPT ![PortOf[o]] = "idle"]
          /\ holder' = [holder EXCEPT ![PortOf[o]] = NoOrder]
        BY <1>0, <2>1, <2>4 DEF StopAckRecorded, StopAckApplies, Moved, Typed
    <3>2. ~Energised(o) /\ ~DownHas("start", o) /\ result[o] # "refused"
        BY <2>1, <3>1 DEF StopTravels, StartTravels, ResultIsTrue
    <3>3. PortOwnership'
        BY <1>0, <2>1, <3>1
        DEF Typed, PortOwnership, UnansweredHoldsPort, HolderIsLive, ChargingPortIsHeld,
            PortIdleFor
    <3>4. RunningIsHeld'
        BY <1>0, <1>1, <2>1, <3>1, <3>2 DEF Typed, RunningIsHeld, Energised
    <3>5. ResultIsTrue'
        BY <1>0, <1>1, <2>1, <3>1 DEF Typed, ResultIsTrue, EverEnergised, Energised
    <3>6. ChargingIsConfirmed'
      <4>1. \A p \in Ports \ {PortOf[o]} : holder[p] # o
          BY <2>1, <3>1 DEF PortOwnership, HolderIsLive
      <4> QED
          BY <1>0, <2>1, <3>1, <4>1 DEF Typed, ChargingIsConfirmed
    <3>7. Unsent'
        BY <1>0, <1>1, <2>1, <3>1
        DEF Typed, Unsent, Untouched, UpShrinks, DownHas, EverEnergised, Energised
    <3>8. StartTravels'
        BY <1>0, <1>1, <2>1, <3>1, <3>2
        DEF Typed, StartTravels, UpShrinks, DownHas, EverEnergised, Energised
    <3>9. StopTravels' /\ AckTravels'
        BY <1>0, <1>1, <2>1, <3>1
        DEF Typed, StopTravels, AckTravels, UpShrinks, DownHas, EverEnergised, Energised
    <3>10. StartBatchIsTrue' /\ OrderIsTrue'
        BY <1>0, <1>1, <2>1, <3>1, <3>2
        DEF Typed, StartBatchIsTrue, OrderIsTrue, EverEnergised, Energised
    <3>11. EndIsTrue'
      <4>1. \A q \in endDone \cup processed : holder'[PortOf[q]] # q
          BY <1>0, <2>1, <3>1 DEF Typed, EndIsTrue
      <4> QED
          BY <1>1, <2>1, <4>1 DEF EndIsTrue, UpShrinks
    <3> QED
        BY <2>1, <2>2, <3>3, <3>4, <3>5, <3>6, <3>7, <3>8, <3>9, <3>10, <3>11
  <2> QED
      BY <2>3, <2>4
<1> QED
    BY <1>3, <1>4

LEMMA RecordUserStopAckKeeps ==
    ASSUME TypeOK, Consistent, RecordUserStopAck
    PROVE  Consistent'
<1> USE DEF Consistent, Ownership, Frames
<1>1. /\ UNCHANGED <<chargeVars, pending, order, startReceipt, endReceipt, down, portStatus,
                    holder, handler, startBatch, endBatch, endItem, endDone, events,
                    processed>>
      /\ Arrived("userstopack") /\ up' = Tail(up)
    BY DEF RecordUserStopAck, UserStopAckRecorded, chargeVars, centralVars,
           commandVars, portVars, eventVars, deviceVars, workerVars, startVars, endVars
<1>2. UpShrinks /\ OneStartAck' /\ DownShrinks /\ StartFirst'
    BY <1>1, Arriving, LinkKept
<1>3. \A q \in Orders : handler'[q] \in {handler[q], "none"}
    BY <1>1
<1> QED
    BY <1>1, <1>2, <1>3, OwnershipKept, FramesLost, BatchKept, OrderKept, EndLost DEF chargeVars

LEMMA RecordEndKeeps ==
    ASSUME TypeOK, Consistent, RecordEnd
    PROVE  Consistent'
<1> USE OrdersAssumption, PortOfAssumption
    DEF Consistent, Ownership, Frames, chargeVars, UpKinds
<1>0. Typed
    BY TypedOf
<1>1. PICK o \in Orders, ok \in BOOLEAN :
          /\ o = Head(up).order
          /\ UpHas("end", o, ok)
          /\ UpShrinks /\ OneStartAck'
    BY Arriving DEF RecordEnd
<1>2. DownAdds("endreply", o) /\ StartFirst'
    BY <1>1, Sending DEF RecordEnd, DownKinds
<1>3. /\ UNCHANGED <<chargeVars, pending, order, startReceipt, endReceipt, portStatus,
                    holder, handler, startBatch, endBatch, endItem, endDone, processed>>
      /\ events' = events \/ events' = Append(events, o)
    BY <1>1 DEF RecordEnd, EndRecorded, centralVars, commandVars, portVars, deviceVars,
           workerVars, startVars, endVars
<1>4. Ownership' /\ StartBatchIsTrue' /\ OrderIsTrue'
    BY <1>3, OwnershipKept, BatchKept, OrderKept
<1>5. Frames'
  <2> USE <1>1, <1>2, <1>3 DEF UpShrinks, DownAdds, DownKinds, EverEnergised, Energised
  <2>1. Unsent'
      BY DEF Unsent, Untouched
  <2>2. StartTravels'
      BY DEF StartTravels
  <2>3. AckTravels'
      BY DEF AckTravels
  <2>4. StopTravels'
      BY DEF StopTravels
  <2> QED
      BY <2>1, <2>2, <2>3, <2>4
<1>6. EndIsTrue'
  <2>1. \A q \in Orders : Has(events, q)' => Has(events, q) \/ q = o
    <3>1. events \in Seq(Orders)
        BY DEF TypeOK, GatewayTypeOK
    <3>2. CASE events' = Append(events, o)
        BY <3>1, <3>2, HasAppend
    <3>3. CASE events' = events
        BY <3>3
    <3> QED
        BY <1>3, <3>2, <3>3
  <2> QED
      BY <1>1, <1>3, <2>1 DEF EndIsTrue, UpShrinks
<1> QED
    BY <1>4, <1>5, <1>6

-----------------------------------------------------------------------------
(* The board, and the loss of the link.                                     *)

LEMMA BoardStartKeeps ==
    ASSUME TypeOK, Consistent, BoardStart
    PROVE  Consistent'
<1> USE OrdersAssumption, PortOfAssumption
    DEF Consistent, Ownership, Frames, chargeVars, UpKinds, DownKinds
<1>0. Typed
    BY TypedOf
<1>1. PICK o \in Orders :
          /\ o = Head(down).order
          /\ DownHas("start", o)
          /\ DownShrinks /\ StartFirst'
          /\ ~DownHas("start", o)'
    BY Reading DEF BoardStart, Received
<1>2. /\ cmd[o] \in {"sent", "stopping"} /\ result[o] = "none"
      /\ holder[PortOf[o]] = o /\ ~EverEnergised(o)
      /\ \A b \in BOOLEAN : ~UpHas("startack", o, b) /\ ~UpHas("stopack", o, b)
    BY <1>1 DEF StartTravels
<1>3. PICK ok \in BOOLEAN :
          /\ ok => DeviceStart(o)
          /\ ~ok => UNCHANGED deviceVars
          /\ up' = Append(up, UpFrame("startack", o, ok))
    BY <1>1 DEF BoardStart, StartAck
<1>4. UNCHANGED <<cmd, result, holder, portStatus, order, startReceipt, endReceipt,
                  handler, startBatch, endBatch, endItem, endDone, events, processed,
                  completed, pending>>
    BY <1>3
    DEF BoardStart, DeviceStart, centralVars, gatewayVars, commandVars, portVars, eventVars,
        deviceVars, workerVars, startVars, endVars
<1>5. /\ \A k \in UpKinds, q \in Orders, b \in BOOLEAN :
             UpHas(k, q, b)' <=> UpHas(k, q, b) \/ (k = "startack" /\ q = o /\ b = ok)
      /\ OneStartAck'
  <2>1. /\ \A k \in UpKinds, q \in Orders, b \in BOOLEAN :
               Has(Append(up, UpFrame("startack", o, ok)), UpFrame(k, q, b))
                 <=> UpHas(k, q, b) \/ (k = "startack" /\ q = o /\ b = ok)
        /\ OneAck(Append(up, UpFrame("startack", o, ok)))
      BY <1>2, AnswerEffect
  <2> QED
      BY <1>3, <2>1 DEF UpHas, OneStartAck
<1>6. /\ EverEnergised(o)' <=> ok
      /\ \A q \in Orders \ {o} : Energised(q)' <=> Energised(q)
      /\ \A q \in Orders \ {o} : EverEnergised(q)' <=> EverEnergised(q)
      /\ Energised(o)' => ok
  <2>1. CASE ok
      BY <1>0, <1>2, <1>3, <1>4, <2>1
      DEF Typed, DeviceStart, StartAcceptable, EverEnergised, Energised
  <2>2. CASE ~ok
      BY <1>2, <1>3, <2>2 DEF deviceVars, EverEnergised, Energised
  <2> QED
      BY <2>1, <2>2
<1>7. PortOwnership' /\ ChargingIsConfirmed'
    BY <1>4
    DEF PortOwnership, UnansweredHoldsPort, HolderIsLive, ChargingPortIsHeld, PortIdleFor,
        ChargingIsConfirmed
<1>8. RunningIsHeld'
    BY <1>0, <1>2, <1>3, <1>4
    DEF Typed, RunningIsHeld, DeviceStart, deviceVars, EverEnergised
<1>9. ResultIsTrue'
    BY <1>2, <1>4, <1>6 DEF ResultIsTrue
<1>10. Unsent'
    BY <1>1, <1>2, <1>4, <1>5, <1>6 DEF Unsent, Untouched, DownShrinks
<1>11. StartTravels'
    BY <1>1, <1>4, <1>5, <1>6 DEF StartTravels, DownShrinks
<1>12. AckTravels'
    BY <1>2, <1>4, <1>5, <1>6 DEF AckTravels
<1>13. StopTravels'
    BY <1>1, <1>2, <1>4, <1>5, <1>6 DEF StopTravels, DownShrinks
<1>14. StartBatchIsTrue'
  <2>1. \A r \in startBatch : r.order \in Orders
      BY <1>0 DEF Typed
  <2> QED
      BY <1>2, <1>4, <1>6, <2>1 DEF StartBatchIsTrue
<1>15. OrderIsTrue'
    BY <1>2, <1>4, <1>6 DEF OrderIsTrue
<1>16. EndIsTrue'
    BY <1>4, <1>5 DEF EndIsTrue
<1> QED
    BY <1>1, <1>5, <1>7, <1>8, <1>9, <1>10, <1>11, <1>12, <1>13, <1>14, <1>15, <1>16

(* A charge that ends: nothing but the board knows, and what it has run it  *)
(* has still run.                                                           *)
LEMMA SwitchedOff ==
    ASSUME TypeOK, Consistent, NEW p \in Ports, SwitchOff(p),
           UNCHANGED <<cmd, result, holder, portStatus, startBatch, order, startReceipt>>
    PROVE  /\ \A q \in Orders : EverEnergised(q)' <=> EverEnergised(q)
           /\ \A q \in Orders : Energised(q)' => Energised(q) /\ q # running[p]
           /\ running[p] \in Orders /\ PortOf[running[p]] = p
           /\ completed \subseteq completed'
           /\ Ownership' /\ StartBatchIsTrue' /\ OrderIsTrue'
<1> USE OrdersAssumption, PortOfAssumption
    DEF Consistent, Ownership, Frames, chargeVars, UpKinds, DownKinds
<1>0. Typed
    BY TypedOf
<1>1. running[p] \in Orders /\ PortOf[running[p]] = p
    BY <1>0 DEF Typed, Holders, SwitchOff, RunningIsHeld
<1>2. \A q \in Ports : q # p => running'[q] = running[q]
    BY <1>0 DEF Typed, SwitchOff
<1>3. running'[p] = NoOrder /\ completed' = completed \cup {running[p]}
    BY <1>0 DEF Typed, SwitchOff
<1>4. \A q \in Orders : EverEnergised(q)' <=> EverEnergised(q)
    BY <1>1, <1>2, <1>3 DEF EverEnergised, Energised
<1>5. \A q \in Orders : Energised(q)' => Energised(q) /\ q # running[p]
    BY <1>1, <1>2, <1>3 DEF Energised, RunningIsHeld
<1>6. PortOwnership' /\ ChargingIsConfirmed'
    BY DEF PortOwnership, UnansweredHoldsPort, HolderIsLive, ChargingPortIsHeld,
           PortIdleFor, ChargingIsConfirmed
<1>7. RunningIsHeld'
    BY <1>1, <1>2, <1>3 DEF RunningIsHeld
<1>8. ResultIsTrue'
    BY <1>4 DEF ResultIsTrue
<1>9. StartBatchIsTrue'
  <2>1. \A r \in startBatch : r.order \in Orders
      BY <1>0 DEF Typed
  <2> QED
      BY <1>4, <2>1 DEF StartBatchIsTrue
<1>10. OrderIsTrue'
    BY <1>4 DEF OrderIsTrue
<1> QED
    BY <1>1, <1>3, <1>4, <1>5, <1>6, <1>7, <1>8, <1>9, <1>10

(* What a charge that ends leaves on the board's list of reports.           *)
LEMMA EndQueued ==
    ASSUME TypeOK, Consistent, NEW p \in Ports, EndCharge(p)
    PROVE  \A q \in Orders : Has(pending, q)' => q \in completed'
<1>1. running[p] \in Orders /\ pending \in Seq(Orders)
    BY TypedOf DEF Typed, Holders, TypeOK, DeviceTypeOK, EndCharge, SwitchOff
<1>2. \A q \in Orders : Has(pending, q)' <=> Has(pending, q) \/ q = running[p]
    BY <1>1, HasAppend DEF EndCharge
<1> QED
    BY <1>1, <1>2 DEF EndCharge, SwitchOff, Consistent, EndIsTrue

LEMMA ReportsAdded ==
    ASSUME TypeOK, NEW s \in Seq(UpFrames), OneAck(s), NEW p \in Ports
    PROVE  /\ OneAck(s \o ReportsEnd(p))
           /\ \A k \in UpKinds, q \in Orders, b \in BOOLEAN :
                 Has(s \o ReportsEnd(p), UpFrame(k, q, b)) =>
                   Has(s, UpFrame(k, q, b)) \/ (k = "end" /\ q = running[p])
BY ReportsTyped, ReportsContent, ReportEffect, HasConcat

LEMMA BoardStopKeeps ==
    ASSUME TypeOK, Consistent, BoardStop
    PROVE  Consistent'
<1> USE OrdersAssumption, PortOfAssumption
    DEF Consistent, Ownership, Frames, chargeVars, UpKinds, DownKinds
<1>0. Typed
    BY TypedOf
<1>1. PICK kind \in {"stop", "userstop"}, o \in Orders :
          /\ kind = Head(down).kind /\ o = Head(down).order
          /\ DownHas(kind, o)
          /\ DownShrinks /\ StartFirst'
          /\ kind = "stop" => ~DownHas("start", o)
    BY Reading DEF BoardStop, Received
<1> DEFINE p == PortOf[o]
           akind == IF kind = "stop" THEN "stopack" ELSE "userstopack"
<1>2. PICK ok \in BOOLEAN :
          up' = Append(up, UpFrame(akind, o, ok)) \o ReportsEnd(p)
    BY <1>1 DEF BoardStop
<1>3. /\ DeviceStop(p)
      /\ UNCHANGED <<cmd, result, holder, portStatus, order, startReceipt, endReceipt,
                     handler, startBatch, endBatch, endItem, endDone, events, processed>>
    BY <1>1
    DEF BoardStop, centralVars, gatewayVars, commandVars, portVars, eventVars, workerVars,
        startVars, endVars
<1>4. /\ OneStartAck'
      /\ \A k \in UpKinds, q \in Orders, b \in BOOLEAN : UpHas(k, q, b)' =>
             \/ UpHas(k, q, b)
             \/ k = akind /\ q = o
             \/ k = "end" /\ q = running[p]
  <2> DEFINE s == Append(up, UpFrame(akind, o, ok))
  <2>1. /\ s \in Seq(UpFrames) /\ OneAck(s)
        /\ \A k \in UpKinds, q \in Orders, b \in BOOLEAN :
               Has(s, UpFrame(k, q, b)) <=> UpHas(k, q, b) \/ (k = akind /\ q = o /\ b = ok)
      BY <1>1, AnswerEffect
  <2> HIDE DEF s
  <2>2. /\ OneAck(s \o ReportsEnd(p))
        /\ \A k \in UpKinds, q \in Orders, b \in BOOLEAN :
               Has(s \o ReportsEnd(p), UpFrame(k, q, b)) =>
                 Has(s, UpFrame(k, q, b)) \/ (k = "end" /\ q = running[p])
      BY <2>1, ReportsAdded
  <2> QED
      BY <1>2, <2>1, <2>2 DEF OneStartAck, UpHas, s
<1>5. CASE EndCharge(p)
  <2>1. SwitchOff(p)
      BY <1>5 DEF EndCharge
  <2>2. /\ \A q \in Orders : EverEnergised(q)' <=> EverEnergised(q)
        /\ \A q \in Orders : Energised(q)' => Energised(q) /\ q # running[p]
        /\ running[p] \in Orders /\ PortOf[running[p]] = p
        /\ completed \subseteq completed'
        /\ Ownership' /\ StartBatchIsTrue' /\ OrderIsTrue'
      BY <1>3, <2>1, SwitchedOff
  <2>3. running[p] \in completed'
      BY <2>1 DEF SwitchOff
  <2>4. ~Energised(o)'
    <3> SUFFICES ASSUME Energised(o)' PROVE FALSE
        OBVIOUS
    <3>1. PICK r \in Ports : running[r] = o
        BY <2>2 DEF Energised
    <3>2. r = p
        BY <1>0, <3>1 DEF RunningIsHeld
    <3> QED
        BY <2>2, <3>1, <3>2
  <2>5. Frames'
      BY <1>1, <1>3, <1>4, <2>2, <2>4, FramesAnswered
  <2>6. EndIsTrue'
      BY <1>3, <1>4, <1>5, <2>2, <2>3, EndQueued, EndReported
  <2> QED
      BY <2>2, <2>5, <2>6
<1>6. CASE running[p] = NoOrder /\ UNCHANGED deviceVars
  <2>1. UNCHANGED <<running, completed, pending>>
      BY <1>6 DEF deviceVars
  <2>2. /\ \A q \in Orders : EverEnergised(q)' <=> EverEnergised(q)
        /\ \A q \in Orders : Energised(q)' => Energised(q)
      BY <2>1 DEF EverEnergised, Energised
  <2>3. ~Energised(o)'
      BY <1>0, <1>6, <2>1 DEF Energised, RunningIsHeld
  <2>4. Frames'
      BY <1>1, <1>3, <1>4, <2>2, <2>3, FramesAnswered
  <2>5. EndIsTrue'
      BY <1>3, <1>4, <1>6, <2>1, EndReported DEF EndIsTrue
  <2> QED
      BY <1>3, <2>1, <2>4, <2>5, OwnershipKept, BatchKept, OrderKept
<1> QED
    BY <1>3, <1>5, <1>6 DEF DeviceStop

LEMMA BoardFinishKeeps ==
    ASSUME TypeOK, Consistent, NEW p \in Ports, BoardFinish(p)
    PROVE  Consistent'
<1> USE OrdersAssumption, PortOfAssumption
    DEF Consistent, Ownership, Frames, chargeVars, UpKinds, DownKinds
<1>0. Typed
    BY TypedOf
<1>1. /\ EndCharge(p) /\ SwitchOff(p)
      /\ up' = (up \o ReportsEnd(p)) \/ up' = up
      /\ UNCHANGED <<cmd, result, holder, portStatus, order, startReceipt, endReceipt, down,
                     handler, startBatch, endBatch, endItem, endDone, events, processed>>
    BY DEF BoardFinish, EndCharge, centralVars, gatewayVars, commandVars, portVars,
           eventVars, workerVars, startVars, endVars
<1>2. /\ \A q \in Orders : EverEnergised(q)' <=> EverEnergised(q)
      /\ \A q \in Orders : Energised(q)' => Energised(q)
      /\ completed \subseteq completed'
      /\ Ownership' /\ StartBatchIsTrue' /\ OrderIsTrue'
    BY <1>1, SwitchedOff
<1>3. /\ OneStartAck'
      /\ \A k \in UpKinds, q \in Orders, b \in BOOLEAN : UpHas(k, q, b)' =>
             UpHas(k, q, b) \/ (k = "end" /\ q = running[p])
  <2>1. CASE up' = up
      BY <2>1, LinkKept DEF UpShrinks
  <2>2. CASE up' = up \o ReportsEnd(p)
    <3>1. up \in Seq(UpFrames) /\ OneAck(up)
        BY DEF TypeOK, OneStartAck
    <3> QED
        BY <2>2, <3>1, ReportsAdded DEF OneStartAck, UpHas
  <2> QED
      BY <1>1, <2>1, <2>2
<1>4. DownShrinks /\ StartFirst'
    BY <1>1, LinkKept
<1>5. Frames'
    BY <1>1, <1>2, <1>3, <1>4, FramesAnswered
<1>6. EndIsTrue'
    BY <1>1, <1>2, <1>3, EndQueued, EndReported DEF SwitchOff
<1> QED
    BY <1>2, <1>5, <1>6

LEMMA BoardStopUnansweredKeeps ==
    ASSUME TypeOK, Consistent, BoardStopUnanswered
    PROVE  Consistent'
<1> USE OrdersAssumption, PortOfAssumption
    DEF Consistent, Ownership, Frames, chargeVars, UpKinds, DownKinds
<1>0. Typed
    BY TypedOf
<1>1. Head(down).order \in Orders
    BY DownHead DEF BoardStopUnanswered
<1>2. PICK p \in Ports : SwitchOff(p) /\ UNCHANGED pending
    BY <1>1 DEF BoardStopUnanswered, EndUnreported
<1>3. UNCHANGED <<cmd, result, holder, portStatus, order, startReceipt, endReceipt,
                  handler, startBatch, endBatch, endItem, endDone, events, processed>>
    BY DEF BoardStopUnanswered, centralVars, gatewayVars, commandVars, portVars, eventVars,
           workerVars, startVars, endVars
<1>4. DownShrinks /\ UpShrinks /\ StartFirst' /\ OneStartAck'
    BY LinkDropped DEF BoardStopUnanswered
<1>5. /\ \A q \in Orders : EverEnergised(q)' <=> EverEnergised(q)
      /\ \A q \in Orders : Energised(q)' => Energised(q)
      /\ completed \subseteq completed'
      /\ Ownership' /\ StartBatchIsTrue' /\ OrderIsTrue'
    BY <1>2, <1>3, SwitchedOff
<1>6. Frames'
    BY <1>3, <1>4, <1>5, FramesAnswered DEF UpShrinks
<1>7. EndIsTrue'
    BY <1>2, <1>3, <1>4, <1>5, EndReported DEF UpShrinks, EndIsTrue
<1> QED
    BY <1>5, <1>6, <1>7

(* acknowledge removes one report and keeps the others.                     *)
LEMMA AcknowledgeEffect ==
    ASSUME TypeOK, NEW p, Acknowledge(p), NEW q
    PROVE  Has(pending, q)' => Has(pending, q)
<1>0. pending \in Seq(Orders)
    BY DEF TypeOK, DeviceTypeOK
<1>1. CASE UNCHANGED pending
    BY <1>1
<1>2. ASSUME NEW i \in PendingAt(p),
             pending' = SubSeq(pending, 1, i - 1) \o SubSeq(pending, i + 1, Len(pending))
      PROVE  Has(pending, q)' => Has(pending, q)
  <2>0. i \in 1..Len(pending) /\ Len(pending) \in Nat /\ DOMAIN pending = 1..Len(pending)
      BY <1>0 DEF PendingAt
  <2> DEFINE s == SubSeq(pending, 1, i - 1)
             t == SubSeq(pending, i + 1, Len(pending))
  <2>1. s \in Seq(Orders) /\ t \in Seq(Orders)
      BY <1>0, <2>0, SubSeqProperties
  <2>2. Has(s, q) => Has(pending, q)
      BY <1>0, <2>0, SubSeqProperties DEF Has
  <2>3. Has(t, q) => Has(pending, q)
      BY <1>0, <2>0, SubSeqProperties DEF Has
  <2> HIDE DEF s, t
  <2>4. Has(s \o t, q) <=> Has(s, q) \/ Has(t, q)
      BY <2>1, HasConcat
  <2> QED
      BY <1>2, <2>2, <2>3, <2>4 DEF s, t
<1> QED
    BY <1>1, <1>2 DEF Acknowledge

LEMMA BoardEndReplyKeeps ==
    ASSUME TypeOK, Consistent, BoardEndReply
    PROVE  Consistent'
<1> USE OrdersAssumption, PortOfAssumption
    DEF Consistent, Ownership, Frames, chargeVars, UpKinds, DownKinds
<1>0. Typed
    BY TypedOf
<1>1. /\ UNCHANGED <<chargeVars, order, startReceipt, endReceipt, portStatus, up,
                    holder, handler, startBatch, endBatch, endItem, endDone, events,
                    processed>>
      /\ DownShrinks /\ StartFirst'
    BY Reading
    DEF BoardEndReply, Received, Acknowledge, centralVars, gatewayVars, commandVars, portVars,
        eventVars, workerVars, startVars, endVars
<1>2. UpShrinks /\ OneStartAck'
    BY <1>1, LinkKept
<1>3. \A q \in Orders : handler'[q] \in {handler[q], "none"}
    BY <1>1
<1>4. \A q \in Orders : Has(pending, q)' => Has(pending, q)
    BY AcknowledgeEffect DEF BoardEndReply
<1>5. EndIsTrue'
    BY <1>1, <1>2, <1>4, EndReported DEF EndIsTrue, UpShrinks
<1> QED
    BY <1>1, <1>2, <1>3, <1>5, OwnershipKept, FramesLost, BatchKept, OrderKept

LEMMA BoardHeartbeatKeeps ==
    ASSUME TypeOK, Consistent, BoardHeartbeat
    PROVE  Consistent'
<1> USE OrdersAssumption, PortOfAssumption
    DEF Consistent, Ownership, Frames, chargeVars, UpKinds, DownKinds
<1>0. Typed
    BY TypedOf
<1>1. /\ UNCHANGED <<chargeVars, pending, order, startReceipt, endReceipt, portStatus, down,
                    holder, handler, startBatch, endBatch, endItem, endDone, events,
                    processed>>
      /\ up' = up \o PendingReports
    BY DEF BoardHeartbeat, centralVars, gatewayVars, commandVars, portVars, eventVars,
           deviceVars, workerVars, startVars, endVars
<1>2. DownShrinks /\ StartFirst'
    BY <1>1, LinkKept
<1>3. /\ OneStartAck'
      /\ \A k \in UpKinds, q \in Orders, b \in BOOLEAN : UpHas(k, q, b)' =>
             UpHas(k, q, b) \/ (k = "end" /\ Has(pending, q))
  <2>1. up \in Seq(UpFrames) /\ OneAck(up) /\ PendingReports \in Seq(UpFrames)
      BY ReportsTyped DEF TypeOK, OneStartAck
  <2> QED
      BY <1>1, <2>1, ReportsContent, ReportEffect, HasConcat DEF OneStartAck, UpHas
<1>4. /\ \A q \in Orders : EverEnergised(q)' <=> EverEnergised(q)
      /\ \A q \in Orders : Energised(q)' => Energised(q)
    BY <1>1 DEF EverEnergised, Energised
<1>5. Frames'
    BY <1>1, <1>2, <1>3, <1>4, FramesAnswered
<1>6. EndIsTrue'
    BY <1>1, <1>3, EndReported DEF EndIsTrue
<1> QED
    BY <1>1, <1>5, <1>6, OwnershipKept, BatchKept, OrderKept

LEMMA ReconnectKeeps ==
    ASSUME TypeOK, Consistent, Reconnect
    PROVE  Consistent'
<1> USE OrdersAssumption, PortOfAssumption
    DEF Consistent, Ownership, Frames, chargeVars, UpKinds, DownKinds
<1>0. Typed
    BY TypedOf
<1>1. /\ UNCHANGED <<chargeVars, pending, order, startReceipt, endReceipt, portStatus, down,
                    holder, handler, startBatch, endBatch, endItem, endDone, events,
                    processed>>
      /\ up' = PendingReports
    BY DEF Reconnect, centralVars, gatewayVars, commandVars, portVars, eventVars,
           deviceVars, workerVars, startVars, endVars
<1>2. DownShrinks /\ StartFirst'
    BY <1>1, LinkKept
<1>3. /\ OneStartAck'
      /\ \A k \in UpKinds, q \in Orders, b \in BOOLEAN :
             UpHas(k, q, b)' => k = "end" /\ Has(pending, q)
    BY <1>1, ReportsContent DEF OneStartAck, OneAck, UpHas
<1>4. /\ \A q \in Orders : EverEnergised(q)' <=> EverEnergised(q)
      /\ \A q \in Orders : Energised(q)' => Energised(q)
    BY <1>1 DEF EverEnergised, Energised
<1>5. Frames'
    BY <1>1, <1>2, <1>3, <1>4, FramesAnswered
<1>6. EndIsTrue'
    BY <1>1, <1>3, EndReported DEF EndIsTrue
<1> QED
    BY <1>1, <1>5, <1>6, OwnershipKept, BatchKept, OrderKept

LEMMA LinkLossKeeps ==
    ASSUME TypeOK, Consistent, Disconnect \/ GatewayCrash
    PROVE  Consistent'
<1> USE OrdersAssumption, PortOfAssumption
    DEF Consistent, Ownership, Frames, chargeVars, UpKinds, DownKinds
<1>0. Typed
    BY TypedOf
<1>1. /\ UNCHANGED <<chargeVars, pending, order, startReceipt, endReceipt, portStatus,
                    holder, startBatch, endBatch, endItem, endDone, events, processed>>
      /\ DropLink
    BY DEF Disconnect, GatewayCrash, centralVars, gatewayVars, commandVars, portVars,
           eventVars, deviceVars, workerVars, startVars, endVars
<1>2. \A q \in Orders : handler'[q] \in {handler[q], "none"}
    BY DEF Disconnect, GatewayCrash
<1> QED
    BY <1>1, <1>2, LinkDropped, OwnershipKept, FramesLost, BatchKept, OrderKept, EndLost

-----------------------------------------------------------------------------
(* Every step keeps the invariant.                                          *)

LEMMA ConsistentStep ==
    ASSUME TypeOK, Consistent, [Next]_vars
    PROVE  Consistent'
<1>1. CASE UNCHANGED vars
  <2>1. /\ UNCHANGED <<chargeVars, pending, order, startReceipt, endReceipt, portStatus,
                      holder, handler, startBatch, endBatch, endItem, endDone, events,
                      processed, down, up>>
      BY <1>1
      DEF vars, chargeVars, centralVars, gatewayVars, commandVars, portVars, eventVars,
          deviceVars, linkVars, workerVars, startVars, endVars
  <2> QED
      BY <2>1, OwnershipKept, FramesKept, BatchKept, OrderKept, EndKept
      DEF Consistent, Ownership, Frames, chargeVars
<1>2. CASE CentralNext
    BY <1>2, PayKeeps, RefundKeeps DEF CentralNext
<1>3. CASE HandlerNext
    BY <1>3, WriteStartKeeps, SendReturnsKeeps, SendFailsKeeps DEF HandlerNext
<1>4. CASE GatewayNext
    BY <1>4, RetryStoppingKeeps, UserStopRequestKeeps, RetryUserStopKeeps,
       RecordStartAckKeeps, RecordStopAckKeeps, RecordUserStopAckKeeps, RecordEndKeeps
    DEF GatewayNext
<1>5. CASE BoardNext
    BY <1>5, BoardStartKeeps, BoardStopKeeps, BoardStopUnansweredKeeps, BoardEndReplyKeeps,
       BoardHeartbeatKeeps, BoardFinishKeeps
    DEF BoardNext
<1>6. CASE WorkerNext
    BY <1>6, DispatchReserveKeeps, DispatchSendKeeps, StartFetchKeeps, StartMarkKeeps,
       StartPostKeeps, StartPostFailsKeeps, StartPostConflictKeeps, EndFetchKeeps,
       EndReplyLostKeeps, EndReleaseKeeps, EndMarkKeeps, EndPostKeeps, EndSkipKeeps
    DEF WorkerNext
<1>7. CASE FaultNext
    BY <1>7, LinkLossKeeps, ReconnectKeeps, WorkerAbortKeeps DEF FaultNext
<1> QED
    BY <1>1, <1>2, <1>3, <1>4, <1>5, <1>6, <1>7 DEF Next

LEMMA ConsistentInit == Init => Consistent
<1> SUFFICES ASSUME Init PROVE Consistent
    OBVIOUS
<1> USE OrdersAssumption, PortOfAssumption
    DEF Init, CentralInit, GatewayInit, DeviceInit
<1>1. /\ \A k \in DownKinds, q \in Orders : ~DownHas(k, q)
      /\ \A k \in UpKinds, q \in Orders, b \in BOOLEAN : ~UpHas(k, q, b)
      /\ StartFirst /\ OneStartAck
    BY HasEmpty DEF DownHas, UpHas, StartFirst, OneStartAck, OneAck
<1>2. \A q \in Orders : ~EverEnergised(q) /\ ~Has(pending, q) /\ ~Has(events, q)
    BY HasEmpty DEF EverEnergised, Energised
<1> USE <1>1, <1>2 DEF DownKinds, UpKinds
<1>3. PortOwnership
    BY DEF PortOwnership, UnansweredHoldsPort, HolderIsLive, ChargingPortIsHeld
<1>4. Unsent /\ StartTravels /\ AckTravels /\ StopTravels
    BY DEF Unsent, Untouched, StartTravels, AckTravels, StopTravels
<1>5. RunningIsHeld /\ ResultIsTrue /\ ChargingIsConfirmed /\ StartBatchIsTrue
    BY DEF RunningIsHeld, ResultIsTrue, ChargingIsConfirmed, StartBatchIsTrue
<1>6. OrderIsTrue /\ EndIsTrue
    BY DEF OrderIsTrue, EndIsTrue
<1> QED
    BY <1>3, <1>4, <1>5, <1>6 DEF Consistent

(* What is in flight, what the tables say and what the board has done agree *)
(* in every reachable state, for any orders, ports and faults.              *)
THEOREM Invariance == Spec => []InductiveInvariant
<1>1. Init => Consistent
    BY ConsistentInit
<1>2. TypeOK /\ Consistent /\ [Next]_vars => Consistent'
    BY ConsistentStep
<1> QED
    BY <1>1, <1>2, TypeCorrect, PTL DEF Spec, InductiveInvariant

(* A port that is on is, in the gateway's tables, held by the order it is   *)
(* on for (charge_start.go, mysql.go, worker_sync.go).                      *)
THEOREM ExclusionHolds == Spec => []PhysicalExclusion
<1>1. InductiveInvariant => PhysicalExclusion
    BY DEF InductiveInvariant, Consistent, RunningIsHeld, PhysicalExclusion
<1> QED
    BY <1>1, Invariance, PTL

(* central refunds a failed start only if the board never energised it      *)
(* (start_result.go).                                                       *)
THEOREM RefundsAreJust == Spec => []RefundedNeverEnergised
<1>1. InductiveInvariant => RefundedNeverEnergised
    BY DEF InductiveInvariant, Consistent, OrderIsTrue, ResultIsTrue, RefundedNeverEnergised
<1> QED
    BY <1>1, Invariance, PTL

(* The receipts central saves are true of the board (start_result.go,       *)
(* end_result.go).                                                          *)
THEOREM ReceiptsHold == Spec => []ReceiptsAreTrue
<1>1. InductiveInvariant => ReceiptsAreTrue
    BY DEF InductiveInvariant, Consistent, OrderIsTrue, EndIsTrue, ReceiptsAreTrue
<1> QED
    BY <1>1, Invariance, PTL

(* An end event leaves the gateway's list only when central has the end and *)
(* the port is the order's no longer (end_sync.go, worker_sync.go).         *)
THEOREM ProcessedSettled == Spec => []ProcessedIsSettled
<1>1. InductiveInvariant => ProcessedIsSettled
    BY DEF InductiveInvariant, Consistent, EndIsTrue, ProcessedIsSettled
<1> QED
    BY <1>1, Invariance, PTL

(* charge_command and device_port agree on who occupies a port.             *)
THEOREM PortsOwned == Spec => []PortOwnership
<1>1. InductiveInvariant => PortOwnership
    BY DEF InductiveInvariant, Consistent
<1> QED
    BY <1>1, Invariance, PTL

-----------------------------------------------------------------------------
(***************************************************************************)
(* The lifecycle implements ChargeContract.  Ten kinds of step are visible *)
(* to the contract; under the inductive invariant each is the contract's   *)
(* step of the same meaning, and every other step leaves the phases and    *)
(* the claims as they are.                                                 *)
(***************************************************************************)

Phase == [o \in Orders |-> PhaseOf(o)]

(* What decides the phase of an order.                                      *)
LEMMA PhaseValue ==
    ASSUME TypeOK, Consistent, NEW o \in Orders
    PROVE  /\ order[o] = "none" => PhaseOf(o) = "unpaid"
           /\ order[o] \in {"refunding", "refunded"} => PhaseOf(o) = "refunded"
           /\ order[o] = "completed" => PhaseOf(o) = "settled"
           /\ order[o] \in {"paid", "charging"} /\ o \in completed => PhaseOf(o) = "ended"
           /\ order[o] \in {"paid", "charging"} /\ o \notin completed /\ Energised(o)
                => PhaseOf(o) = "energised"
           /\ order[o] \in {"paid", "charging"} /\ ~EverEnergised(o) => PhaseOf(o) = "paid"
BY DEF PhaseOf, EverEnergised

LEMMA PhaseKept ==
    ASSUME NEW o \in Orders, order'[o] = order[o],
           Energised(o)' <=> Energised(o),
           o \in completed' <=> o \in completed
    PROVE  PhaseOf(o)' = PhaseOf(o)
BY DEF PhaseOf

LEMMA PhasesKept ==
    ASSUME UNCHANGED <<order, running, completed>>
    PROVE  Phase' = Phase
<1>1. \A o \in Orders : PhaseOf(o)' = PhaseOf(o)
    BY PhaseKept DEF Energised
<1> QED
    BY <1>1 DEF Phase

(* One order moves on, the others stay.                                     *)
LEMMA PhaseMoves ==
    ASSUME NEW o \in Orders, NEW from, NEW to,
           PhaseOf(o) = from, PhaseOf(o)' = to,
           \A q \in Orders \ {o} : PhaseOf(q)' = PhaseOf(q),
           UNCHANGED holder
    PROVE  Contract!Advance(o, from, to)
<1>1. Phase' = [Phase EXCEPT ![o] = to]
    BY DEF Phase
<1> QED
    BY <1>1 DEF Contract!Advance, Phase


-----------------------------------------------------------------------------
(* central's steps                                                          *)

LEMMA CentralRefines ==
    ASSUME TypeOK, Consistent, NEW o \in Orders,
           UNCHANGED <<running, completed, holder>>
    PROVE  /\ CreatePaidOrder(o) => Contract!Pays(o)
           /\ RefundSucceeded(o) => Phase' = Phase
           /\ ApplyStartOK(o) => Phase' = Phase
           /\ ApplyStartRefused(o) /\ result[o] = "refused" => Contract!Refunds(o)
           /\ ApplyEnd(o) /\ o \in completed => Contract!Settles(o)
<1> USE OrdersAssumption, PortOfAssumption DEF Consistent
<1>0. Typed
    BY TypedOf
<1>1. /\ \A q \in Orders : Energised(q)' <=> Energised(q)
      /\ \A q \in Orders : EverEnergised(q)' <=> EverEnergised(q)
    BY DEF EverEnergised, Energised
<1>2. \A q \in Orders \ {o} : order'[q] = order[q] => PhaseOf(q)' = PhaseOf(q)
    BY <1>1, PhaseKept
<1>3. ASSUME CreatePaidOrder(o) PROVE Contract!Pays(o)
  <2>1. /\ order[o] = "none" /\ order'[o] = "paid"
        /\ \A q \in Orders \ {o} : order'[q] = order[q]
      BY <1>0, <1>3 DEF Typed, CreatePaidOrder
  <2>2. ~EverEnergised(o)
      BY <2>1 DEF OrderIsTrue, Unsent, Untouched
  <2>3. PhaseOf(o) = "unpaid" /\ PhaseOf(o)' = "paid"
      BY <1>1, <2>1, <2>2 DEF PhaseOf, EverEnergised
  <2> QED
      BY <1>2, <2>1, <2>3, PhaseMoves DEF Contract!Pays
<1>4. ASSUME RefundSucceeded(o) PROVE Phase' = Phase
  <2>1. /\ order[o] = "refunding" /\ order'[o] = "refunded"
        /\ \A q \in Orders \ {o} : order'[q] = order[q]
      BY <1>0, <1>4 DEF Typed, RefundSucceeded
  <2>2. PhaseOf(o)' = PhaseOf(o)
      BY <2>1 DEF PhaseOf
  <2> QED
      BY <1>2, <2>1, <2>2 DEF Phase
<1>5. ASSUME ApplyStartOK(o) PROVE Phase' = Phase
  <2>1. /\ order[o] = "paid" /\ order'[o] = "charging"
        /\ \A q \in Orders \ {o} : order'[q] = order[q]
      BY <1>0, <1>5 DEF Typed, ApplyStartOK, StartApplicable
  <2>2. PhaseOf(o)' = PhaseOf(o)
      BY <1>1, <2>1 DEF PhaseOf
  <2> QED
      BY <1>2, <2>1, <2>2 DEF Phase
<1>6. ASSUME ApplyStartRefused(o), result[o] = "refused" PROVE Contract!Refunds(o)
  <2>1. /\ order[o] = "paid" /\ order'[o] \in {"refunding", "refunded"}
        /\ \A q \in Orders \ {o} : order'[q] = order[q]
      BY <1>0, <1>6 DEF Typed, ApplyStartRefused, StartApplicable
  <2>2. ~EverEnergised(o) /\ cmd[o] = "rejected"
      BY <1>6 DEF ResultIsTrue
  <2>3. PhaseOf(o) = "paid" /\ PhaseOf(o)' = "refunded"
      BY <1>1, <2>1, <2>2 DEF PhaseOf, EverEnergised
  <2>4. holder[PortOf[o]] # o
      BY <2>2 DEF PortOwnership, HolderIsLive
  <2> QED
      BY <1>2, <2>1, <2>3, <2>4, PhaseMoves DEF Contract!Refunds
<1>7. ASSUME ApplyEnd(o), o \in completed PROVE Contract!Settles(o)
  <2>1. /\ order[o] = "charging" /\ order'[o] = "completed"
        /\ \A q \in Orders \ {o} : order'[q] = order[q]
      BY <1>0, <1>7 DEF Typed, ApplyEnd, EndApplicable
  <2>2. PhaseOf(o) = "ended" /\ PhaseOf(o)' = "settled"
      BY <1>7, <2>1 DEF PhaseOf
  <2> QED
      BY <1>2, <2>1, <2>2, PhaseMoves DEF Contract!Settles
<1> QED
    BY <1>3, <1>4, <1>5, <1>6, <1>7

-----------------------------------------------------------------------------
(* Claiming and releasing a port                                            *)

LEMMA ClaimRefines ==
    ASSUME TypeOK, Consistent, NEW o \in Orders, order[o] = "paid",
           ReserveStart(o), UNCHANGED <<order, running, completed>>
    PROVE  Contract!Claims(o)
<1>1. cmd[o] = "none" /\ ~EverEnergised(o)
    BY DEF ReserveStart, Consistent, Unsent, Untouched
<1>2. PhaseOf(o) = "paid"
    BY <1>1, PhaseValue
<1> QED
    BY <1>2, PhasesKept DEF Contract!Claims, ReserveStart, PortIdleFor, Phase

LEMMA ReleaseRefines ==
    ASSUME TypeOK, Consistent, NEW o \in Orders, ~Energised(o),
           holder[PortOf[o]] = o,
           holder' = [holder EXCEPT ![PortOf[o]] = NoOrder],
           UNCHANGED <<order, running, completed>>
    PROVE  Contract!Releases(o)
<1>1. PhaseOf(o) # "energised"
  <2>1. order[o] \in OrderStatus
      BY TypedOf DEF Typed
  <2> QED
      BY <2>1 DEF PhaseOf, OrderStatus
<1> QED
    BY <1>1, PhasesKept DEF Contract!Releases, Phase

-----------------------------------------------------------------------------
(* The board                                                                *)

LEMMA EnergiseRefines ==
    ASSUME TypeOK, Consistent, NEW o \in Orders, DeviceStart(o),
           DownHas("start", o), UNCHANGED <<order, holder>>
    PROVE  Contract!Energises(o)
<1> USE OrdersAssumption, PortOfAssumption DEF Consistent
<1>0. Typed
    BY TypedOf
<1>1. /\ cmd[o] \in {"sent", "stopping"} /\ result[o] = "none"
      /\ holder[PortOf[o]] = o /\ ~EverEnergised(o)
    BY DEF StartTravels
<1>2. order[o] = "paid"
  <2>1. order[o] \in OrderStatus
      BY <1>0 DEF Typed
  <2> QED
      BY <1>1, <2>1 DEF OrderIsTrue, OrderStatus
<1>3. /\ Energised(o)'
      /\ \A q \in Orders \ {o} : Energised(q)' <=> Energised(q)
      /\ completed' = completed
    BY <1>0, <1>1 DEF Typed, DeviceStart, StartAcceptable, EverEnergised, Energised
<1>4. PhaseOf(o) = "paid" /\ PhaseOf(o)' = "energised"
    BY <1>1, <1>2, <1>3 DEF PhaseOf, EverEnergised
<1>5. \A q \in Orders \ {o} : PhaseOf(q)' = PhaseOf(q)
    BY <1>3, PhaseKept
<1> QED
    BY <1>1, <1>4, <1>5, PhaseMoves DEF Contract!Energises

LEMMA EndRefines ==
    ASSUME TypeOK, Consistent, NEW p \in Ports, SwitchOff(p),
           UNCHANGED <<cmd, result, holder, portStatus, startBatch, order, startReceipt>>
    PROVE  \E o \in Orders : Contract!Ends(o)
<1> USE OrdersAssumption, PortOfAssumption DEF Consistent
<1>0. Typed
    BY TypedOf
<1>1. PICK o \in Orders : o = running[p]
    BY SwitchedOff
<1>2. /\ cmd[o] \in {"sent", "acked", "stopping"} /\ o \notin completed
      /\ Energised(o) /\ EverEnergised(o)
    BY <1>1 DEF SwitchOff, RunningIsHeld, Energised, EverEnergised
<1>3. order[o] \in {"paid", "charging"}
  <2>1. order[o] \in OrderStatus
      BY <1>0 DEF Typed
  <2>2. order[o] \notin {"refunding", "refunded"}
      BY <1>2 DEF OrderIsTrue, ResultIsTrue
  <2> QED
      BY <1>2, <2>1, <2>2 DEF OrderIsTrue, EndIsTrue, OrderStatus
<1>4. completed' = completed \cup {o}
    BY <1>1 DEF SwitchOff
<1>5. \A q \in Orders \ {o} : Energised(q)' <=> Energised(q)
    BY <1>0, <1>1 DEF Typed, SwitchOff, Energised
<1>6. PhaseOf(o) = "energised" /\ PhaseOf(o)' = "ended"
    BY <1>2, <1>3, <1>4 DEF PhaseOf
<1>7. \A q \in Orders \ {o} : PhaseOf(q)' = PhaseOf(q)
    BY <1>4, <1>5, PhaseKept
<1> QED
    BY <1>6, <1>7, PhaseMoves DEF Contract!Ends

-----------------------------------------------------------------------------
(* Every step of the lifecycle                                              *)

Unseen == Phase' = Phase /\ UNCHANGED holder

LEMMA GatewayRefines ==
    ASSUME TypeOK, Consistent, RecordStartAck \/ RecordStopAck \/ EndRelease
    PROVE  Unseen \/ \E o \in Orders : Contract!Releases(o)
<1> USE OrdersAssumption, PortOfAssumption DEF Consistent
<1>0. Typed
    BY TypedOf
<1>1. UNCHANGED <<order, running, completed>>
    BY DEF RecordStartAck, RecordStopAck, EndRelease, centralVars, deviceVars
<1>2. CASE UNCHANGED holder
    BY <1>1, <1>2, PhasesKept DEF Unseen
<1>3. CASE RecordStartAck /\ ~UNCHANGED holder
  <2>1. PICK o \in Orders, ok \in BOOLEAN :
            /\ o = Head(up).order /\ ok = Head(up).ok
            /\ UpHas("startack", o, ok)
      BY <1>3, Arriving DEF RecordStartAck
  <2>2. StartAckRejects(o) /\ ~ok
      BY <1>3, <2>1
      DEF RecordStartAck, StartAckRecorded, StartAckConfirms, gatewayVars, portVars
  <2>3. ~EverEnergised(o)
      BY <2>1, <2>2 DEF AckTravels
  <2>4. holder[PortOf[o]] = o /\ holder' = [holder EXCEPT ![PortOf[o]] = NoOrder]
      BY <1>0, <1>3, <2>2 DEF Typed, StartAckRejects, Unreserved, PortIdleFor
  <2> QED
      BY <1>1, <2>3, <2>4, ReleaseRefines DEF EverEnergised
<1>4. CASE RecordStopAck /\ ~UNCHANGED holder
  <2>1. PICK o \in Orders, ok \in BOOLEAN :
            /\ o = Head(up).order /\ ok = Head(up).ok
            /\ UpHas("stopack", o, ok)
    <3>1. up' = Tail(up)
        BY <1>4 DEF RecordStopAck, gatewayVars, portVars
    <3> QED
        BY <1>4, <3>1, Arriving DEF RecordStopAck
  <2>2. ~Energised(o)
      BY <2>1 DEF StopTravels
  <2>3. holder[PortOf[o]] = o /\ holder' = [holder EXCEPT ![PortOf[o]] = NoOrder]
      BY <1>4, <2>1 DEF RecordStopAck, StopAckRecorded, gatewayVars, portVars
  <2> QED
      BY <1>1, <2>2, <2>3, ReleaseRefines
<1>5. CASE EndRelease /\ ~UNCHANGED holder
  <2>1. endItem \in Orders /\ endItem \in completed
      BY <1>0, <1>5 DEF Typed, Holders, EndRelease, EndIsTrue
  <2>2. ~Energised(endItem)
      BY <2>1 DEF Energised, RunningIsHeld
  <2>3. ReleasePort(endItem) /\ holder' = [holder EXCEPT ![PortOf[endItem]] = NoOrder]
      BY <1>5 DEF EndRelease, ReleasePort, gatewayVars, portVars
  <2>4. holder[PortOf[endItem]] = endItem
      BY <1>0, <1>5, <2>1, <2>3
      DEF Typed, ReleasePort, ReleaseConflict, ReleaseFrees, PortIdleFor
  <2>5. PICK o \in Orders : o = endItem
      BY <2>1
  <2> QED
      BY <1>1, <2>2, <2>3, <2>4, <2>5, ReleaseRefines
<1> QED
    BY <1>2, <1>3, <1>4, <1>5

LEMMA BoardRefines ==
    ASSUME TypeOK, Consistent, BoardNext
    PROVE  Unseen \/ Contract!ContractNext
<1> USE DEF Consistent
<1>1. UNCHANGED <<cmd, result, holder, portStatus, startBatch, order, startReceipt>>
    BY DEF BoardNext, BoardStart, BoardStop, BoardStopUnanswered, BoardEndReply,
           BoardHeartbeat, BoardFinish, centralVars, gatewayVars, commandVars, portVars,
           workerVars, startVars
<1>2. CASE UNCHANGED <<running, completed>>
    BY <1>1, <1>2, PhasesKept DEF Unseen
<1>3. ASSUME NEW p \in Ports, SwitchOff(p) PROVE Contract!ContractNext
    BY <1>1, <1>3, EndRefines DEF Contract!ContractNext
<1>4. ASSUME NEW o \in Orders, DownHas("start", o), DeviceStart(o)
      PROVE  Contract!ContractNext
    BY <1>1, <1>4, EnergiseRefines DEF Contract!ContractNext
<1>5. CASE BoardStart
    BY <1>2, <1>4, <1>5, Reading DEF BoardStart, Received, deviceVars
<1>6. CASE BoardStop \/ BoardStopUnanswered
  <2>1. Head(down).order \in Orders
      BY <1>6, DownHead DEF BoardStop, BoardStopUnanswered, Received
  <2>2. PICK p \in Ports : DeviceStop(p) \/ EndUnreported(p)
      BY <1>6, <2>1, PortOfAssumption DEF BoardStop, BoardStopUnanswered
  <2> QED
      BY <1>2, <1>3, <2>2 DEF DeviceStop, EndCharge, EndUnreported, deviceVars
<1>7. CASE BoardEndReply \/ BoardHeartbeat
    BY <1>2, <1>7 DEF BoardEndReply, BoardHeartbeat, Acknowledge, deviceVars
<1>8. ASSUME NEW p \in Ports, BoardFinish(p) PROVE Contract!ContractNext
    BY <1>3, <1>8 DEF BoardFinish, EndCharge
<1> QED
    BY <1>5, <1>6, <1>7, <1>8 DEF BoardNext

LEMMA WorkerRefines ==
    ASSUME TypeOK, Consistent, WorkerNext
    PROVE  Unseen \/ Contract!ContractNext
<1> USE DEF Consistent, Contract!ContractNext
<1>0. Typed
    BY TypedOf
<1>1. UNCHANGED <<running, completed>>
    BY DEF WorkerNext, DispatchReserve, DispatchSend, StartFetch, StartPost, Posted,
           StartPostFails, StartPostConflict, StartMark, EndFetch, EndPost, EndSkip,
           EndReplyLost, EndRelease, EndMark, deviceVars
<1>2. ASSUME NEW o \in Orders, DispatchReserve(o) PROVE Contract!ContractNext
  <2>1. order[o] = "paid" /\ ReserveStart(o) /\ UNCHANGED order
      BY <1>2 DEF DispatchReserve, centralVars
  <2> QED
      BY <1>1, <2>1, ClaimRefines
<1>3. ASSUME NEW r \in startBatch, StartPost(r) PROVE Unseen \/ Contract!ContractNext
  <2>1. PICK o \in Orders : o = r.order
      BY <1>0 DEF Typed
  <2>2. UNCHANGED holder
      BY <1>3 DEF StartPost, Posted, gatewayVars, portVars
  <2>3. CASE UNCHANGED centralVars
      BY <1>1, <2>2, <2>3, PhasesKept DEF Unseen, centralVars
  <2>4. CASE r.ok /\ ApplyStartOK(o)
      BY <1>1, <2>2, <2>4, CentralRefines DEF Unseen
  <2>5. CASE ~r.ok /\ ApplyStartRefused(o)
    <3>1. result[o] = "refused"
        BY <2>1, <2>5 DEF StartBatchIsTrue
    <3> QED
        BY <1>1, <2>2, <2>5, <3>1, CentralRefines
  <2> QED
      BY <1>3, <2>1, <2>3, <2>4, <2>5 DEF StartPost
<1>4. ASSUME NEW r \in startBatch, StartPostConflict(r) PROVE Unseen
  <2>1. UNCHANGED <<order, holder>>
    <3>1. r.ok => cmd[r.order] # "pending"
        BY <1>0 DEF Typed, StartBatchIsTrue, Unsent, Untouched
    <3> QED
        BY <1>4, <3>1 DEF StartPostConflict, CompensateStart, centralVars, gatewayVars, portVars
  <2> QED
      BY <1>1, <2>1, PhasesKept DEF Unseen
<1>5. ASSUME NEW o \in Orders, EndPost(o) PROVE Unseen \/ Contract!ContractNext
  <2>1. o \in completed /\ UNCHANGED holder
      BY <1>5 DEF EndPost, NextEnd, EndIsTrue, gatewayVars, portVars
  <2>2. CASE UNCHANGED centralVars
      BY <1>1, <2>1, <2>2, PhasesKept DEF Unseen, centralVars
  <2>3. CASE ApplyEnd(o)
      BY <1>1, <2>1, <2>3, CentralRefines
  <2> QED
      BY <1>5, <2>2, <2>3 DEF EndPost
<1>6. CASE EndRelease
    BY <1>6, GatewayRefines
<1>7. ASSUME NEW o \in Orders, DispatchSend(o) \/ EndSkip(o) PROVE Unseen
  <2>1. UNCHANGED <<order, holder>>
      BY <1>7 DEF DispatchSend, EndSkip, MarkStartSent, centralVars, gatewayVars, portVars
  <2> QED
      BY <1>1, <2>1, PhasesKept DEF Unseen
<1>8. ASSUME \/ StartFetch \/ StartMark \/ EndFetch \/ EndReplyLost \/ EndMark
             \/ \E r \in startBatch : StartPostFails(r)
      PROVE  Unseen
  <2>1. UNCHANGED <<order, holder>>
      BY <1>8
      DEF StartFetch, StartMark, EndFetch, EndReplyLost, EndMark, StartPostFails,
          MarkReported, MarkProcessed, centralVars, gatewayVars, portVars
  <2> QED
      BY <1>1, <2>1, PhasesKept DEF Unseen
<1> QED
    BY <1>2, <1>3, <1>4, <1>5, <1>6, <1>7, <1>8 DEF WorkerNext

LEMMA OthersUnseen ==
    ASSUME \/ HandlerNext \/ FaultNext \/ UNCHANGED vars
           \/ \E o \in Orders : RetryStopping(o) \/ UserStopRequest(o) \/ RetryUserStop(o)
           \/ RecordUserStopAck \/ RecordEnd
    PROVE  Unseen
<1>1. UNCHANGED <<order, running, completed, holder>>
    BY DEF HandlerNext, WriteStart, SendReturns, SendFails, MarkStartStopping, FaultNext,
           Disconnect, Reconnect, GatewayCrash, WorkerAbort, RetryStopping,
           UserStopRequest, ReserveUserStop, RetryUserStop, MarkUserStopSent,
           RecordUserStopAck, UserStopAckRecorded, RecordEnd, EndRecorded,
           vars, centralVars, gatewayVars, deviceVars, portVars
<1> QED
    BY <1>1, PhasesKept DEF Unseen

LEMMA StepRefines ==
    ASSUME TypeOK, Consistent, [Next]_vars
    PROVE  [Contract!ContractNext]_(Contract!contractVars)
<1>1. Unseen \/ Contract!ContractNext
  <2>1. ASSUME NEW o \in Orders, Pay(o) \/ Refund(o) PROVE Unseen \/ Contract!ContractNext
    <3>1. UNCHANGED <<running, completed, holder>>
        BY <2>1 DEF Pay, Refund, gatewayVars, portVars, deviceVars
    <3> QED
        BY <2>1, <3>1, CentralRefines DEF Pay, Refund, Unseen, Contract!ContractNext
  <2>2. CASE CentralNext
      BY <2>1, <2>2 DEF CentralNext
  <2>3. CASE GatewayNext
      BY <2>3, GatewayRefines, OthersUnseen DEF GatewayNext, Contract!ContractNext
  <2> QED
      BY <2>2, <2>3, BoardRefines, WorkerRefines, OthersUnseen DEF Next
<1> QED
    BY <1>1 DEF Unseen, Phase, Contract!contractVars

(* The lifecycle keeps every promise of ChargeContract: a port is claimed   *)
(* before it is energised, released only when its holder draws no current,  *)
(* and an order is refunded only if it was never energised.                 *)
THEOREM LifecycleImplementsContract == Spec => ImplementsContract
<1>1. Init => Contract!ContractInit
  <2> SUFFICES ASSUME Init PROVE Contract!ContractInit
      OBVIOUS
  <2>1. \A o \in Orders : PhaseOf(o) = "unpaid"
      BY DEF Init, CentralInit, PhaseOf
  <2>2. holder = [p \in Ports |-> NoOrder]
      BY DEF Init, GatewayInit
  <2> QED
      BY <2>1, <2>2 DEF Contract!ContractInit
<1>2. TypeOK /\ Consistent /\ [Next]_vars => [Contract!ContractNext]_(Contract!contractVars)
    BY StepRefines
<1> QED
    BY <1>1, <1>2, Invariance, PTL
    DEF Spec, ImplementsContract, Contract!ContractSpec, InductiveInvariant

-----------------------------------------------------------------------------
(* The contract by itself, of whatever has phases and claims.               *)

VARIABLES phase, claim
Promise == INSTANCE ChargeContract

(* That current implies a claim is what makes exclusion inductive: claims   *)
(* are unique by construction.                                              *)
ContractInv == Promise!ContractTypeOK /\ Promise!EnergisedHoldsPort

LEMMA ContractInductive ==
    ContractInv /\ [Promise!ContractNext]_Promise!contractVars => ContractInv'
<1> SUFFICES ASSUME ContractInv, [Promise!ContractNext]_Promise!contractVars
             PROVE  ContractInv'
    OBVIOUS
<1> USE OrdersAssumption, PortOfAssumption DEF ContractInv, Promise!ContractTypeOK,
        Promise!EnergisedHoldsPort, Promise!Phases, Promise!Holders
<1>1. CASE UNCHANGED Promise!contractVars
    BY <1>1 DEF Promise!contractVars
<1>2. ASSUME NEW o \in Orders, Promise!Pays(o) PROVE ContractInv'
    BY <1>2 DEF Promise!Pays, Promise!Advance
<1>3. ASSUME NEW o \in Orders, Promise!Claims(o) PROVE ContractInv'
  <2>1. \A q \in Orders : phase[q] = "energised" => PortOf[q] # PortOf[o]
      BY <1>3 DEF Promise!Claims
  <2>2. QED
      BY <1>3, <2>1 DEF Promise!Claims
<1>4. ASSUME NEW o \in Orders, Promise!Energises(o) PROVE ContractInv'
    BY <1>4 DEF Promise!Energises, Promise!Advance
<1>5. ASSUME NEW o \in Orders, Promise!Ends(o) PROVE ContractInv'
    BY <1>5 DEF Promise!Ends, Promise!Advance
<1>6. ASSUME NEW o \in Orders, Promise!Settles(o) PROVE ContractInv'
    BY <1>6 DEF Promise!Settles, Promise!Advance
<1>7. ASSUME NEW o \in Orders, Promise!Refunds(o) PROVE ContractInv'
    BY <1>7 DEF Promise!Refunds, Promise!Advance
<1>8. ASSUME NEW o \in Orders, Promise!Releases(o) PROVE ContractInv'
  <2>1. \A q \in Orders : phase[q] = "energised" => PortOf[q] # PortOf[o]
      BY <1>8 DEF Promise!Releases
  <2>2. QED
      BY <1>8, <2>1 DEF Promise!Releases
<1> QED
    BY <1>1, <1>2, <1>3, <1>4, <1>5, <1>6, <1>7, <1>8 DEF Promise!ContractNext

(* An order that draws current holds its port, and so a port serves one     *)
(* order at a time (device_port.current_order_id).                          *)
THEOREM ContractExcludes ==
    Promise!ContractSpec => [](Promise!EnergisedHoldsPort /\ Promise!OneEnergisedPerPort)
<1>1. Promise!ContractInit => ContractInv
    BY OrdersAssumption, PortOfAssumption
    DEF Promise!ContractInit, ContractInv, Promise!ContractTypeOK,
        Promise!EnergisedHoldsPort, Promise!Phases, Promise!Holders
<1>2. ContractInv => Promise!EnergisedHoldsPort /\ Promise!OneEnergisedPerPort
    BY DEF ContractInv, Promise!EnergisedHoldsPort, Promise!OneEnergisedPerPort
<1> QED
    BY <1>1, <1>2, ContractInductive, PTL DEF Promise!ContractSpec
============================================================================
