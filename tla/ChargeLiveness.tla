--------------------------- MODULE ChargeLiveness ---------------------------
(***************************************************************************)
(* What the charging path must eventually do, and the fairness its         *)
(* scheduling gives.  Faults, payments and user requests are not fair:     *)
(* they need never happen, and faults are bounded by MaxFaults.            *)
(***************************************************************************)
EXTENDS ChargeLifecycle

(* A goroutine that is running goes on: Start in the gateway, the reader of *)
(* the connection, the body of a worker batch.                              *)
RunningGoroutines ==
    /\ \A o \in Orders :
          /\ WF_vars(WriteStart(o))
          /\ WF_vars(SendReturns(o) \/ SendFails(o))
    /\ WF_vars(RecordStartAck \/ RecordStopAck \/ RecordUserStopAck \/ RecordEnd)
    /\ WF_vars(\E r \in startBatch : StartPost(r) \/ StartPostConflict(r))
    /\ WF_vars(StartMark)
    /\ WF_vars(\E o \in Orders : EndPost(o) \/ EndSkip(o))
    /\ WF_vars(EndRelease)
    /\ WF_vars(EndMark)

(* The worker calls dispatch, start sync and end sync in turn, for ever, so *)
(* none of them starves the others although one runs at a time.             *)
WorkerLoop ==
    /\ \A o \in Orders : SF_vars(DispatchReserve(o)) /\ SF_vars(DispatchSend(o))
    /\ SF_vars(StartFetch)
    /\ SF_vars(EndFetch)

(* Timers fire again and again; Quiet only bounds how far ahead they run.   *)
Timers ==
    /\ \A o \in Orders : SF_vars(RetryStopping(o)) /\ SF_vars(RetryUserStop(o))
    /\ SF_vars(BoardHeartbeat)
    /\ WF_vars(Reconnect)

(* The board reads its frames, and no charge lasts for ever: its time or    *)
(* energy runs out.                                                         *)
BoardRuns ==
    /\ WF_vars(BoardStart \/ BoardStop \/ BoardEndReply)
    /\ \A p \in Ports : WF_vars(BoardFinish(p))

RefundRuns == \A o \in Orders : WF_vars(Refund(o))

FairSpec ==
    Spec /\ RunningGoroutines /\ WorkerLoop /\ Timers /\ BoardRuns /\ RefundRuns

-----------------------------------------------------------------------------
(* A charge the gateway knows to have started is settled: its end reaches   *)
(* central and is taken off the gateway's list, whatever frame, batch or    *)
(* connection is lost on the way (end_sync.go, behavior.go).                *)
StartedIsSettled ==
    \A o \in Orders : cmd[o] = "acked" ~> o \in endReceipt /\ o \in processed

(* A start that was undone or left in doubt gives its port back: STOP is    *)
(* repeated until the board has confirmed it (compensate.go).               *)
StoppingFreesPort ==
    \A o \in Orders : cmd[o] = "stopping" ~> cmd[o] = "rejected" /\ holder[PortOf[o]] # o

(* A start the board refused is refunded in full (start_result.go).         *)
RefusedIsRefunded ==
    \A o \in Orders : result[o] = "refused" ~> order[o] = "refunded"

-----------------------------------------------------------------------------
(* The outcome of a START that was sent becomes known: the command does not *)
(* stay "sent" for ever, because something queries, retries or compensates  *)
(* it (README.md:150).                                                      *)
SentIsResolved ==
    \A o \in Orders : cmd[o] = "sent" ~> cmd[o] # "sent"

(* An end event whose end central has saved is taken off the list: the port *)
(* was released for it before, so that releasing it again does nothing      *)
(* (worker_sync.go:185).                                                    *)
SettledIsProcessed ==
    \A o \in Orders : o \in endReceipt ~> o \in processed
=============================================================================
