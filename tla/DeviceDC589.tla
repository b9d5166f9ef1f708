---------------------------- MODULE DeviceDC589 -----------------------------
(***************************************************************************)
(* The DC589 board as internal/gateway/simulator/dc589 implements it: what *)
(* runs on each port, the orders it has completed, and the end-of-charge   *)
(* reports (frame BB) it keeps until the gateway acknowledges them.  All   *)
(* of it is in the board's state file and survives a lost connection.      *)
(*                                                                         *)
(* STOP and the BB acknowledgement name a port, not an order: the board    *)
(* stops whatever runs there, and drops its first pending report there.    *)
(***************************************************************************)
EXTENDS ChargeBase, Sequences, Integers

VARIABLES
    running,    \* board.charging: the order energised on each port
    completed,  \* board.completed: orders that have run and ended
    pending     \* board.pending: unacknowledged BB reports, oldest first

deviceVars == <<running, completed, pending>>

DeviceTypeOK ==
    /\ running \in [Ports -> Holders]
    /\ completed \subseteq Orders
    /\ pending \in Seq(Orders)

DeviceInit ==
    /\ running = [p \in Ports |-> NoOrder]
    /\ completed = {}
    /\ pending = <<>>

-----------------------------------------------------------------------------
(* start answers 0 only for a charge it runs; a repeated START of the       *)
(* running order is confirmed again without restarting it.                  *)
StartAcceptable(o) ==
    o \notin completed /\ running[PortOf[o]] \in {o, NoOrder}

DeviceStart(o) ==
    /\ StartAcceptable(o)
    /\ running' = [running EXCEPT ![PortOf[o]] = o]
    /\ UNCHANGED <<completed, pending>>

SwitchOff(p) ==
    /\ running[p] # NoOrder
    /\ running' = [running EXCEPT ![p] = NoOrder]
    /\ completed' = completed \cup {running[p]}

(* The end of a charge: stop, advance.  The report is queued with it.       *)
EndCharge(p) ==
    /\ SwitchOff(p)
    /\ pending' = Append(pending, running[p])

(* stop returns before reportEnd when it cannot write its acknowledgement.  *)
EndUnreported(p) ==
    /\ SwitchOff(p)
    /\ UNCHANGED pending

(* A STOP for an idle port is confirmed and changes nothing.                *)
DeviceStop(p) ==
    \/ EndCharge(p)
    \/ running[p] = NoOrder /\ UNCHANGED deviceVars

(* acknowledge removes the first pending report of the port, if any.        *)
PendingAt(p) == {i \in DOMAIN pending : PortOf[pending[i]] = p}

Acknowledge(p) ==
    /\ UNCHANGED <<running, completed>>
    /\ \/ \E i \in PendingAt(p) :
             /\ \A j \in PendingAt(p) : i <= j
             /\ pending' = SubSeq(pending, 1, i - 1)
                             \o SubSeq(pending, i + 1, Len(pending))
       \/ PendingAt(p) = {} /\ UNCHANGED pending
=============================================================================
