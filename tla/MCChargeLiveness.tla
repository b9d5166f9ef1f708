-------------------------- MODULE MCChargeLiveness --------------------------
(* One order, or two that share a port.                                     *)
EXTENDS ChargeLiveness

CONSTANTS o1, o2, p1, p2

OnePort == [o \in Orders |-> p1]
=============================================================================
