------------------------- MODULE MCChargeLifecycle -------------------------
(* Two orders on one port: the second waits for, or races with, the first.  *)
EXTENDS ChargeInvariant, TLC

CONSTANTS o1, o2, p1, p2

OnePort == [o \in Orders |-> p1]

OrderSymmetry == Permutations(Orders)
=============================================================================
