---------------------------- MODULE MCSettlement ----------------------------
(* Small payments: a charge of two cents refunded by several requests, and  *)
(* a wallet with two recharges and a card charge.                           *)
EXTENDS Settlement, TLC

CONSTANTS e1, e2, b1, b2, m1, m2, w1, w2

OneScan == [p \in {1} |-> 2]
OneWallet == [p \in {1, 2, 3} |-> IF p = 2 THEN 2 ELSE 1]

RefundSymmetry ==
    Permutations(Executors) \cup Permutations(Billers) \cup Permutations(ManualRequests)
=============================================================================
