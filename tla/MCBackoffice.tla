---------------------------- MODULE MCBackoffice ----------------------------
(***************************************************************************)
(* The parts of the back office side by side: settlements and withdrawals, *)
(* invoices, coupons, refunds out of a wallet, the daily reconciliation,   *)
(* fault reports and feedback, exports, imports of devices.  They share no *)
(* state that two of them write, so a behaviour follows one of them and    *)
(* lets the others rest in their initial states.                           *)
(***************************************************************************)
EXTENDS Payout, DeviceImport, Casework, ExportTask, WalletRisk, Reconcile, CouponGrant,
        Invoice, TLC

MCFee == "c1" :> [electric |-> 2, service |-> 3] @@ "c2" :> [electric |-> 1, service |-> 2]
MCStationOf == [c \in Calculations |-> "s1"]
MCFirstRow == "t1" :> 0 @@ "t2" :> 2
MCPartyChoices == {1 :> 7 @@ 2 :> 3, 1 :> 5 @@ 2 :> 5, 1 :> 6 @@ 2 :> 5}

MCOrderOf == [q \in Requests |-> "o1"]
MCOwnerOf == [t \in Tasks |-> "a1"]

MCTriggeredBy == 1 :> "recharge" @@ 2 :> "order"
MCQuota == [k \in Coupons |-> [total |-> 3, perUser |-> 1]]
MCKindOf == [t \in Calls |-> IF t \in {"r1", "r2"} THEN "recharge"
                             ELSE IF t = "o1" THEN "order" ELSE "manual"]
MCUserOf == [t \in Calls |-> "u1"]
MCRequestOf == [t \in Calls |-> t]
MCGivenBy == [t \in Calls |-> "k1"]
Setting(max, coupon) == [max |-> max, perUser |-> 1, coupon |-> coupon]
MCSettings == 1 :> {Setting(1, "k1"), Setting(2, "k1"), Setting(1, "k2")}
              @@ 2 :> {Setting(1, "k1")}

Row(ref, cents) == [ref |-> ref, cents |-> cents]
MCReports == {<<Row("n1", 1)>>, <<Row("n1", 1), Row("n1", 1)>>,
              <<Row("n1", 2), Row("n2", 1)>>, <<Row("n3", 2), Row("n2", 1)>>}

Unit(v, n) == [vendor |-> v, site |-> "p1", ports |-> n]
MCLists == {"d1" :> Unit("v1", 1) @@ "d2" :> Unit("v1", 1),
            "d1" :> Unit("v1", 3), "d0" :> Unit("v1", 1)}
MCDirect == {"d2" :> Unit("v1", 2)}

VARIABLE side
vars == <<payoutVars, invoiceVars, grantVars, riskVars, reconcileVars, caseVars,
          exportVars, importVars, side>>

Init ==
  /\ PayoutInit /\ InvoiceInit /\ GrantInit
  /\ RiskInit /\ ReconcileInit /\ CaseInit /\ ExportInit /\ ImportInit
  /\ \A r \in Rules : rule[r] = RuleRow(Setting(1, "k1"), TRUE)   \* UpdateRule reaches the rest
  /\ side \in {"payout", "invoice", "coupon", "risk", "books", "cases", "exports", "imports"}
  /\ side # "books" => kind = "split"

Next ==
  \/ /\ side = "payout" /\ PayoutNext
     /\ UNCHANGED <<side, invoiceVars, grantVars, riskVars, reconcileVars, caseVars,
                    exportVars, importVars>>
  \/ /\ side = "invoice" /\ InvoiceNext
     /\ UNCHANGED <<side, payoutVars, grantVars, riskVars, reconcileVars, caseVars,
                    exportVars, importVars>>
  \/ /\ side = "coupon" /\ GrantNext
     /\ UNCHANGED <<side, payoutVars, invoiceVars, riskVars, reconcileVars, caseVars,
                    exportVars, importVars>>
  \/ /\ side = "risk" /\ RiskNext
     /\ UNCHANGED <<side, payoutVars, invoiceVars, grantVars, reconcileVars, caseVars,
                    exportVars, importVars>>
  \/ /\ side = "books" /\ ReconcileNext
     /\ UNCHANGED <<side, payoutVars, invoiceVars, grantVars, riskVars, caseVars,
                    exportVars, importVars>>
  \/ /\ side = "cases" /\ CaseNext
     /\ UNCHANGED <<side, payoutVars, invoiceVars, grantVars, riskVars, reconcileVars,
                    exportVars, importVars>>
  \/ /\ side = "exports" /\ ExportNext
     /\ UNCHANGED <<side, payoutVars, invoiceVars, grantVars, riskVars, reconcileVars,
                    caseVars, importVars>>
  \/ /\ side = "imports" /\ ImportNext
     /\ UNCHANGED <<side, payoutVars, invoiceVars, grantVars, riskVars, reconcileVars,
                    caseVars, exportVars>>

Spec == Init /\ [][Next]_vars
=============================================================================
