--------------------------- MODULE MCPortCheckout ---------------------------
(***************************************************************************)
(* Two counters: checkouts for one port, scanned and with a card, from the *)
(* payment to the money that goes back; and a card held to a board, from   *)
(* the swipe to the word the board hears.  Both sell sessions of a port,   *)
(* the first through every step of the payment, the second through every   *)
(* step of the messages.  A behaviour follows one of them.                 *)
(***************************************************************************)
EXTENDS PortCheckout, CardDispatch

CONSTANTS s1, s2, c1, c2, p1

OnePort == [o \in Orders |-> p1]

VARIABLE side
mcVars == <<side, checkoutVars, cardVars>>

MCInit ==
  /\ CheckoutInit /\ CardInit
  /\ side \in {"checkout", "board"}
  /\ side = "checkout" => session = NoSession

MCNext ==
  \/ side = "checkout" /\ CheckoutNext /\ UNCHANGED <<side, cardVars>>
  \/ side = "board" /\ CardNext /\ UNCHANGED <<side, checkoutVars>>

\* CheckoutFairness of the behaviours that are about a checkout.
MCFairness ==
  \A o \in Orders :
    /\ WF_checkoutVars(side = "checkout" /\ Notify(o))
    /\ WF_checkoutVars(side = "checkout" /\ (SettleOrder(o) \/ QueueLateRefund(o)))

MCSpec == MCInit /\ [][MCNext]_mcVars /\ MCFairness
=============================================================================
