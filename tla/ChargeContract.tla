--------------------------- MODULE ChargeContract ---------------------------
(***************************************************************************)
(* What the platform promises about a paid charge, without messages,       *)
(* retries or restarts.  An order is paid, claims its port, and is then    *)
(* either energised, ended and settled, or refunded without ever having    *)
(* been energised.  A port serves one order at a time: a second order      *)
(* claims it only after the first has released it, and it is released only *)
(* when its holder draws no current.                                       *)
(***************************************************************************)
EXTENDS ChargeBase

VARIABLES
    phase,  \* how far each order has come
    claim   \* the order that may use each port

contractVars == <<phase, claim>>

Phases == {"unpaid", "paid", "energised", "ended", "settled", "refunded"}

ContractTypeOK ==
    /\ phase \in [Orders -> Phases]
    /\ claim \in [Ports -> Holders]

ContractInit ==
    /\ phase = [o \in Orders |-> "unpaid"]
    /\ claim = [p \in Ports |-> NoOrder]

Advance(o, from, to) ==
    /\ phase[o] = from
    /\ phase' = [phase EXCEPT ![o] = to]

Pays(o) == Advance(o, "unpaid", "paid") /\ UNCHANGED claim

Claims(o) ==
    /\ phase[o] = "paid"
    /\ claim[PortOf[o]] = NoOrder
    /\ claim' = [claim EXCEPT ![PortOf[o]] = o]
    /\ UNCHANGED phase

Energises(o) ==
    /\ claim[PortOf[o]] = o
    /\ Advance(o, "paid", "energised")
    /\ UNCHANGED claim

Ends(o) == Advance(o, "energised", "ended") /\ UNCHANGED claim

Settles(o) == Advance(o, "ended", "settled") /\ UNCHANGED claim

Refunds(o) ==
    /\ claim[PortOf[o]] # o
    /\ Advance(o, "paid", "refunded")
    /\ UNCHANGED claim

Releases(o) ==
    /\ claim[PortOf[o]] = o
    /\ phase[o] # "energised"
    /\ claim' = [claim EXCEPT ![PortOf[o]] = NoOrder]
    /\ UNCHANGED phase

ContractNext ==
    \E o \in Orders :
        \/ Pays(o) \/ Claims(o) \/ Energises(o) \/ Ends(o)
        \/ Settles(o) \/ Refunds(o) \/ Releases(o)

ContractSpec == ContractInit /\ [][ContractNext]_contractVars

-----------------------------------------------------------------------------
(* An order that draws current holds its port.                              *)
EnergisedHoldsPort ==
    \A o \in Orders : phase[o] = "energised" => claim[PortOf[o]] = o

(* No two orders draw current from one port.                                *)
OneEnergisedPerPort ==
    \A o, q \in Orders :
        phase[o] = "energised" /\ phase[q] = "energised" /\ PortOf[o] = PortOf[q]
            => o = q
=============================================================================
