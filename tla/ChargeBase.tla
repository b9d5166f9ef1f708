----------------------------- MODULE ChargeBase -----------------------------
(***************************************************************************)
(* The identities every part of the charging path shares: charge orders,   *)
(* device ports, and the port each order was paid for (charge_order keeps  *)
(* device_id and port_no from its creation to its end).                    *)
(***************************************************************************)
CONSTANTS
    Orders,   \* charge orders, by charge_order.id
    Ports,    \* device ports, by device_port.id
    NoOrder,  \* current_order_id IS NULL
    PortOf    \* the port an order is paid for

ASSUME OrdersAssumption == NoOrder \notin Orders
ASSUME PortOfAssumption == PortOf \in [Orders -> Ports]

Holders == Orders \cup {NoOrder}
=============================================================================
