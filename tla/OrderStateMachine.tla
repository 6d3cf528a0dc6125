------------------------- MODULE OrderStateMachine -------------------------
(***************************************************************************)
(* The order status graph: which status may follow which, for the natural  *)
(* flows and for the operations desk, and the predicates the services ask  *)
(* before they act.  A pure module: the services that keep the state are   *)
(* OfferCommands, DeliveryCommands and OpsCommands.                        *)
(***************************************************************************)

OrderStatuses ==
    { "PENDING_STORE_APPROVAL", "APPROVED_BY_STORE", "SEARCHING_DRIVER",
      "DRIVER_ASSIGNED", "READY_FOR_PICKUP", "ARRIVED_AT_STORE",
      "ACCEPTED_BY_DRIVER", "PICKED_UP", "ARRIVED_AT_CUSTOMER",
      "DELIVERED", "CANCELLED" }

\* Natural forward path and cancellation.
Allowed ==
    [ PENDING_STORE_APPROVAL |-> {"SEARCHING_DRIVER", "CANCELLED"},
      APPROVED_BY_STORE      |-> {"SEARCHING_DRIVER", "CANCELLED"},
      SEARCHING_DRIVER       |-> {"DRIVER_ASSIGNED", "CANCELLED"},
      DRIVER_ASSIGNED        |-> {"READY_FOR_PICKUP", "ARRIVED_AT_STORE", "CANCELLED"},
      READY_FOR_PICKUP       |-> {"ARRIVED_AT_STORE", "CANCELLED"},
      ARRIVED_AT_STORE       |-> {"PICKED_UP", "CANCELLED"},
      ACCEPTED_BY_DRIVER     |-> {"PICKED_UP", "CANCELLED"},
      PICKED_UP              |-> {"ARRIVED_AT_CUSTOMER", "CANCELLED"},
      ARRIVED_AT_CUSTOMER    |-> {"DELIVERED", "CANCELLED"},
      DELIVERED              |-> {},
      CANCELLED              |-> {} ]

\* What the operations commands may do on top of it.
OpsAllowed ==
    [ PENDING_STORE_APPROVAL |-> {},
      APPROVED_BY_STORE      |-> {},
      SEARCHING_DRIVER       |-> {"READY_FOR_PICKUP"},
      DRIVER_ASSIGNED        |-> {"SEARCHING_DRIVER"},
      READY_FOR_PICKUP       |-> {"SEARCHING_DRIVER", "PENDING_STORE_APPROVAL",
                                  "DRIVER_ASSIGNED"},
      ARRIVED_AT_STORE       |-> {"SEARCHING_DRIVER", "DRIVER_ASSIGNED",
                                  "READY_FOR_PICKUP"},
      ACCEPTED_BY_DRIVER     |-> {},
      PICKED_UP              |-> {"READY_FOR_PICKUP", "PENDING_STORE_APPROVAL",
                                  "SEARCHING_DRIVER"},
      ARRIVED_AT_CUSTOMER    |-> {"PICKED_UP", "READY_FOR_PICKUP",
                                  "PENDING_STORE_APPROVAL", "SEARCHING_DRIVER"},
      DELIVERED              |-> {},
      CANCELLED              |-> {"PENDING_STORE_APPROVAL", "SEARCHING_DRIVER",
                                  "DRIVER_ASSIGNED", "READY_FOR_PICKUP"} ]

MayTransition(from, to)    == to \in Allowed[from]
MayOpsTransition(from, to) == to \in Allowed[from] \cup OpsAllowed[from]

IsTerminal(status)        == status \in {"DELIVERED", "CANCELLED"}
CustomerMayCancel(status) == status = "PENDING_STORE_APPROVAL"
DashboardMayCancel(status) == ~IsTerminal(status)

MayApprove(status)               == status = "PENDING_STORE_APPROVAL"
MayMarkReady(status)             == status \in {"DRIVER_ASSIGNED", "ARRIVED_AT_STORE"}
MayConfirmArrivalAtStore(status) == status \in {"DRIVER_ASSIGNED", "READY_FOR_PICKUP"}
MayConfirmPickup(status)         == status = "ARRIVED_AT_STORE"
MayConfirmArrival(status)        == status = "PICKED_UP"
MayConfirmDelivery(status)       == status = "ARRIVED_AT_CUSTOMER"

=============================================================================
