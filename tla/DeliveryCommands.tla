-------------------------- MODULE DeliveryCommands --------------------------
(***************************************************************************)
(* The way of an order with its driver, from the store's kitchen to the    *)
(* customer's door: OrderLifecycleService.  A command is given by the      *)
(* driver or the store, or by the desk on their behalf.  The desk needs no *)
(* photograph, so the proofs a driver attaches are not modelled here; what *)
(* differs for the state is a parameter, scope.                            *)
(***************************************************************************)
EXTENDS OrderTables

\* assertStorePhaseNotBlocked().
StorePhaseNotBlocked(o) ==
    /\ ~IsTerminal(Status(o))
    /\ ~handoffs[o].pending
    /\ ~HasActiveReturn(o)

\* Mutant of DeliveryNotBlocked: a pending handoff does not block.
NotCancelledOrReturning(o) == Status(o) # "CANCELLED" /\ ~HasActiveReturn(o)

\* assertDeliveryNotBlocked().
DeliveryNotBlocked(o) ==
    /\ Status(o) # "CANCELLED"
    /\ ~handoffs[o].pending
    /\ ~HasActiveReturn(o)

\* A driver already at the store stays ARRIVED_AT_STORE.  (Not in the mutant.)
AlwaysReady(o) == "READY_FOR_PICKUP"
StatusWhenReady(o) ==
    IF Status(o) = "ARRIVED_AT_STORE" THEN Status(o) ELSE "READY_FOR_PICKUP"

MarkReady(o) ==
    /\ HasWorkingAssignment(o)
    /\ StorePhaseNotBlocked(o)
    /\ ~orders[o].ready
    /\ MayMarkReady(Status(o))
    /\ orders' = [orders EXCEPT ![o].ready = TRUE, ![o].status = StatusWhenReady(o)]
    /\ Enqueue({}, FALSE)
    /\ UNCHANGED <<assignments, replacements, rounds, handoffs, returns>>

ConfirmArrivalAtStore(o) ==
    /\ assignments[o].status = "ASSIGNED"
    /\ StorePhaseNotBlocked(o)
    /\ Custody(o) = "WITH_STORE"
    /\ MayConfirmArrivalAtStore(Status(o))
    /\ orders' = [orders EXCEPT ![o].status = "ARRIVED_AT_STORE"]
    /\ assignments' = [assignments EXCEPT ![o].status = "ARRIVED_AT_STORE"]
    /\ Enqueue({}, FALSE)
    /\ UNCHANGED <<replacements, rounds, handoffs, returns>>

\* arrived_at_store_at is set exactly from ARRIVED_AT_STORE on.
ConfirmPickup(o) ==
    /\ HasWorkingAssignment(o)
    /\ StorePhaseNotBlocked(o)
    /\ orders[o].ready
    /\ assignments[o].status # "ASSIGNED"
    /\ MayConfirmPickup(Status(o))
    /\ orders' = [orders EXCEPT ![o].status = "PICKED_UP", ![o].custody = "WITH_DRIVER",
                                ![o].holder = assignments[o].driver]
    /\ assignments' = [assignments EXCEPT ![o].status = "PICKED_UP"]
    /\ Enqueue({}, FALSE)
    /\ UNCHANGED <<replacements, rounds, handoffs, returns>>

\* confirmArrival, at the customer.  Only the driver's own confirmation compares
\* the assignment with the custody holder.
ConfirmArrival(o, scope) ==
    /\ DeliveryNotBlocked(o)
    /\ HasWorkingAssignment(o)
    /\ MayConfirmArrival(Status(o))
    /\ scope = "DRIVER" => /\ Custody(o) = "WITH_DRIVER"
                           /\ orders[o].holder = assignments[o].driver
    /\ orders' = [orders EXCEPT ![o].status = "ARRIVED_AT_CUSTOMER"]
    /\ assignments' = [assignments EXCEPT ![o].status = "ARRIVED_AT_CUSTOMER"]
    /\ Enqueue({}, FALSE)
    /\ UNCHANGED <<replacements, rounds, handoffs, returns>>

ConfirmDelivery(o) ==
    /\ DeliveryNotBlocked(o)
    /\ HasWorkingAssignment(o)
    /\ MayConfirmDelivery(Status(o))
    /\ Custody(o) = "WITH_DRIVER"
    /\ orders[o].holder = assignments[o].driver
    /\ orders' = [orders EXCEPT ![o].status = "DELIVERED", ![o].custody = "WITH_CUSTOMER",
                                ![o].holder = None]
    /\ assignments' = [assignments EXCEPT ![o] = NoAssignment]
    /\ Enqueue({assignments[o].driver}, FALSE)
    /\ UNCHANGED <<replacements, rounds, handoffs, returns>>

DeliveryCommand(o) ==
    \/ MarkReady(o)
    \/ ConfirmArrivalAtStore(o)
    \/ ConfirmPickup(o)
    \/ \E scope \in {"DRIVER", "DASHBOARD"} : ConfirmArrival(o, scope)
    \/ ConfirmDelivery(o)

DeliveryNext == \E o \in Orders : DeliveryCommand(o)

=============================================================================
