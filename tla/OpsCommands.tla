---------------------------- MODULE OpsCommands ----------------------------
(***************************************************************************)
(* Everything that can go wrong with an order on its way: cancellation by  *)
(* the customer or the desk, taking a driver off it, handing the goods to  *)
(* another driver, returning them to the store, reopening it.              *)
(* OrderOpsService, and the cancellations of OrderService.                 *)
(***************************************************************************)
EXTENDS OrderTables

\* closeAssignmentAndOffersOnCancel: of an order whose goods are in the store.
\* Only the driver of the custody-bearing assignment is tracked.
CloseOnCancel(o) ==
    /\ orders' = [orders EXCEPT ![o].status = "CANCELLED",
                    ![o].driver = IF HasAssignment(o) THEN None ELSE @]
    /\ CloseRound(o)
    /\ CloseHandoff(o)
    /\ assignments' = [assignments EXCEPT ![o] = NoAssignment]
    /\ Enqueue({assignments[o].driver} \ {None},
               \/ rounds[o].open # "NONE"
               \/ HasAssignment(o)
               \/ HasReplacement(o) \/ handoffs[o].pending)
    /\ UNCHANGED returns

CancelByCustomer(o) ==
    /\ CustomerMayCancel(Status(o))
    /\ CloseOnCancel(o)

\* executeDashboardCancel, goods not with a driver.
CancelByDashboard(o) ==
    /\ DashboardMayCancel(Status(o))
    /\ Custody(o) # "WITH_DRIVER"
    /\ CloseOnCancel(o)

\* executeDashboardCancel, goods with a driver: the order is CANCELLED at once and
\* the goods must come back.  A return already under way refuses it.
CancelAfterPickup(o) ==
    /\ DashboardMayCancel(Status(o))
    /\ Custody(o) = "WITH_DRIVER"
    /\ HasWorkingAssignment(o)
    /\ ~HasActiveReturn(o)
    /\ orders' = [orders EXCEPT ![o].status = "CANCELLED"]
    /\ CloseRound(o)
    /\ CloseHandoff(o)
    /\ assignments' = [assignments EXCEPT ![o].status = "RETURN_PENDING"]
    /\ returns' = [returns EXCEPT ![o].status = "WAITING_FOR_DRIVER_RETURN",
                                  ![o].driver = assignments[o].driver]
    /\ Enqueue({assignments[o].driver}, rounds[o].open # "NONE" \/ handoffs[o].pending)

----------------------------------------------------------------------------
(* Taking the driver off before pickup. *)

MayRemoveDriver(o) ==
    /\ Custody(o) = "WITH_STORE"
    /\ Status(o) \in {"DRIVER_ASSIGNED", "READY_FOR_PICKUP", "ARRIVED_AT_STORE"}
    /\ assignments[o].status \in BeforePickup

\* resolveLockedFee().
LockedFee(o) == IF orders[o].fee # None THEN orders[o].fee ELSE assignments[o].fee

\* A READY_FOR_PICKUP order is ready, whether or not the mark was kept.
ReadyAfterRemoval(o) == orders[o].ready \/ Status(o) = "READY_FOR_PICKUP"

RemoveAndReoffer(o) ==
    /\ MayRemoveDriver(o)
    /\ rounds[o].open = "NONE"
    /\ orders' = [orders EXCEPT ![o].status = "SEARCHING_DRIVER", ![o].driver = None,
                                ![o].ready = ReadyAfterRemoval(o), ![o].fee = LockedFee(o)]
    /\ assignments' = [assignments EXCEPT ![o] = NoAssignment]
    /\ rounds' = [rounds EXCEPT ![o].open = "INITIAL"]
    /\ Enqueue({assignments[o].driver}, TRUE)
    /\ UNCHANGED <<replacements, handoffs, returns>>

\* The capacity is counted after the removal, so the same driver may be chosen.
RemoveAndAssign(o, d) ==
    LET held == Held(d) \ {<<o, "CUSTODY">>} IN
    /\ MayRemoveDriver(o)
    /\ Cardinality(held) < 2
    /\ assignments' = [assignments EXCEPT ![o] =
                         AssignmentOf(d, "ASSIGNED", Cardinality(held) + 1, LockedFee(o))]
    /\ orders' = [orders EXCEPT
                    ![o].status = IF ReadyAfterRemoval(o) THEN "READY_FOR_PICKUP"
                                                          ELSE "DRIVER_ASSIGNED",
                    ![o].driver = d,
                    ![o].ready = ReadyAfterRemoval(o), ![o].fee = LockedFee(o)]
    /\ Enqueue({assignments[o].driver, d}, FALSE)
    /\ UNCHANGED <<replacements, rounds, handoffs, returns>>

----------------------------------------------------------------------------
(* Replacing the driver after pickup. *)

StartHandoff(o, d) ==
    /\ Custody(o) = "WITH_DRIVER"
    /\ assignments[o].status \in AfterPickup
    /\ ~handoffs[o].pending /\ ~HasReplacement(o)
    /\ d # assignments[o].driver
    /\ HasRoom(d)
    /\ orders' = [orders EXCEPT ![o].fee = LockedFee(o)]
    /\ replacements' = [replacements EXCEPT ![o] =
                          AssignmentOf(d, "HANDOFF_PENDING", Load(d) + 1, LockedFee(o))]
    /\ handoffs' = [handoffs EXCEPT ![o] =
                      [pending |-> TRUE, from |-> assignments[o].driver, to |-> d]]
    /\ Enqueue({d}, FALSE)
    /\ UNCHANGED <<assignments, rounds, returns>>

ReofferAfterPickup(o) ==
    /\ Custody(o) = "WITH_DRIVER"
    /\ HasAssignment(o)
    /\ ~handoffs[o].pending
    /\ rounds[o].open = "NONE"
    /\ orders' = [orders EXCEPT ![o].fee = LockedFee(o)]
    /\ rounds' = [rounds EXCEPT ![o].open = "DRIVER_REPLACEMENT"]
    /\ Enqueue({}, TRUE)
    /\ UNCHANGED <<assignments, replacements, handoffs, returns>>

CancelHandoff(o) ==
    /\ handoffs[o].pending
    /\ CloseHandoff(o)
    /\ Enqueue({handoffs[o].to}, FALSE)
    /\ UNCHANGED <<orders, assignments, rounds, returns>>

\* The replacement must arrive again.
HandedOver(o) ==
    [orders[o] EXCEPT !.driver = handoffs[o].to, !.holder = handoffs[o].to,
                      !.custody = "WITH_DRIVER",
                      !.status = IF @ = "ARRIVED_AT_CUSTOMER" THEN "PICKED_UP" ELSE @]

\* The replacement's own row takes over as picked up.
CompleteHandoff(o) ==
    /\ handoffs[o].pending
    /\ assignments' = [assignments EXCEPT ![o] = [replacements[o] EXCEPT !.status = "PICKED_UP"]]
    /\ CloseHandoff(o)
    /\ orders' = [orders EXCEPT ![o] = HandedOver(o)]
    /\ Enqueue({handoffs[o].from, handoffs[o].to}, FALSE)
    /\ UNCHANGED <<rounds, returns>>

----------------------------------------------------------------------------
(* Bringing the goods back. *)

\* Mutant of TrackedOnReturn: the replacement is forgotten.
TrackedHolder(o) == {assignments[o].driver}

TrackedOnReturn(o) == {assignments[o].driver, handoffs[o].to} \ {None}

StartReturnToStore(o) ==
    /\ Custody(o) = "WITH_DRIVER"
    /\ Status(o) \in AfterPickup
    /\ ~HasActiveReturn(o)
    /\ assignments[o].status \in AfterPickup
    /\ assignments[o].driver = orders[o].holder
    /\ CloseHandoff(o)
    /\ assignments' = [assignments EXCEPT ![o].status = "RETURN_PENDING"]
    /\ returns' = [returns EXCEPT ![o].status = "WAITING_FOR_DRIVER_RETURN",
                                  ![o].driver = assignments[o].driver]
    /\ Enqueue(TrackedOnReturn(o), FALSE)
    /\ UNCHANGED <<orders, rounds>>

AwaitsReturn(o) ==
    /\ Custody(o) = "WITH_DRIVER"
    /\ Status(o) \in AfterPickup \cup {"CANCELLED"}

ConfirmDriverReturn(o) ==
    /\ AwaitsReturn(o)
    /\ returns[o].status = "WAITING_FOR_DRIVER_RETURN"
    /\ returns' = [returns EXCEPT ![o].status = "WAITING_FOR_STORE_CONFIRMATION"]
    /\ Enqueue({}, FALSE)
    /\ UNCHANGED <<orders, assignments, replacements, rounds, handoffs>>

\* The store waits for the driver's confirmation; the desk need not.
ConfirmStoreReturn(o, scope) ==
    /\ AwaitsReturn(o)
    /\ HasActiveReturn(o)
    /\ scope = "MERCHANT" => returns[o].status = "WAITING_FOR_STORE_CONFIRMATION"
    /\ orders' = [orders EXCEPT ![o].custody = "WITH_STORE", ![o].holder = None,
                    ![o].driver = None,
                    ![o].status = IF @ = "CANCELLED" THEN @ ELSE "READY_FOR_PICKUP",
                    ![o].ready = @ \/ Status(o) # "CANCELLED"]
    /\ assignments' = [assignments EXCEPT ![o] = NoAssignment]
    /\ returns' = [returns EXCEPT ![o] = [status |-> "NONE", driver |-> None, completed |-> TRUE]]
    /\ Enqueue({returns[o].driver}, FALSE)
    /\ UNCHANGED <<replacements, rounds, handoffs>>

----------------------------------------------------------------------------
(* Reopening an order whose goods are in the store. *)

MayReopen(o) ==
    /\ Custody(o) = "WITH_STORE"
    /\ \/ Status(o) = "CANCELLED"
       \/ Status(o) = "READY_FOR_PICKUP" /\ returns[o].completed
    /\ ~HasActiveReturn(o)

ReopenToPrepare(o) ==
    /\ MayReopen(o)
    /\ orders' = [orders EXCEPT ![o].status = "PENDING_STORE_APPROVAL"]
    /\ Enqueue({}, FALSE)
    /\ UNCHANGED <<assignments, replacements, rounds, handoffs, returns>>

\* A fee is locked as soon as an order has had an assignment; without one there
\* is nothing to re-offer at.
ReopenAndReoffer(o) ==
    /\ MayReopen(o)
    /\ orders[o].fee # None
    /\ rounds[o].open = "NONE"
    /\ orders' = [orders EXCEPT ![o].status = "SEARCHING_DRIVER"]
    /\ rounds' = [rounds EXCEPT ![o].open = "INITIAL"]
    /\ Enqueue({}, TRUE)
    /\ UNCHANGED <<assignments, replacements, handoffs, returns>>

\* An order that still has a driver is refused by the unique index alone.
ReopenAndAssign(o, d) ==
    /\ MayReopen(o)
    /\ orders[o].fee # None
    /\ HasRoom(d)
    /\ ~HasAssignment(o)
    /\ assignments' = [assignments EXCEPT ![o] =
                         AssignmentOf(d, "ASSIGNED", Load(d) + 1, orders[o].fee)]
    /\ orders' = [orders EXCEPT ![o].driver = d,
                    ![o].status = IF orders[o].ready THEN "READY_FOR_PICKUP"
                                                     ELSE "DRIVER_ASSIGNED"]
    /\ Enqueue({d}, FALSE)
    /\ UNCHANGED <<replacements, rounds, handoffs, returns>>

OpsCommand(o) ==
    \/ CancelByCustomer(o)
    \/ CancelByDashboard(o)
    \/ CancelAfterPickup(o)
    \/ RemoveAndReoffer(o)
    \/ \E d \in Drivers : RemoveAndAssign(o, d)
    \/ \E d \in Drivers : StartHandoff(o, d)
    \/ ReofferAfterPickup(o)
    \/ CancelHandoff(o)
    \/ CompleteHandoff(o)
    \/ StartReturnToStore(o)
    \/ ConfirmDriverReturn(o)
    \/ \E scope \in {"MERCHANT", "DASHBOARD"} : ConfirmStoreReturn(o, scope)
    \/ ReopenToPrepare(o)
    \/ ReopenAndReoffer(o)
    \/ \E d \in Drivers : ReopenAndAssign(o, d)

OpsNext == \E o \in Orders : OpsCommand(o)

=============================================================================
