--------------------------- MODULE OfferCommands ---------------------------
(***************************************************************************)
(* How an order gets its driver: the store approves it, which opens an     *)
(* offer round; the desk opens and stops rounds; drivers race to claim     *)
(* them; the desk assigns a driver itself.  Replacement rounds, opened     *)
(* after pickup, are claimed into a pending handoff.                       *)
(***************************************************************************)
EXTENDS OrderTables

\* OrderService.approve, of an order that has items, is paid for and adds up.
Approve(o) ==
    /\ MayApprove(Status(o))
    /\ rounds[o].open = "NONE" /\ ~rounds[o].claimed
    /\ orders' = [orders EXCEPT ![o].status = "SEARCHING_DRIVER"]
    /\ rounds' = [rounds EXCEPT ![o].open = "INITIAL"]
    /\ Enqueue({}, TRUE)
    /\ UNCHANGED <<assignments, replacements, handoffs, returns>>

\* OfferService.openRound.
OpenRound(o) ==
    /\ Status(o) \in {"APPROVED_BY_STORE", "SEARCHING_DRIVER"}
    /\ rounds[o].open = "NONE"
    /\ ~HasAssignment(o) /\ ~HasReplacement(o)
    /\ orders' = [orders EXCEPT ![o].status = "SEARCHING_DRIVER"]
    /\ rounds' = [rounds EXCEPT ![o].open = "INITIAL"]
    /\ Enqueue({}, TRUE)
    /\ UNCHANGED <<assignments, replacements, handoffs, returns>>

\* Mutant of StopRound: without its rows in the outbox.
StopRoundUnrecorded(o) ==
    /\ rounds[o].open # "NONE"
    /\ CloseRound(o)
    /\ Enqueue({}, FALSE)
    /\ UNCHANGED <<orders, assignments, replacements, handoffs, returns>>

\* OfferService.stopRound: whatever the order is doing by now.  reopenRound is
\* this command and then OpenRound, in two transactions.
StopRound(o) ==
    /\ rounds[o].open # "NONE"
    /\ CloseRound(o)
    /\ Enqueue({}, TRUE)
    /\ UNCHANGED <<orders, assignments, replacements, handoffs, returns>>

\* The order starts, or restarts, its way with driver d: READY_FOR_PICKUP when
\* the store marked it ready on an earlier attempt, else DRIVER_ASSIGNED.
StatusWithDriver(o) ==
    IF orders[o].ready THEN "READY_FOR_PICKUP" ELSE "DRIVER_ASSIGNED"

AssignTo(o, d, sequence, fee) ==
    /\ assignments' = [assignments EXCEPT ![o] = AssignmentOf(d, "ASSIGNED", sequence, fee)]
    /\ orders' = [orders EXCEPT ![o].status = StatusWithDriver(o),
                                ![o].driver = d, ![o].fee = fee]

\* OfferService.claim of an INITIAL round: the driver must hold nothing.
ClaimInitial(o, d) ==
    /\ Load(d) = 0
    /\ rounds[o].open = "INITIAL"
    /\ Status(o) = "SEARCHING_DRIVER"
    /\ ~HasAssignment(o) /\ ~HasReplacement(o)
    /\ orders[o].driver = None
    /\ \E fee \in FeeChoices(o) : AssignTo(o, d, 1, fee)
    /\ rounds' = [rounds EXCEPT ![o] = [open |-> "NONE", claimed |-> TRUE]]
    /\ Enqueue({d}, TRUE)
    /\ UNCHANGED <<replacements, handoffs, returns>>

\* OfferService.claim of a DRIVER_REPLACEMENT round: the goods are with another
\* driver, who keeps them until the handoff completes.
ClaimReplacement(o, d) ==
    /\ Load(d) = 0
    /\ rounds[o].open = "DRIVER_REPLACEMENT"
    /\ Custody(o) = "WITH_DRIVER"
    /\ assignments[o].status \in AfterPickup
    /\ assignments[o].driver # d
    /\ ~HasReplacement(o) /\ ~handoffs[o].pending
    /\ \E fee \in FeeChoices(o) :
          /\ replacements' = [replacements EXCEPT ![o] =
                                AssignmentOf(d, "HANDOFF_PENDING", 1, fee)]
          /\ orders' = [orders EXCEPT ![o].fee = fee]
    /\ handoffs' = [handoffs EXCEPT ![o] =
                      [pending |-> TRUE, from |-> assignments[o].driver, to |-> d]]
    /\ rounds' = [rounds EXCEPT ![o] = [open |-> "NONE", claimed |-> TRUE]]
    /\ Enqueue({d}, TRUE)
    /\ UNCHANGED <<assignments, returns>>

\* OfferService.assignDriver: the desk may give a driver a second order; an OPEN
\* round is closed as MANUALLY_ASSIGNED.
AssignDriver(o, d) ==
    /\ HasRoom(d)
    /\ ~HasAssignment(o) /\ ~HasReplacement(o)
    /\ Status(o) \in {"APPROVED_BY_STORE", "SEARCHING_DRIVER"}
    /\ \E fee \in FeeChoices(o) : AssignTo(o, d, Load(d) + 1, fee)
    /\ CloseRound(o)
    /\ Enqueue({d}, TRUE)
    /\ UNCHANGED <<replacements, handoffs, returns>>

OfferCommand(o) ==
    \/ Approve(o)
    \/ OpenRound(o)
    \/ StopRound(o)
    \/ \E d \in Drivers : ClaimInitial(o, d)
    \/ \E d \in Drivers : ClaimReplacement(o, d)
    \/ \E d \in Drivers : AssignDriver(o, d)

OfferNext == \E o \in Orders : OfferCommand(o)

=============================================================================
