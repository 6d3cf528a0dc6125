---------------------------- MODULE OrderSystem ----------------------------
(***************************************************************************)
(* The orders of a city under every command of the three services, in any  *)
(* order, and what must be true of the rows the commands leave behind.     *)
(*                                                                         *)
(* The services assert the status graph before they write a status; the    *)
(* commands here do not repeat that guard, and StatusFollowsGraph shows    *)
(* that it never refuses a command the other guards let through.           *)
(***************************************************************************)
EXTENDS OfferCommands, DeliveryCommands, OpsCommands

Next == OfferNext \/ DeliveryNext \/ OpsNext

Spec == Init /\ [][Next]_vars

----------------------------------------------------------------------------
(* Invariants.  Each is said of one order first. *)

\* The goods are with a driver exactly while the order's assignment is past
\* pickup, and then the order's custody, its driver and the assignment name one
\* driver.  Only a driver's own confirmation of arrival compares them.
CustodyAgreesFor(o) ==
    /\ Custody(o) = "WITH_DRIVER" <=>
         assignments[o].status \in AfterPickup \cup {"RETURN_PENDING"}
    /\ orders[o].holder = IF Custody(o) = "WITH_DRIVER"
                          THEN assignments[o].driver ELSE None
    /\ HasAssignment(o) => orders[o].driver = assignments[o].driver

\* A pending handoff and the reserved assignment of its replacement driver exist
\* together, name the same two drivers, and only while goods are on the way.
HandoffAgreesFor(o) ==
    /\ handoffs[o].pending <=> HasReplacement(o)
    /\ handoffs[o].pending =>
         /\ assignments[o].status \in AfterPickup
         /\ handoffs[o].from = assignments[o].driver
         /\ handoffs[o].to = replacements[o].driver
         /\ handoffs[o].from # handoffs[o].to

\* An active return and a RETURN_PENDING assignment exist together and name the
\* same driver: the two commands that start one and the one that ends it.
ReturnAgreesFor(o) ==
    /\ HasActiveReturn(o) <=> assignments[o].status = "RETURN_PENDING"
    /\ HasActiveReturn(o) =>
         /\ returns[o].driver = assignments[o].driver
         /\ Status(o) \in AfterPickup \cup {"CANCELLED"}

\* The order's status tells the same story as its custody and its assignment.
\* ARRIVED_AT_CUSTOMER is the arrival of the driver who has the goods now: after
\* a handoff the replacement must arrive again.  Only the reopening of an order
\* that came back to the store offers it while it still has a driver.
PhaseAgreesFor(o) ==
    /\ Status(o) = "DELIVERED" <=> Custody(o) = "WITH_CUSTOMER"
    /\ Status(o) \in AfterPickup => Custody(o) = "WITH_DRIVER"
    /\ HasWorkingAssignment(o) =>
         ( Status(o) = "ARRIVED_AT_CUSTOMER" <=>
           assignments[o].status = "ARRIVED_AT_CUSTOMER" )
    /\ Status(o) = "DRIVER_ASSIGNED" => assignments[o].status = "ASSIGNED"
    /\ Status(o) = "ARRIVED_AT_STORE" => assignments[o].status = "ARRIVED_AT_STORE"
    /\ ( /\ Status(o) \in {"PENDING_STORE_APPROVAL", "SEARCHING_DRIVER"}
         /\ HasAssignment(o) )
       => returns[o].completed /\ assignments[o].status = "ASSIGNED"

\* What a driver is paid for an order is what the order locked.
FeeAgreesFor(o) ==
    /\ HasAssignment(o) => assignments[o].fee = orders[o].fee /\ orders[o].fee # None
    /\ HasReplacement(o) => replacements[o].fee = orders[o].fee

\* An offer for the first leg is open only while the order looks for a driver.
RoundAgreesFor(o) == rounds[o].open = "INITIAL" => Status(o) = "SEARCHING_DRIVER"

\* The same of all orders.
CustodyAgrees      == \A o \in Orders : CustodyAgreesFor(o)
HandoffAgrees      == \A o \in Orders : HandoffAgreesFor(o)
ReturnAgrees       == \A o \in Orders : ReturnAgreesFor(o)
PhaseAgrees        == \A o \in Orders : PhaseAgreesFor(o)
FeeAgrees          == \A o \in Orders : FeeAgreesFor(o)
InitialRoundAgrees == \A o \in Orders : RoundAgreesFor(o)

\* Order, assignment, handoff and return are four tables that every command of the
\* three services writes by itself; together they always tell where the goods are, whose
\* they will be, and who brings them back.
GoodsAgree == CustodyAgrees /\ HandoffAgrees /\ ReturnAgrees

\* The status, which customers and stores see, agrees with them and with the open round.
StatusAgrees == PhaseAgrees /\ InitialRoundAgrees

\* Nobody carries more than two orders, whatever mix of claims, manual
\* assignments, handoffs and reopenings put them there.
Capacity == \A d \in Drivers : Load(d) <= 2

----------------------------------------------------------------------------
(* What a command may do. *)

\* Every status a command writes follows the one it found, in the graph of the
\* natural flows or in the one of the operations desk, which the commands of
\* driver and store never need; a delivered order stays delivered.
StatusFollowsGraph ==
    [][\A o \in Orders : Status(o)' # Status(o) =>
         \/ MayTransition(Status(o), Status(o)')
         \/ ~DeliveryNext /\ MayOpsTransition(Status(o), Status(o)')]_vars

\* A locked fee never changes: not by a re-offer, a handoff, a return or a reopening.
FeeStaysLocked ==
    [][\A o \in Orders : orders[o].fee # None => orders[o].fee' = orders[o].fee]_vars

\* Every command that opens or closes an offer round leaves the job that will
\* bring the city's offer index up to date, even if the process dies.
RoundChangesAreEnqueued ==
    [][(\E o \in Orders : rounds[o].open' # rounds[o].open) => outbox'.city]_vars

\* Every command that changes what a driver holds leaves the job that will bring
\* the driver's runtime state up to date (docs/m4b-driver-offers.md:97-99).
LoadChangesAreEnqueued ==
    [][\A d \in Drivers : Load(d)' # Load(d) => d \in outbox'.drivers]_vars

\* The same, but for the replacement driver of a handoff that a cancellation by
\* the desk withdraws: the only driver the outbox forgets.
OtherLoadChangesAreEnqueued ==
    [][\A d \in Drivers : Load(d)' # Load(d) =>
         \/ d \in outbox'.drivers
         \/ \E o \in Orders : /\ handoffs[o].to = d /\ ~handoffs'[o].pending
                              /\ Status(o)' = "CANCELLED" /\ Status(o) # "CANCELLED"]_vars

----------------------------------------------------------------------------
(* The promise about the goods. *)

Place(o) == CASE Custody(o) = "WITH_STORE"    -> "STORE"
              [] Custody(o) = "WITH_DRIVER"   -> orders[o].holder
              [] Custody(o) = "WITH_CUSTOMER" -> "CUSTOMER"

ASSUME ChainAssumption == {"STORE", "CUSTOMER"} \cap (Drivers \cup {None}) = {}

Chain == INSTANCE CustodyChain WITH
    Nobody    <- None,
    Store     <- "STORE",
    Customer  <- "CUSTOMER",
    place     <- [o \in Orders |-> Place(o)],
    announced <- [o \in Orders |-> handoffs[o].to],
    recalled  <- [o \in Orders |-> HasActiveReturn(o)]

\* The commands move the goods only the way CustodyChain allows.
GoodsFollowTheChain == Chain!CustodySpec

=============================================================================
