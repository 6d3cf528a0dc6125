---------------------------- MODULE OrderTables ----------------------------
(***************************************************************************)
(* The PostgreSQL rows the order services share, for the orders and the    *)
(* drivers of one city.                                                    *)
(*                                                                         *)
(* Every command takes the order's row FOR UPDATE first (a claim and a     *)
(* manual assignment also hold the driver's row), and holds it until it    *)
(* commits, so a command is one action.  Rows that are closed are dropped  *)
(* when nothing reads them again: the partial unique indexes of the schema *)
(* allow one OPEN round, one PENDING handoff, one active return, one       *)
(* custody-bearing assignment and one HANDOFF_PENDING assignment for an    *)
(* order, so a function on Orders holds what is left.  What the commands   *)
(* do read of the past is kept: a round was CLAIMED, a return COMPLETED.   *)
(***************************************************************************)
EXTENDS Naturals, FiniteSets, OrderStateMachine

CONSTANTS Orders,   \* the orders of the city
          Drivers,  \* the drivers of the city
          Fees,     \* the driver fees the pricing stages can produce
          None      \* NULL: no driver, no fee

ASSUME TablesAssumption ==
    /\ IsFiniteSet(Orders)
    /\ None \notin Drivers
    /\ None \notin Fees

VARIABLES
    orders,       \* orders[o]: the order's row
    assignments,  \* assignments[o]: its custody-bearing assignment, if active
    replacements, \* replacements[o]: its HANDOFF_PENDING assignment, if any
    rounds,       \* rounds[o]: its OPEN offer round, and whether one was CLAIMED
    handoffs,     \* handoffs[o]: its PENDING handoff, if any
    returns,      \* returns[o]: its active return workflow, and whether one ended
    outbox        \* the reconciliation work the last commit enqueued

vars == <<orders, assignments, replacements, rounds, handoffs, returns, outbox>>

----------------------------------------------------------------------------
(* Rows. *)

CustodyStatuses == {"WITH_STORE", "WITH_DRIVER", "WITH_CUSTOMER"}

OrderRow == [ status  : OrderStatuses,
              custody : CustodyStatuses,
              holder  : Drivers \cup {None},  \* custody_driver_id
              driver  : Drivers \cup {None},  \* driver_account_id
              ready   : BOOLEAN,              \* store_ready_marked_at is set
              fee     : Fees \cup {None} ]    \* locked_driver_fee

\* The statuses of an assignment that is neither completed nor cancelled.
BeforePickup == {"ASSIGNED", "ARRIVED_AT_STORE"}
AfterPickup  == {"PICKED_UP", "ARRIVED_AT_CUSTOMER"}

AssignmentRow == [ driver   : Drivers \cup {None},
                   status   : BeforePickup \cup AfterPickup
                              \cup {"NONE", "RETURN_PENDING", "HANDOFF_PENDING"},
                   sequence : 0 .. 2,
                   fee      : Fees \cup {None} ]

NoAssignment == [driver |-> None, status |-> "NONE", sequence |-> 0, fee |-> None]

RoundRow   == [open : {"NONE", "INITIAL", "DRIVER_REPLACEMENT"}, claimed : BOOLEAN]
HandoffRow == [pending : BOOLEAN, from : Drivers \cup {None}, to : Drivers \cup {None}]
NoHandoff  == [pending |-> FALSE, from |-> None, to |-> None]
ReturnRow  == [ status : {"NONE", "WAITING_FOR_DRIVER_RETURN",
                          "WAITING_FOR_STORE_CONFIRMATION"},
                driver : Drivers \cup {None},
                completed : BOOLEAN ]

TypeOK ==
    /\ orders       \in [Orders -> OrderRow]
    /\ assignments  \in [Orders -> AssignmentRow]
    /\ replacements \in [Orders -> AssignmentRow]
    /\ rounds       \in [Orders -> RoundRow]
    /\ handoffs     \in [Orders -> HandoffRow]
    /\ returns      \in [Orders -> ReturnRow]
    /\ outbox       \in [drivers : SUBSET Drivers, city : BOOLEAN]

Init ==
    /\ orders = [o \in Orders |->
                   [ status |-> "PENDING_STORE_APPROVAL", custody |-> "WITH_STORE",
                     holder |-> None, driver |-> None, ready |-> FALSE, fee |-> None ]]
    /\ assignments  = [o \in Orders |-> NoAssignment]
    /\ replacements = [o \in Orders |-> NoAssignment]
    /\ rounds       = [o \in Orders |-> [open |-> "NONE", claimed |-> FALSE]]
    /\ handoffs     = [o \in Orders |-> NoHandoff]
    /\ returns      = [o \in Orders |->
                         [status |-> "NONE", driver |-> None, completed |-> FALSE]]
    /\ outbox       = [drivers |-> {}, city |-> FALSE]

----------------------------------------------------------------------------
(* Queries. *)

Status(o)  == orders[o].status
Custody(o) == orders[o].custody

\* The active assignments of d, over all orders: what the capacity counts read.
Held(d) == {<<o, "CUSTODY">> : o \in {p \in Orders : assignments[p].driver = d}}
           \cup {<<o, "HANDOFF">> : o \in {p \in Orders : replacements[p].driver = d}}
Load(d) == Cardinality(Held(d))

HasAssignment(o) == assignments[o].status # "NONE"
HasReplacement(o) == replacements[o].status # "NONE"
HasActiveReturn(o) == returns[o].status # "NONE"

\* A driver holds two orders at most.
HasRoom(d) == Load(d) < 2

\* activeAssignment(): a RETURN_PENDING row does not count.
HasWorkingAssignment(o) == assignments[o].status \in BeforePickup \cup AfterPickup

\* Mutant of FeeChoices: every assignment is priced afresh.
StageFees(o) == Fees

\* The fee a claim or a manual assignment pays: the locked one, else the stage's.
FeeChoices(o) == IF orders[o].fee # None THEN {orders[o].fee} ELSE Fees

----------------------------------------------------------------------------
(* Row updates shared by the commands. *)

AssignmentOf(d, status, sequence, fee) ==
    [driver |-> d, status |-> status, sequence |-> sequence, fee |-> fee]

\* The rows a commit leaves for the reconciliation worker: a bumped revision and
\* a job for each tracked driver, and the city's coalesced open-offers job.
Enqueue(ds, city) == outbox' = [drivers |-> ds, city |-> city]

\* Mutant of CloseRound: the round is left OPEN.
LeaveRound(o) == UNCHANGED rounds

CloseRound(o) == rounds' = [rounds EXCEPT ![o].open = "NONE"]

\* Mutant of CloseHandoff: the replacement keeps its reservation.
CloseHandoffOnly(o) ==
    /\ handoffs' = [handoffs EXCEPT ![o] = NoHandoff]
    /\ UNCHANGED replacements

CloseHandoff(o) ==
    /\ handoffs'     = [handoffs EXCEPT ![o] = NoHandoff]
    /\ replacements' = [replacements EXCEPT ![o] = NoAssignment]

=============================================================================
