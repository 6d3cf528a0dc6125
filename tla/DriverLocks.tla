---------------------------- MODULE DriverLocks -----------------------------
(***************************************************************************)
(* The commands that give orders to drivers and take them back, statement  *)
(* by statement.  A command is one transaction.  It locks rows and takes   *)
(* advisory locks, counts the orders of the driver it gives the order to,  *)
(* decides on what it read and writes at its commit.                       *)
(*                                                                         *)
(* A claim takes the driver's lock for claims, the driver's row, the order *)
(* and, when it replaces a driver, that one's lock for assignments.  A     *)
(* manual assignment takes the driver's lock for assignments, the driver's *)
(* row, the order.  Every other command takes the order, then both locks   *)
(* of each driver concerned, by the driver's id.                           *)
(*                                                                         *)
(* OrderSystem has the same commands, each in one step, with all they      *)
(* write; that they are such steps is what this module shows.  Left out,   *)
(* because who waits for it holds nothing, or who holds it waits for       *)
(* nothing more of another command: the row of the idempotency key, taken  *)
(* first; the assignments, rounds, handoffs and returns of the order,      *)
(* which are locked under the order's lock; the revisions of drivers and   *)
(* of the city, taken last.                                                *)
(***************************************************************************)
EXTENDS Naturals, FiniteSets

CONSTANTS Drivers,    \* ids: a desk command takes them in their order
          MaxDriver,  \* the greatest id: ids are UUIDs
          Orders,
          Commands,   \* concurrent commands
          OrderJobs,  \* what commands are about
          Nobody      \* no driver

\* Commands that have a driver, that may have one, that have none.
Givings  == [kind : {"claim", "assign", "handoff"}, order : Orders, driver : Drivers]
Choices  == [kind : {"remove", "reopen"}, order : Orders, driver : Drivers \cup {Nobody}]
OrderOnly == {"open", "stop", "pickup", "deliver"}
WithDrivers == {"reoffer", "cancelHandoff", "completeHandoff", "cancel", "startReturn",
                "driverReturn", "storeReturn"}
Others   == [kind : OrderOnly \cup WithDrivers, order : Orders, driver : {Nobody}]
AllOrderJobs == Givings \cup Choices \cup Others

ASSUME DriverLocksAssumption ==
    /\ MaxDriver \in Nat /\ Drivers \subseteq 0..MaxDriver
    /\ Nobody \notin Drivers
    /\ OrderJobs \subseteq AllOrderJobs
    /\ IsFiniteSet(Orders)

VARIABLES
    deliveries,  \* deliveries[o]: where order o is, its open round, its drivers
    commands     \* commands[c]: what command c does, the locks it holds and wants

commandVars == <<deliveries, commands>>

\* WAITING: approved or searching. RETURNED: returned to the store; CANCELLED: in the
\* store for good or until it is reopened; CANCELLING: on its way back there.
Phases == {"WAITING", "ASSIGNED", "PICKED_UP", "RETURNING", "CANCELLING", "RETURNED",
           "CANCELLED", "DELIVERED"}

\* carrier has the active assignment; next has the one of a pending handoff.
Delivery == [phase : Phases, round : {"NONE", "INITIAL", "REPLACEMENT"},
             carrier : Drivers \cup {Nobody}, next : Drivers \cup {Nobody}]
Approved == [phase |-> "WAITING", round |-> "NONE", carrier |-> Nobody, next |-> Nobody]

DriverLock(kind, d) == <<kind, d>>
OrderLock(o) == <<"order", o>>
DriverLocks == {"claim", "assign", "row"} \X Drivers
CommandLocks == DriverLocks \cup {OrderLock(o) : o \in Orders}

Command == [job : OrderJobs \cup {Nobody}, step : {"idle", "driver", "order", "commit"},
            wanted : SUBSET CommandLocks, held : SUBSET CommandLocks]
Ended == [job |-> Nobody, step |-> "idle", wanted |-> {}, held |-> {}]

CommandsTypeOK == /\ deliveries \in [Orders -> Delivery]
                  /\ commands \in [Commands -> Command]

CommandsInit == /\ deliveries = [o \in Orders |-> Approved]
                /\ commands = [c \in Commands |-> Ended]

-----------------------------------------------------------------------------
(* What a command decides on. *)

WithStore == {"WAITING", "ASSIGNED", "RETURNED"}
Returning == {"RETURNING", "CANCELLING"}

MayClaim(j, e) ==
    \/ e.round = "INITIAL" /\ e.phase = "WAITING"
    \/ /\ e.round = "REPLACEMENT" /\ e.phase = "PICKED_UP"
       /\ e.next = Nobody /\ e.carrier # j.driver

MayHandOff(j, e) == e.phase = "PICKED_UP" /\ e.next = Nobody /\ e.carrier # j.driver
MayRemove(j, e) == e.phase = "ASSIGNED" /\ (j.driver = Nobody => e.round = "NONE")
MayReopen(j, e) == /\ e.phase \in {"RETURNED", "CANCELLED"}
                   /\ j.driver = Nobody => e.round = "NONE"

Acceptable(j) ==
    LET e == deliveries[j.order] IN
    CASE j.kind = "open" -> e.phase = "WAITING" /\ e.round = "NONE"
      [] j.kind = "stop" -> e.round # "NONE"
      [] j.kind = "claim" -> MayClaim(j, e)
      [] j.kind = "assign" -> e.phase = "WAITING"
      [] j.kind = "pickup" -> e.phase = "ASSIGNED"
      [] j.kind = "deliver" -> e.phase = "PICKED_UP" /\ e.next = Nobody
      [] j.kind = "handoff" -> MayHandOff(j, e)
      [] j.kind = "remove" -> MayRemove(j, e)
      [] j.kind = "reopen" -> MayReopen(j, e)
      [] j.kind = "reoffer" -> /\ e.phase \in {"PICKED_UP"} \cup Returning
                               /\ e.next = Nobody /\ e.round = "NONE"
      [] j.kind \in {"cancelHandoff", "completeHandoff"} -> e.next # Nobody
      [] j.kind = "cancel" -> e.phase \in WithStore \cup {"PICKED_UP"}
      [] j.kind = "startReturn" -> e.phase = "PICKED_UP"
      [] OTHER -> e.phase \in Returning

\* The active assignments of a driver, but for the one the command has just closed.
Assignments(d) == ({o \in Orders : deliveries[o].carrier = d} \X {"carrier"})
                    \cup ({o \in Orders : deliveries[o].next = d} \X {"next"})
AssignmentsBut(j) ==
    Assignments(j.driver) \ (IF j.kind = "remove" THEN {<<j.order, "carrier">>} ELSE {})

\* Who claims has no order; anybody has at most two.
HasRoomFor(j) ==
    j.driver # Nobody =>
        Cardinality(AssignmentsBut(j)) < (IF j.kind = "claim" THEN 1 ELSE 2)

-----------------------------------------------------------------------------
(* What a command writes. *)

Given(j, e, phase) == [e EXCEPT !.phase = phase, !.carrier = j.driver]

Outcome(j) ==
    LET e == deliveries[j.order] IN
    CASE j.kind = "open" -> [e EXCEPT !.round = "INITIAL"]
      [] j.kind = "stop" -> [e EXCEPT !.round = "NONE"]
      [] j.kind = "claim" ->
             IF e.round = "REPLACEMENT" THEN [e EXCEPT !.round = "NONE", !.next = j.driver]
             ELSE [Given(j, e, "ASSIGNED") EXCEPT !.round = "NONE"]
      [] j.kind = "assign" -> [Given(j, e, "ASSIGNED") EXCEPT !.round = "NONE"]
      [] j.kind = "pickup" -> [e EXCEPT !.phase = "PICKED_UP"]
      [] j.kind = "deliver" -> [e EXCEPT !.phase = "DELIVERED", !.carrier = Nobody]
      [] j.kind = "handoff" -> [e EXCEPT !.next = j.driver]
      [] j.kind \in {"remove", "reopen"} ->
             IF j.driver = Nobody
             THEN [Given(j, e, "WAITING") EXCEPT !.round = "INITIAL"]
             ELSE Given(j, e, "ASSIGNED")
      [] j.kind = "reoffer" -> [e EXCEPT !.round = "REPLACEMENT"]
      [] j.kind = "cancelHandoff" -> [e EXCEPT !.next = Nobody]
      [] j.kind = "completeHandoff" -> [e EXCEPT !.carrier = e.next, !.next = Nobody]
      [] j.kind = "cancel" ->
             IF e.phase = "PICKED_UP"
             THEN [e EXCEPT !.phase = "CANCELLING", !.round = "NONE", !.next = Nobody]
             ELSE [Approved EXCEPT !.phase = "CANCELLED"]
      [] j.kind = "startReturn" -> [e EXCEPT !.phase = "RETURNING", !.next = Nobody]
      [] j.kind = "storeReturn" ->
             [e EXCEPT !.phase = IF @ = "CANCELLING" THEN "CANCELLED" ELSE "RETURNED",
                       !.carrier = Nobody]
      [] OTHER -> e

-----------------------------------------------------------------------------
(* The locks. *)

DriverFirst(j) == j.kind \in {"claim", "assign"}

BothLocks(d) == {DriverLock("assign", d), DriverLock("row", d)}
\* (The mutant forgets the row in a manual assignment.)
LocksOfDriverNoRow(j) == IF j.kind = "claim"
                         THEN {DriverLock("claim", j.driver), DriverLock("row", j.driver)}
                         ELSE {DriverLock("assign", j.driver)}
LocksOfDriver(j) == IF j.kind = "claim"
                    THEN {DriverLock("claim", j.driver), DriverLock("row", j.driver)}
                    ELSE BothLocks(j.driver)

\* Those who have the order or are to have it, and whoever the command names. (Not in the
\* mutant.)
ConcernedNow(j) ==
    LET e == deliveries[j.order] IN {e.carrier, e.next} \ {Nobody}
Concerned(j) ==
    LET e == deliveries[j.order] IN {e.carrier, e.next, j.driver} \ {Nobody}
LocksOfConcerned(j) ==
    IF j.kind \in OrderOnly THEN {} ELSE UNION {BothLocks(d) : d \in Concerned(j)}

\* The driver a claim replaces.
LocksOfReplaced(j) ==
    LET e == deliveries[j.order] IN
    IF j.kind = "claim" /\ e.round = "REPLACEMENT" THEN {DriverLock("assign", e.carrier)} ELSE {}

\* Of the locks of drivers, by the driver; a driver's advisory lock before the row.
Turn(l) == 2 * l[2] + (IF l[1] = "row" THEN 1 ELSE 0)
FirstOf(locks) == {l \in locks : \A k \in locks \ {l} : Turn(l) < Turn(k)}

\* (In the mutant the driver who has the order comes before the one who is to have it.)
NextLocksUnsorted(c) ==
    LET wanted == commands[c].wanted
        others == {l \in wanted : l[2] # commands[c].job.driver} IN
    FirstOf(IF others = {} THEN wanted ELSE others)
NextLocks(c) == FirstOf(commands[c].wanted)

AwaitedBy(c, b) == b # c /\ NextLocks(c) \cap commands[b].held # {}
Waits(c) == \E b \in Commands : AwaitedBy(c, b)

Goes(c, command) == commands' = [commands EXCEPT ![c] = command]
GoesOn(c, command) == Goes(c, command) /\ UNCHANGED deliveries

\* A refusal and an abort undo the transaction and give up its locks.
GivesUp(c) == GoesOn(c, Ended)

-----------------------------------------------------------------------------
(* The statements of a command. *)

BeginCommand(c, j) ==
    /\ commands[c] = Ended
    /\ GoesOn(c, IF DriverFirst(j)
                 THEN [Ended EXCEPT !.job = j, !.step = "driver", !.wanted = LocksOfDriver(j)]
                 ELSE [Ended EXCEPT !.job = j, !.step = "order",
                                    !.wanted = {OrderLock(j.order)}])

TakeNextLock(c) ==
    /\ ~ Waits(c)
    /\ \E l \in NextLocks(c) :
          GoesOn(c, [commands[c] EXCEPT !.wanted = @ \ {l}, !.held = @ \cup {l}])

Has(c, step) == commands[c].step = step /\ commands[c].wanted = {}

\* The count of the driver's active assignments, under the locks of the driver.
CountAssignments(c) ==
    /\ Has(c, "driver")
    /\ LET j == commands[c].job IN
       IF ~ HasRoomFor(j) THEN GivesUp(c)
       ELSE IF DriverFirst(j)
       THEN GoesOn(c, [commands[c] EXCEPT !.step = "order", !.wanted = {OrderLock(j.order)}])
       ELSE GoesOn(c, [commands[c] EXCEPT !.step = "commit"])

\* The order is read under its lock.
JudgeOrder(c) ==
    /\ Has(c, "order")
    /\ LET j == commands[c].job IN
       IF ~ Acceptable(j) THEN GivesUp(c)
       ELSE IF DriverFirst(j)
       THEN GoesOn(c, [commands[c] EXCEPT !.step = "commit", !.wanted = LocksOfReplaced(j)])
       ELSE GoesOn(c, [commands[c] EXCEPT !.step = "driver", !.wanted = LocksOfConcerned(j)])

CommitCommand(c) ==
    /\ Has(c, "commit")
    /\ LET j == commands[c].job IN deliveries' = [deliveries EXCEPT ![j.order] = Outcome(j)]
    /\ Goes(c, Ended)

\* Commands that wait for one another: PostgreSQL aborts one of them.
Stuck(S) == S # {} /\ \A c \in S : \E b \in S : AwaitedBy(c, b)

AbortCommand(c) ==
    /\ \E S \in SUBSET Commands : c \in S /\ Stuck(S)
    /\ GivesUp(c)

CommandsNext ==
    \E c \in Commands :
        \/ \E j \in OrderJobs : BeginCommand(c, j)
        \/ TakeNextLock(c) \/ CountAssignments(c) \/ JudgeOrder(c)
        \/ CommitCommand(c) \/ AbortCommand(c)

CommandsSpec == CommandsInit /\ [][CommandsNext]_commandVars

-----------------------------------------------------------------------------
(* Properties. *)

\* Every commit is as if its command had run alone at that moment: the order and the
\* driver's load that it read, some statements and other commands' commits ago, would
\* let it through now. That is what OrderSystem takes for granted of each of them.
CommandsAreAtomic ==
    [][\E j \in OrderJobs :
          /\ Acceptable(j) /\ HasRoomFor(j)
          /\ deliveries' = [deliveries EXCEPT ![j.order] = Outcome(j)]]_deliveries

\* No driver has more than two active assignments, over all orders, whoever gives them at
\* the same time (assertEligibleDriver, claim, assignDriver).
AtMostTwo == \A d \in Drivers : Cardinality(Assignments(d)) <= 2

\* Claims among themselves, manual assignments among themselves and all other commands
\* among themselves never deadlock, and a deadlock has a command in it that holds an order
\* and waits for a driver: claim, assignDriver, lockDriverIds each keep to an order of
\* locks, and the three orders differ.
Family(c) == IF DriverFirst(commands[c].job) THEN commands[c].job.kind ELSE "desk"
OrderBeforeDriver(c) == commands[c].step # "order" /\ \E l \in commands[c].held : l[1] = "order"

DeadlocksCross ==
    \A S \in SUBSET Commands : Stuck(S) =>
        /\ \E a, b \in S : Family(a) # Family(b)
        /\ \E c \in S : OrderBeforeDriver(c)

=============================================================================
