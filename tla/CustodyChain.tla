---------------------------- MODULE CustodyChain ----------------------------
(***************************************************************************)
(* What the order services promise about the goods of an order, told       *)
(* without orders, assignments or workflows: where the goods are, who has  *)
(* been announced to take them over, and whether they were recalled.       *)
(*                                                                         *)
(* Goods leave the store with a driver, pass to an announced driver and to *)
(* nobody else, reach the customer only when nobody is announced and they  *)
(* were not recalled, and come back to the store only after a recall.      *)
(***************************************************************************)
CONSTANTS Orders, Drivers,
          Nobody, Store, Customer  \* none of them a driver, all of them different

VARIABLES place,     \* place[o]: the store, the driver or the customer holding the goods
          announced, \* announced[o]: the driver who is to take them over, or Nobody
          recalled   \* recalled[o]: they must go back to the store

custodyVars == <<place, announced, recalled>>

CustodyInit ==
    /\ place = [o \in Orders |-> Store]
    /\ announced = [o \in Orders |-> Nobody]
    /\ recalled = [o \in Orders |-> FALSE]

WithDriver(o) == place[o] \in Drivers

PickUp(o, d) ==
    /\ place[o] = Store
    /\ place' = [place EXCEPT ![o] = d]
    /\ UNCHANGED <<announced, recalled>>

Announce(o, d) ==
    /\ WithDriver(o) /\ ~recalled[o]
    /\ announced[o] = Nobody
    /\ d # place[o]
    /\ announced' = [announced EXCEPT ![o] = d]
    /\ UNCHANGED <<place, recalled>>

Withdraw(o) ==
    /\ announced[o] # Nobody
    /\ announced' = [announced EXCEPT ![o] = Nobody]
    /\ UNCHANGED <<place, recalled>>

HandOver(o) ==
    /\ WithDriver(o) /\ ~recalled[o]
    /\ announced[o] # Nobody
    /\ place' = [place EXCEPT ![o] = announced[o]]
    /\ announced' = [announced EXCEPT ![o] = Nobody]
    /\ UNCHANGED recalled

Recall(o) ==
    /\ WithDriver(o) /\ ~recalled[o]
    /\ recalled' = [recalled EXCEPT ![o] = TRUE]
    /\ announced' = [announced EXCEPT ![o] = Nobody]
    /\ UNCHANGED place

BringBack(o) ==
    /\ WithDriver(o) /\ recalled[o]
    /\ place' = [place EXCEPT ![o] = Store]
    /\ recalled' = [recalled EXCEPT ![o] = FALSE]
    /\ UNCHANGED announced

Deliver(o) ==
    /\ WithDriver(o) /\ ~recalled[o]
    /\ announced[o] = Nobody
    /\ place' = [place EXCEPT ![o] = Customer]
    /\ UNCHANGED <<announced, recalled>>

CustodyNext ==
    \E o \in Orders :
        \/ \E d \in Drivers : PickUp(o, d) \/ Announce(o, d)
        \/ Withdraw(o)
        \/ HandOver(o)
        \/ Recall(o)
        \/ BringBack(o)
        \/ Deliver(o)

CustodySpec == CustodyInit /\ [][CustodyNext]_custodyVars

=============================================================================
