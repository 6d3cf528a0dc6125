------------------------- MODULE OrderSystem_proofs -------------------------
(***************************************************************************)
(* The invariants of OrderSystem, proved for any orders, drivers and fees. *)
(*                                                                         *)
(* None of them is inductive by itself: a cancellation keeps ReturnAgrees  *)
(* only because HandoffAgrees and CustodyAgrees hold before it, and so on. *)
(* IInv is their conjunction with the types, with what a row that does not *)
(* exist looks like (WellFormed) and with what the status says of the      *)
(* assignment (PhaseIsExact).  A command writes the rows of one order, so  *)
(* it is enough that it leaves that order Sound.  What a command may do is *)
(* proved from it afterwards: capacity, fees, status, outbox, goods.       *)
(***************************************************************************)
EXTENDS OrderSystem, FiniteSetTheorems, TLAPS

\* A driver's assignments are finitely many, so they can be counted.
LEMMA LoadIsNat ==
    ASSUME NEW d PROVE IsFiniteSet(Held(d)) /\ Load(d) \in Nat
<1> DEFINE All == Orders \X {"CUSTODY", "HANDOFF"}
<1>1. IsFiniteSet({"CUSTODY", "HANDOFF"})
  BY FS_AddElement, FS_EmptySet, {"CUSTODY", "HANDOFF"} = ({} \cup {"CUSTODY"}) \cup {"HANDOFF"}
<1>2. IsFiniteSet(All)
  BY <1>1, FS_Product, TablesAssumption DEF TablesAssumption
<1>3. Held(d) \in SUBSET All
  BY DEF Held
<1>4. IsFiniteSet(Held(d))
  <2> HIDE DEF All
  <2>. QED  BY <1>2, <1>3, FS_Subset
<1>. QED  BY <1>4, FS_CardinalityType DEF Load

\* A driver below the limit gets sequence 1 or 2; so does one from whom an
\* assignment is taken first.
LEMMA LoadBound ==
    ASSUME NEW d, NEW x
    PROVE  /\ Load(d) < 2 => Load(d) + 1 \in 0 .. 2
           /\ Cardinality(Held(d) \ {x}) \in Nat
           /\ Cardinality(Held(d) \ {x}) < 2 => Cardinality(Held(d) \ {x}) + 1 \in 0 .. 2
<1>1. Load(d) \in Nat  BY LoadIsNat
<1>2. Cardinality(Held(d) \ {x}) \in Nat
  <2>1. IsFiniteSet(Held(d))  BY LoadIsNat
  <2>2. IsFiniteSet(Held(d) \ {x})  BY <2>1, FS_RemoveElement
  <2>. QED  BY <2>2, FS_CardinalityType
<1>. QED  BY <1>1, <1>2

----------------------------------------------------------------------------
(* The inductive invariant, order by order. *)

\* A row that does not exist is the empty row; one that does names its driver.
WellFormed(o) ==
    /\ IF HasAssignment(o) THEN assignments[o].driver \in Drivers
                           ELSE assignments[o] = NoAssignment
    /\ assignments[o].status # "HANDOFF_PENDING"
    /\ IF HasReplacement(o) THEN /\ replacements[o].driver \in Drivers
                                 /\ replacements[o].status = "HANDOFF_PENDING"
                            ELSE replacements[o] = NoAssignment
    /\ ~handoffs[o].pending => handoffs[o] = NoHandoff
    /\ ~HasActiveReturn(o) => returns[o].driver = None

\* What PhaseAgrees needs to be inductive: goods with a working driver mean an order
\* on the way, a driver at the store shows in the status, a cancelled order has no
\* driver but the one who brings the goods back; and the two statuses of the graph
\* that no command writes stay unwritten.
PhaseIsExact(o) ==
    /\ assignments[o].status \in AfterPickup => Status(o) \in AfterPickup
    /\ Status(o) = "READY_FOR_PICKUP" /\ HasAssignment(o) => assignments[o].status = "ASSIGNED"
    /\ Status(o) = "CANCELLED" => assignments[o].status \in {"NONE", "RETURN_PENDING"}
    /\ Status(o) \notin {"APPROVED_BY_STORE", "ACCEPTED_BY_DRIVER"}

Sound(o) ==
    /\ WellFormed(o)
    /\ PhaseIsExact(o)
    /\ CustodyAgreesFor(o)
    /\ HandoffAgreesFor(o)
    /\ ReturnAgreesFor(o)
    /\ PhaseAgreesFor(o)
    /\ FeeAgreesFor(o)
    /\ RoundAgreesFor(o)

IInv == TypeOK /\ \A o \in Orders : Sound(o)

\* The rows of one order have their types.
Typed(o) ==
    /\ orders[o] \in OrderRow
    /\ assignments[o] \in AssignmentRow /\ replacements[o] \in AssignmentRow
    /\ rounds[o] \in RoundRow /\ handoffs[o] \in HandoffRow /\ returns[o] \in ReturnRow

Outboxes == [drivers : SUBSET Drivers, city : BOOLEAN]

\* A step that concerns order o writes its rows alone.
Only(o) ==
    /\ orders' = [orders EXCEPT ![o] = orders'[o]]
    /\ assignments' = [assignments EXCEPT ![o] = assignments'[o]]
    /\ replacements' = [replacements EXCEPT ![o] = replacements'[o]]
    /\ rounds' = [rounds EXCEPT ![o] = rounds'[o]]
    /\ handoffs' = [handoffs EXCEPT ![o] = handoffs'[o]]
    /\ returns' = [returns EXCEPT ![o] = returns'[o]]

\* What every command must leave behind for the order it concerns.
Kept(o) == Typed(o)' /\ Sound(o)' /\ outbox' \in Outboxes

USE TablesAssumption DEF TablesAssumption

LEMMA InitInv == Init => IInv
BY DEF Init, IInv, Sound, WellFormed, PhaseIsExact, CustodyAgreesFor, HandoffAgreesFor,
       ReturnAgreesFor, PhaseAgreesFor, FeeAgreesFor, RoundAgreesFor, HasAssignment,
       HasReplacement, HasActiveReturn, HasWorkingAssignment, Custody, Status, AfterPickup,
       BeforePickup, NoAssignment, NoHandoff, TypeOK, OrderRow, OrderStatuses, CustodyStatuses,
       AssignmentRow, RoundRow, HandoffRow, ReturnRow

\* Soundness of an order depends on its own rows only.
LEMMA SoundByRows ==
    ASSUME NEW o, Sound(o),
           UNCHANGED << orders[o], assignments[o], replacements[o], rounds[o], handoffs[o],
                        returns[o] >>
    PROVE  Sound(o)'
BY DEF Sound, WellFormed, PhaseIsExact, CustodyAgreesFor, HandoffAgreesFor, ReturnAgreesFor,
       PhaseAgreesFor, FeeAgreesFor, RoundAgreesFor, HasAssignment, HasReplacement,
       HasActiveReturn, HasWorkingAssignment, Custody, Status

LEMMA OthersStaySound ==
    ASSUME IInv, NEW o \in Orders, Only(o), Kept(o)
    PROVE  IInv'
<1>1. TypeOK'
  BY DEF IInv, TypeOK, Only, Kept, Typed, Outboxes
<1>2. ASSUME NEW p \in Orders, p # o PROVE Sound(p)'
  <2>1. UNCHANGED << orders[p], assignments[p], replacements[p], rounds[p], handoffs[p],
                     returns[p] >>
    BY <1>2 DEF Only, IInv, TypeOK
  <2>2. Sound(p)  BY DEF IInv
  <2>. QED  BY <2>1, <2>2, SoundByRows
<1>. QED  BY <1>1, <1>2 DEF IInv, Kept

----------------------------------------------------------------------------
(* How an order gets its driver. *)

LEMMA OfferWrites ==
    ASSUME TypeOK, NEW o \in Orders, OfferCommand(o) PROVE Only(o)
BY DEF OfferCommand, Approve, OpenRound, StopRound, ClaimInitial, ClaimReplacement,
   AssignDriver, AssignTo, CloseRound, CloseHandoff, Only, TypeOK

LEMMA OfferKeeps ==
    ASSUME TypeOK, NEW o \in Orders, Sound(o), OfferCommand(o) PROVE Kept(o)
<1> USE DEF Enqueue, CloseRound, CloseHandoff, HasRoom, AssignmentOf, NoAssignment, NoHandoff, Status,
            Custody, HasAssignment, HasReplacement, HasActiveReturn, HasWorkingAssignment,
            BeforePickup, AfterPickup
<1>0. Typed(o)
  BY DEF TypeOK, Typed
<1>1. ASSUME Approve(o) PROVE Kept(o)
  <2>1. Typed(o)'
    <3>1. orders'[o] \in OrderRow
      BY <1>1, <1>0 DEF Approve, OrderStatuses, TypeOK, Typed, OrderRow
    <3>2. rounds'[o] \in RoundRow
      BY <1>1, <1>0 DEF Approve, TypeOK, Typed, RoundRow
    <3>3. UNCHANGED <<assignments, replacements, handoffs, returns>>
      BY <1>1 DEF Approve
    <3>. QED  BY <1>0, <3>1, <3>2, <3>3 DEF Typed
  <2>2. Sound(o)'
    BY <1>1, <1>0 DEF Approve, MayApprove, TypeOK, Typed, OrderRow, AssignmentRow,
         HandoffRow, ReturnRow, Sound, WellFormed, PhaseIsExact, CustodyAgreesFor,
         HandoffAgreesFor, ReturnAgreesFor,PhaseAgreesFor, FeeAgreesFor, RoundAgreesFor
  <2>3. outbox' \in Outboxes
    BY <1>1, <1>0 DEF Approve, MayApprove, Outboxes, Sound, WellFormed, HandoffAgreesFor,
         ReturnAgreesFor, CustodyAgreesFor
  <2>. QED  BY <2>1, <2>2, <2>3 DEF Kept
<1>2. ASSUME OpenRound(o) PROVE Kept(o)
  <2>1. Typed(o)'
    <3>1. orders'[o] \in OrderRow
      BY <1>2, <1>0 DEF OpenRound, OrderStatuses, TypeOK, Typed, OrderRow
    <3>2. rounds'[o] \in RoundRow
      BY <1>2, <1>0 DEF OpenRound, TypeOK, Typed, RoundRow
    <3>3. UNCHANGED <<assignments, replacements, handoffs, returns>>
      BY <1>2 DEF OpenRound
    <3>. QED  BY <1>0, <3>1, <3>2, <3>3 DEF Typed
  <2>2. Sound(o)'
    BY <1>2, <1>0 DEF OpenRound, TypeOK, Typed, OrderRow, AssignmentRow, HandoffRow,
         ReturnRow, Sound, WellFormed, PhaseIsExact, CustodyAgreesFor, HandoffAgreesFor,
         ReturnAgreesFor,PhaseAgreesFor, FeeAgreesFor, RoundAgreesFor
  <2>3. outbox' \in Outboxes
    BY <1>2, <1>0 DEF OpenRound, Outboxes, Sound, WellFormed, HandoffAgreesFor,
         ReturnAgreesFor, CustodyAgreesFor
  <2>. QED  BY <2>1, <2>2, <2>3 DEF Kept
<1>3. ASSUME StopRound(o) PROVE Kept(o)
  <2>1. Typed(o)'
    <3>1. rounds'[o] \in RoundRow
      BY <1>3, <1>0 DEF StopRound, TypeOK, Typed, RoundRow
    <3>2. UNCHANGED <<orders, assignments, replacements, handoffs, returns>>
      BY <1>3 DEF StopRound
    <3>. QED  BY <1>0, <3>1, <3>2 DEF Typed
  <2>2. Sound(o)'
    BY <1>3, <1>0 DEF StopRound, TypeOK, Typed, OrderRow, AssignmentRow, HandoffRow,
         ReturnRow, Sound, WellFormed, PhaseIsExact, CustodyAgreesFor, HandoffAgreesFor,
         ReturnAgreesFor,PhaseAgreesFor, FeeAgreesFor, RoundAgreesFor
  <2>3. outbox' \in Outboxes
    BY <1>3, <1>0 DEF StopRound, Outboxes, Sound, WellFormed, HandoffAgreesFor,
         ReturnAgreesFor, CustodyAgreesFor
  <2>. QED  BY <2>1, <2>2, <2>3 DEF Kept
<1>4. ASSUME NEW d \in Drivers, ClaimInitial(o, d) PROVE Kept(o)
  <2>1. Typed(o)'
    <3>1. PICK fee \in FeeChoices(o) : AssignTo(o, d, 1, fee)
      BY <1>4 DEF ClaimInitial
    <3>2. fee \in Fees
      BY <1>0 DEF FeeChoices, Typed, OrderRow
    <3>3. orders'[o] \in OrderRow
      BY <1>4, <1>0, <3>1, <3>2 DEF ClaimInitial, AssignTo, StatusWithDriver,
         OrderStatuses, TypeOK, Typed, OrderRow
    <3>4. assignments'[o] \in AssignmentRow
      BY <1>4, <1>0, <3>1, <3>2 DEF ClaimInitial, AssignTo, TypeOK, Typed, AssignmentRow
    <3>5. rounds'[o] \in RoundRow
      BY <1>4, <1>0 DEF ClaimInitial, TypeOK, Typed, RoundRow
    <3>6. UNCHANGED <<replacements, handoffs, returns>>
      BY <1>4 DEF ClaimInitial
    <3>. QED  BY <1>0, <3>3, <3>4, <3>5, <3>6 DEF Typed
  <2>2. Sound(o)'
    BY <1>4, <1>0 DEF ClaimInitial, AssignTo, FeeChoices, StatusWithDriver, TypeOK, Typed,
         OrderRow, AssignmentRow, HandoffRow, ReturnRow, Sound, WellFormed, PhaseIsExact,
         CustodyAgreesFor, HandoffAgreesFor, ReturnAgreesFor,PhaseAgreesFor, FeeAgreesFor,
         RoundAgreesFor
  <2>3. outbox' \in Outboxes
    BY <1>4, <1>0 DEF ClaimInitial, AssignTo, FeeChoices, StatusWithDriver, Outboxes,
         Sound, WellFormed, HandoffAgreesFor, ReturnAgreesFor, CustodyAgreesFor
  <2>. QED  BY <2>1, <2>2, <2>3 DEF Kept
<1>5. ASSUME NEW d \in Drivers, ClaimReplacement(o, d) PROVE Kept(o)
  <2>1. Typed(o)'
    <3>1. PICK fee \in FeeChoices(o) : /\ replacements' = [replacements EXCEPT ![o] =
                                          AssignmentOf(d, "HANDOFF_PENDING", 1, fee)]
                                    /\ orders' = [orders EXCEPT ![o].fee = fee]
      BY <1>5 DEF ClaimReplacement
    <3>2. fee \in Fees
      BY <1>0 DEF FeeChoices, Typed, OrderRow
    <3>3. orders'[o] \in OrderRow
      BY <1>5, <1>0, <3>1, <3>2 DEF ClaimReplacement, TypeOK, Typed, OrderRow
    <3>4. replacements'[o] \in AssignmentRow
      BY <1>5, <1>0, <3>1, <3>2 DEF ClaimReplacement, TypeOK, Typed, AssignmentRow
    <3>5. rounds'[o] \in RoundRow
      BY <1>5, <1>0 DEF ClaimReplacement, TypeOK, Typed, RoundRow
    <3>6. handoffs'[o] \in HandoffRow
      BY <1>5, <1>0 DEF ClaimReplacement, AssignmentRow, TypeOK, Typed, HandoffRow
    <3>7. UNCHANGED <<assignments, returns>>
      BY <1>5 DEF ClaimReplacement
    <3>. QED  BY <1>0, <3>3, <3>4, <3>5, <3>6, <3>7 DEF Typed
  <2>2. Sound(o)'
    BY <1>5, <1>0 DEF ClaimReplacement, FeeChoices, TypeOK, Typed, OrderRow,
         AssignmentRow, HandoffRow, ReturnRow, Sound, WellFormed, PhaseIsExact,
         CustodyAgreesFor, HandoffAgreesFor, ReturnAgreesFor,PhaseAgreesFor, FeeAgreesFor,
         RoundAgreesFor
  <2>3. outbox' \in Outboxes
    BY <1>5, <1>0 DEF ClaimReplacement, FeeChoices, Outboxes, Sound, WellFormed,
         HandoffAgreesFor, ReturnAgreesFor, CustodyAgreesFor
  <2>. QED  BY <2>1, <2>2, <2>3 DEF Kept
<1>6. ASSUME NEW d \in Drivers, AssignDriver(o, d) PROVE Kept(o)
  <2>1. Typed(o)'
    <3>1. PICK fee \in FeeChoices(o) : AssignTo(o, d, Load(d) + 1, fee)
      BY <1>6 DEF AssignDriver
    <3>2. fee \in Fees
      BY <1>0 DEF FeeChoices, Typed, OrderRow
    <3>3. orders'[o] \in OrderRow
      BY <1>6, <1>0, <3>1, <3>2 DEF AssignDriver, AssignTo, StatusWithDriver,
         OrderStatuses, TypeOK, Typed, OrderRow
    <3>4. assignments'[o] \in AssignmentRow
      BY <1>6, <1>0, <3>1, <3>2, LoadBound DEF AssignDriver, AssignTo, TypeOK, Typed,
         AssignmentRow
    <3>5. rounds'[o] \in RoundRow
      BY <1>6, <1>0 DEF AssignDriver, TypeOK, Typed, RoundRow
    <3>6. UNCHANGED <<replacements, handoffs, returns>>
      BY <1>6 DEF AssignDriver
    <3>. QED  BY <1>0, <3>3, <3>4, <3>5, <3>6 DEF Typed
  <2>2. Sound(o)'
    BY <1>6, <1>0 DEF AssignDriver, AssignTo, FeeChoices, StatusWithDriver, TypeOK, Typed,
         OrderRow, AssignmentRow, HandoffRow, ReturnRow, Sound, WellFormed, PhaseIsExact,
         CustodyAgreesFor, HandoffAgreesFor, ReturnAgreesFor,PhaseAgreesFor, FeeAgreesFor,
         RoundAgreesFor
  <2>3. outbox' \in Outboxes
    BY <1>6, <1>0 DEF AssignDriver, AssignTo, FeeChoices, StatusWithDriver, Outboxes,
         Sound, WellFormed, HandoffAgreesFor, ReturnAgreesFor, CustodyAgreesFor
  <2>. QED  BY <2>1, <2>2, <2>3 DEF Kept
<1>. QED  BY <1>1, <1>2, <1>3, <1>4, <1>5, <1>6 DEF OfferCommand

----------------------------------------------------------------------------
(* Its way with the driver. *)

LEMMA DeliveryWrites ==
    ASSUME TypeOK, NEW o \in Orders, DeliveryCommand(o) PROVE Only(o)
BY DEF DeliveryCommand, MarkReady, ConfirmArrivalAtStore, ConfirmPickup, ConfirmArrival,
   ConfirmDelivery, CloseRound, CloseHandoff, Only, TypeOK

LEMMA DeliveryKeeps ==
    ASSUME TypeOK, NEW o \in Orders, Sound(o), DeliveryCommand(o) PROVE Kept(o)
<1> USE DEF Enqueue, CloseRound, CloseHandoff, HasRoom, AssignmentOf, NoAssignment, NoHandoff, Status,
            Custody, HasAssignment, HasReplacement, HasActiveReturn, HasWorkingAssignment,
            BeforePickup, AfterPickup
<1>0. Typed(o)
  BY DEF TypeOK, Typed
<1>1. ASSUME MarkReady(o) PROVE Kept(o)
  <2>1. Typed(o)'
    <3>1. orders'[o] \in OrderRow
      BY <1>1, <1>0 DEF MarkReady, StatusWhenReady, OrderStatuses, TypeOK, Typed, OrderRow
    <3>2. UNCHANGED <<assignments, replacements, rounds, handoffs, returns>>
      BY <1>1 DEF MarkReady
    <3>. QED  BY <1>0, <3>1, <3>2 DEF Typed
  <2>2. Sound(o)'
    BY <1>1, <1>0 DEF MarkReady, StorePhaseNotBlocked, MayMarkReady, StatusWhenReady,
         TypeOK, Typed, OrderRow, AssignmentRow, HandoffRow, ReturnRow, Sound, WellFormed,
         PhaseIsExact, CustodyAgreesFor, HandoffAgreesFor, ReturnAgreesFor,PhaseAgreesFor,
         FeeAgreesFor, RoundAgreesFor
  <2>3. outbox' \in Outboxes
    BY <1>1, <1>0 DEF MarkReady, StorePhaseNotBlocked, MayMarkReady, StatusWhenReady,
         Outboxes, Sound, WellFormed, HandoffAgreesFor, ReturnAgreesFor, CustodyAgreesFor
  <2>. QED  BY <2>1, <2>2, <2>3 DEF Kept
<1>2. ASSUME ConfirmArrivalAtStore(o) PROVE Kept(o)
  <2>1. Typed(o)'
    <3>1. orders'[o] \in OrderRow
      BY <1>2, <1>0 DEF ConfirmArrivalAtStore, OrderStatuses, TypeOK, Typed, OrderRow
    <3>2. assignments'[o] \in AssignmentRow
      BY <1>2, <1>0 DEF ConfirmArrivalAtStore, TypeOK, Typed, AssignmentRow
    <3>3. UNCHANGED <<replacements, rounds, handoffs, returns>>
      BY <1>2 DEF ConfirmArrivalAtStore
    <3>. QED  BY <1>0, <3>1, <3>2, <3>3 DEF Typed
  <2>2. Sound(o)'
    BY <1>2, <1>0 DEF ConfirmArrivalAtStore, StorePhaseNotBlocked,
         MayConfirmArrivalAtStore, TypeOK, Typed, OrderRow, AssignmentRow, HandoffRow,
         ReturnRow, Sound, WellFormed, PhaseIsExact, CustodyAgreesFor, HandoffAgreesFor,
         ReturnAgreesFor,PhaseAgreesFor, FeeAgreesFor, RoundAgreesFor
  <2>3. outbox' \in Outboxes
    BY <1>2, <1>0 DEF ConfirmArrivalAtStore, StorePhaseNotBlocked,
         MayConfirmArrivalAtStore, Outboxes, Sound, WellFormed, HandoffAgreesFor,
         ReturnAgreesFor, CustodyAgreesFor
  <2>. QED  BY <2>1, <2>2, <2>3 DEF Kept
<1>3. ASSUME ConfirmPickup(o) PROVE Kept(o)
  <2>1. Typed(o)'
    <3>1. orders'[o] \in OrderRow
      BY <1>3, <1>0 DEF ConfirmPickup, CustodyStatuses, AssignmentRow, OrderStatuses,
         TypeOK, Typed, OrderRow
    <3>2. assignments'[o] \in AssignmentRow
      BY <1>3, <1>0 DEF ConfirmPickup, TypeOK, Typed, AssignmentRow
    <3>3. UNCHANGED <<replacements, rounds, handoffs, returns>>
      BY <1>3 DEF ConfirmPickup
    <3>. QED  BY <1>0, <3>1, <3>2, <3>3 DEF Typed
  <2>2. Sound(o)'
    BY <1>3, <1>0 DEF ConfirmPickup, StorePhaseNotBlocked, MayConfirmPickup, TypeOK,
         Typed, OrderRow, AssignmentRow, HandoffRow, ReturnRow, Sound, WellFormed,
         PhaseIsExact, CustodyAgreesFor, HandoffAgreesFor, ReturnAgreesFor,PhaseAgreesFor,
         FeeAgreesFor, RoundAgreesFor
  <2>3. outbox' \in Outboxes
    BY <1>3, <1>0 DEF ConfirmPickup, StorePhaseNotBlocked, MayConfirmPickup, Outboxes,
         Sound, WellFormed, HandoffAgreesFor, ReturnAgreesFor, CustodyAgreesFor
  <2>. QED  BY <2>1, <2>2, <2>3 DEF Kept
<1>4. ASSUME NEW scope \in {"DRIVER", "DASHBOARD"}, ConfirmArrival(o, scope) PROVE Kept(o)
  <2>1. Typed(o)'
    <3>1. orders'[o] \in OrderRow
      BY <1>4, <1>0 DEF ConfirmArrival, OrderStatuses, TypeOK, Typed, OrderRow
    <3>2. assignments'[o] \in AssignmentRow
      BY <1>4, <1>0 DEF ConfirmArrival, TypeOK, Typed, AssignmentRow
    <3>3. UNCHANGED <<replacements, rounds, handoffs, returns>>
      BY <1>4 DEF ConfirmArrival
    <3>. QED  BY <1>0, <3>1, <3>2, <3>3 DEF Typed
  <2>2. Sound(o)'
    BY <1>4, <1>0 DEF ConfirmArrival, DeliveryNotBlocked, MayConfirmArrival, TypeOK,
         Typed, OrderRow, AssignmentRow, HandoffRow, ReturnRow, Sound, WellFormed,
         PhaseIsExact, CustodyAgreesFor, HandoffAgreesFor, ReturnAgreesFor,PhaseAgreesFor,
         FeeAgreesFor, RoundAgreesFor
  <2>3. outbox' \in Outboxes
    BY <1>4, <1>0 DEF ConfirmArrival, DeliveryNotBlocked, MayConfirmArrival, Outboxes,
         Sound, WellFormed, HandoffAgreesFor, ReturnAgreesFor, CustodyAgreesFor
  <2>. QED  BY <2>1, <2>2, <2>3 DEF Kept
<1>5. ASSUME ConfirmDelivery(o) PROVE Kept(o)
  <2>1. Typed(o)'
    <3>1. orders'[o] \in OrderRow
      BY <1>5, <1>0 DEF ConfirmDelivery, CustodyStatuses, OrderStatuses, TypeOK, Typed,
         OrderRow
    <3>2. assignments'[o] \in AssignmentRow
      BY <1>5, <1>0 DEF ConfirmDelivery, TypeOK, Typed, AssignmentRow
    <3>3. UNCHANGED <<replacements, rounds, handoffs, returns>>
      BY <1>5 DEF ConfirmDelivery
    <3>. QED  BY <1>0, <3>1, <3>2, <3>3 DEF Typed
  <2>2. Sound(o)'
    BY <1>5, <1>0 DEF ConfirmDelivery, DeliveryNotBlocked, MayConfirmDelivery, TypeOK,
         Typed, OrderRow, AssignmentRow, HandoffRow, ReturnRow, Sound, WellFormed,
         PhaseIsExact, CustodyAgreesFor, HandoffAgreesFor, ReturnAgreesFor,PhaseAgreesFor,
         FeeAgreesFor, RoundAgreesFor
  <2>3. outbox' \in Outboxes
    BY <1>5, <1>0 DEF ConfirmDelivery, DeliveryNotBlocked, MayConfirmDelivery, Outboxes,
         Sound, WellFormed, HandoffAgreesFor, ReturnAgreesFor, CustodyAgreesFor
  <2>. QED  BY <2>1, <2>2, <2>3 DEF Kept
<1>. QED  BY <1>1, <1>2, <1>3, <1>4, <1>5 DEF DeliveryCommand

----------------------------------------------------------------------------
(* What can go wrong on the way. *)

LEMMA OpsWrites ==
    ASSUME TypeOK, NEW o \in Orders, OpsCommand(o) PROVE Only(o)
BY DEF OpsCommand, CancelByCustomer, CancelByDashboard, CancelAfterPickup,
   RemoveAndReoffer, RemoveAndAssign, StartHandoff, ReofferAfterPickup, CancelHandoff,
   CompleteHandoff, StartReturnToStore, ConfirmDriverReturn, ConfirmStoreReturn,
   ReopenToPrepare, ReopenAndReoffer, ReopenAndAssign, CloseOnCancel, CloseRound,
   CloseHandoff, Only, TypeOK

LEMMA OpsKeeps ==
    ASSUME TypeOK, NEW o \in Orders, Sound(o), OpsCommand(o) PROVE Kept(o)
<1> USE DEF Enqueue, CloseRound, CloseHandoff, HasRoom, AssignmentOf, NoAssignment, NoHandoff, Status,
            Custody, HasAssignment, HasReplacement, HasActiveReturn, HasWorkingAssignment,
            BeforePickup, AfterPickup
<1>0. Typed(o)
  BY DEF TypeOK, Typed
<1>1. ASSUME CancelByCustomer(o) PROVE Kept(o)
  <2>1. Typed(o)'
    <3>1. orders'[o] \in OrderRow
      BY <1>1, <1>0 DEF CancelByCustomer, CloseOnCancel, OrderStatuses, TypeOK, Typed,
         OrderRow
    <3>2. assignments'[o] \in AssignmentRow
      BY <1>1, <1>0 DEF CancelByCustomer, CloseOnCancel, TypeOK, Typed, AssignmentRow
    <3>3. replacements'[o] \in AssignmentRow
      BY <1>1, <1>0 DEF CancelByCustomer, CloseOnCancel, TypeOK, Typed, AssignmentRow
    <3>4. rounds'[o] \in RoundRow
      BY <1>1, <1>0 DEF CancelByCustomer, CloseOnCancel, TypeOK, Typed, RoundRow
    <3>5. handoffs'[o] \in HandoffRow
      BY <1>1, <1>0 DEF CancelByCustomer, CloseOnCancel, TypeOK, Typed, HandoffRow
    <3>6. UNCHANGED <<returns>>
      BY <1>1 DEF CancelByCustomer, CloseOnCancel
    <3>. QED  BY <1>0, <3>1, <3>2, <3>3, <3>4, <3>5, <3>6 DEF Typed
  <2>2. Sound(o)'
    BY <1>1, <1>0 DEF CancelByCustomer, CloseOnCancel, CustomerMayCancel, TypeOK, Typed,
         OrderRow, AssignmentRow, HandoffRow, ReturnRow, Sound, WellFormed, PhaseIsExact,
         CustodyAgreesFor, HandoffAgreesFor, ReturnAgreesFor,PhaseAgreesFor, FeeAgreesFor,
         RoundAgreesFor
  <2>3. outbox' \in Outboxes
    BY <1>1, <1>0 DEF CancelByCustomer, CloseOnCancel, CustomerMayCancel, Outboxes, Sound,
         WellFormed, HandoffAgreesFor, ReturnAgreesFor, CustodyAgreesFor
  <2>. QED  BY <2>1, <2>2, <2>3 DEF Kept
<1>2. ASSUME CancelByDashboard(o) PROVE Kept(o)
  <2>1. Typed(o)'
    <3>1. orders'[o] \in OrderRow
      BY <1>2, <1>0 DEF CancelByDashboard, CloseOnCancel, OrderStatuses, TypeOK, Typed,
         OrderRow
    <3>2. assignments'[o] \in AssignmentRow
      BY <1>2, <1>0 DEF CancelByDashboard, CloseOnCancel, TypeOK, Typed, AssignmentRow
    <3>3. replacements'[o] \in AssignmentRow
      BY <1>2, <1>0 DEF CancelByDashboard, CloseOnCancel, TypeOK, Typed, AssignmentRow
    <3>4. rounds'[o] \in RoundRow
      BY <1>2, <1>0 DEF CancelByDashboard, CloseOnCancel, TypeOK, Typed, RoundRow
    <3>5. handoffs'[o] \in HandoffRow
      BY <1>2, <1>0 DEF CancelByDashboard, CloseOnCancel, TypeOK, Typed, HandoffRow
    <3>6. UNCHANGED <<returns>>
      BY <1>2 DEF CancelByDashboard, CloseOnCancel
    <3>. QED  BY <1>0, <3>1, <3>2, <3>3, <3>4, <3>5, <3>6 DEF Typed
  <2>2. Sound(o)'
    BY <1>2, <1>0 DEF CancelByDashboard, CloseOnCancel, DashboardMayCancel, IsTerminal,
         TypeOK, Typed, OrderRow, AssignmentRow, HandoffRow, ReturnRow, Sound, WellFormed,
         PhaseIsExact, CustodyAgreesFor, HandoffAgreesFor, ReturnAgreesFor,PhaseAgreesFor,
         FeeAgreesFor, RoundAgreesFor
  <2>3. outbox' \in Outboxes
    BY <1>2, <1>0 DEF CancelByDashboard, CloseOnCancel, DashboardMayCancel, IsTerminal,
         Outboxes, Sound, WellFormed, HandoffAgreesFor, ReturnAgreesFor, CustodyAgreesFor
  <2>. QED  BY <2>1, <2>2, <2>3 DEF Kept
<1>3. ASSUME CancelAfterPickup(o) PROVE Kept(o)
  <2>1. Typed(o)'
    <3>1. orders'[o] \in OrderRow
      BY <1>3, <1>0 DEF CancelAfterPickup, OrderStatuses, TypeOK, Typed, OrderRow
    <3>2. assignments'[o] \in AssignmentRow
      BY <1>3, <1>0 DEF CancelAfterPickup, TypeOK, Typed, AssignmentRow
    <3>3. replacements'[o] \in AssignmentRow
      BY <1>3, <1>0 DEF CancelAfterPickup, TypeOK, Typed, AssignmentRow
    <3>4. rounds'[o] \in RoundRow
      BY <1>3, <1>0 DEF CancelAfterPickup, TypeOK, Typed, RoundRow
    <3>5. handoffs'[o] \in HandoffRow
      BY <1>3, <1>0 DEF CancelAfterPickup, TypeOK, Typed, HandoffRow
    <3>6. returns'[o] \in ReturnRow
      BY <1>3, <1>0 DEF CancelAfterPickup, AssignmentRow, TypeOK, Typed, ReturnRow
    <3>. QED  BY <1>0, <3>1, <3>2, <3>3, <3>4, <3>5, <3>6 DEF Typed
  <2>2. Sound(o)'
    BY <1>3, <1>0 DEF CancelAfterPickup, DashboardMayCancel, IsTerminal, TypeOK, Typed,
         OrderRow, AssignmentRow, HandoffRow, ReturnRow, Sound, WellFormed, PhaseIsExact,
         CustodyAgreesFor, HandoffAgreesFor, ReturnAgreesFor,PhaseAgreesFor, FeeAgreesFor,
         RoundAgreesFor
  <2>3. outbox' \in Outboxes
    BY <1>3, <1>0 DEF CancelAfterPickup, DashboardMayCancel, IsTerminal, Outboxes, Sound,
         WellFormed, HandoffAgreesFor, ReturnAgreesFor, CustodyAgreesFor
  <2>. QED  BY <2>1, <2>2, <2>3 DEF Kept
<1>4. ASSUME RemoveAndReoffer(o) PROVE Kept(o)
  <2>1. Typed(o)'
    <3>1. orders'[o] \in OrderRow
      BY <1>4, <1>0 DEF RemoveAndReoffer, LockedFee, ReadyAfterRemoval, AssignmentRow,
         OrderStatuses, TypeOK, Typed, OrderRow
    <3>2. assignments'[o] \in AssignmentRow
      BY <1>4, <1>0 DEF RemoveAndReoffer, TypeOK, Typed, AssignmentRow
    <3>3. rounds'[o] \in RoundRow
      BY <1>4, <1>0 DEF RemoveAndReoffer, TypeOK, Typed, RoundRow
    <3>4. UNCHANGED <<replacements, handoffs, returns>>
      BY <1>4 DEF RemoveAndReoffer
    <3>. QED  BY <1>0, <3>1, <3>2, <3>3, <3>4 DEF Typed
  <2>2. Sound(o)'
    BY <1>4, <1>0 DEF RemoveAndReoffer, MayRemoveDriver, LockedFee, ReadyAfterRemoval,
         TypeOK, Typed, OrderRow, AssignmentRow, HandoffRow, ReturnRow, Sound, WellFormed,
         PhaseIsExact, CustodyAgreesFor, HandoffAgreesFor, ReturnAgreesFor,PhaseAgreesFor,
         FeeAgreesFor, RoundAgreesFor
  <2>3. outbox' \in Outboxes
    BY <1>4, <1>0 DEF RemoveAndReoffer, MayRemoveDriver, LockedFee, ReadyAfterRemoval,
         Outboxes, Sound, WellFormed, HandoffAgreesFor, ReturnAgreesFor, CustodyAgreesFor
  <2>. QED  BY <2>1, <2>2, <2>3 DEF Kept
<1>5. ASSUME NEW d \in Drivers, RemoveAndAssign(o, d) PROVE Kept(o)
  <2>1. Typed(o)'
    <3>1. orders'[o] \in OrderRow
      BY <1>5, <1>0 DEF RemoveAndAssign, LockedFee, ReadyAfterRemoval, AssignmentRow,
         OrderStatuses, TypeOK, Typed, OrderRow
    <3>2. assignments'[o] \in AssignmentRow
      BY <1>5, <1>0, LoadBound DEF RemoveAndAssign, LockedFee, OrderRow, TypeOK, Typed,
         AssignmentRow
    <3>3. UNCHANGED <<replacements, rounds, handoffs, returns>>
      BY <1>5 DEF RemoveAndAssign
    <3>. QED  BY <1>0, <3>1, <3>2, <3>3 DEF Typed
  <2>2. Sound(o)'
    BY <1>5, <1>0 DEF RemoveAndAssign, MayRemoveDriver, LockedFee, ReadyAfterRemoval,
         TypeOK, Typed, OrderRow, AssignmentRow, HandoffRow, ReturnRow, Sound, WellFormed,
         PhaseIsExact, CustodyAgreesFor, HandoffAgreesFor, ReturnAgreesFor,PhaseAgreesFor,
         FeeAgreesFor, RoundAgreesFor
  <2>3. outbox' \in Outboxes
    BY <1>5, <1>0 DEF RemoveAndAssign, MayRemoveDriver, LockedFee, ReadyAfterRemoval,
         Outboxes, Sound, WellFormed, HandoffAgreesFor, ReturnAgreesFor, CustodyAgreesFor
  <2>. QED  BY <2>1, <2>2, <2>3 DEF Kept
<1>6. ASSUME NEW d \in Drivers, StartHandoff(o, d) PROVE Kept(o)
  <2>1. Typed(o)'
    <3>1. orders'[o] \in OrderRow
      BY <1>6, <1>0 DEF StartHandoff, LockedFee, AssignmentRow, TypeOK, Typed, OrderRow
    <3>2. replacements'[o] \in AssignmentRow
      BY <1>6, <1>0, LoadBound DEF StartHandoff, LockedFee, OrderRow, TypeOK, Typed,
         AssignmentRow
    <3>3. handoffs'[o] \in HandoffRow
      BY <1>6, <1>0 DEF StartHandoff, AssignmentRow, TypeOK, Typed, HandoffRow
    <3>4. UNCHANGED <<assignments, rounds, returns>>
      BY <1>6 DEF StartHandoff
    <3>. QED  BY <1>0, <3>1, <3>2, <3>3, <3>4 DEF Typed
  <2>2. Sound(o)'
    BY <1>6, <1>0 DEF StartHandoff, LockedFee, TypeOK, Typed, OrderRow, AssignmentRow,
         HandoffRow, ReturnRow, Sound, WellFormed, PhaseIsExact, CustodyAgreesFor,
         HandoffAgreesFor, ReturnAgreesFor,PhaseAgreesFor, FeeAgreesFor, RoundAgreesFor
  <2>3. outbox' \in Outboxes
    BY <1>6, <1>0 DEF StartHandoff, LockedFee, Outboxes, Sound, WellFormed,
         HandoffAgreesFor, ReturnAgreesFor, CustodyAgreesFor
  <2>. QED  BY <2>1, <2>2, <2>3 DEF Kept
<1>7. ASSUME ReofferAfterPickup(o) PROVE Kept(o)
  <2>1. Typed(o)'
    <3>1. orders'[o] \in OrderRow
      BY <1>7, <1>0 DEF ReofferAfterPickup, LockedFee, AssignmentRow, TypeOK, Typed,
         OrderRow
    <3>2. rounds'[o] \in RoundRow
      BY <1>7, <1>0 DEF ReofferAfterPickup, TypeOK, Typed, RoundRow
    <3>3. UNCHANGED <<assignments, replacements, handoffs, returns>>
      BY <1>7 DEF ReofferAfterPickup
    <3>. QED  BY <1>0, <3>1, <3>2, <3>3 DEF Typed
  <2>2. Sound(o)'
    BY <1>7, <1>0 DEF ReofferAfterPickup, LockedFee, TypeOK, Typed, OrderRow,
         AssignmentRow, HandoffRow, ReturnRow, Sound, WellFormed, PhaseIsExact,
         CustodyAgreesFor, HandoffAgreesFor, ReturnAgreesFor,PhaseAgreesFor, FeeAgreesFor,
         RoundAgreesFor
  <2>3. outbox' \in Outboxes
    BY <1>7, <1>0 DEF ReofferAfterPickup, LockedFee, Outboxes, Sound, WellFormed,
         HandoffAgreesFor, ReturnAgreesFor, CustodyAgreesFor
  <2>. QED  BY <2>1, <2>2, <2>3 DEF Kept
<1>8. ASSUME CancelHandoff(o) PROVE Kept(o)
  <2>1. Typed(o)'
    <3>1. replacements'[o] \in AssignmentRow
      BY <1>8, <1>0 DEF CancelHandoff, TypeOK, Typed, AssignmentRow
    <3>2. handoffs'[o] \in HandoffRow
      BY <1>8, <1>0 DEF CancelHandoff, TypeOK, Typed, HandoffRow
    <3>3. UNCHANGED <<orders, assignments, rounds, returns>>
      BY <1>8 DEF CancelHandoff
    <3>. QED  BY <1>0, <3>1, <3>2, <3>3 DEF Typed
  <2>2. Sound(o)'
    BY <1>8, <1>0 DEF CancelHandoff, TypeOK, Typed, OrderRow, AssignmentRow, HandoffRow,
         ReturnRow, Sound, WellFormed, PhaseIsExact, CustodyAgreesFor, HandoffAgreesFor,
         ReturnAgreesFor,PhaseAgreesFor, FeeAgreesFor, RoundAgreesFor
  <2>3. outbox' \in Outboxes
    BY <1>8, <1>0 DEF CancelHandoff, Outboxes, Sound, WellFormed, HandoffAgreesFor,
         ReturnAgreesFor, CustodyAgreesFor
  <2>. QED  BY <2>1, <2>2, <2>3 DEF Kept
<1>9. ASSUME CompleteHandoff(o) PROVE Kept(o)
  <2>1. Typed(o)'
    <3>1. orders'[o] \in OrderRow
      BY <1>9, <1>0 DEF CompleteHandoff, HandedOver, HandoffRow, CustodyStatuses,
         OrderStatuses, TypeOK, Typed, OrderRow
    <3>2. assignments'[o] \in AssignmentRow
      BY <1>9, <1>0 DEF CompleteHandoff, TypeOK, Typed, AssignmentRow
    <3>3. replacements'[o] \in AssignmentRow
      BY <1>9, <1>0 DEF CompleteHandoff, TypeOK, Typed, AssignmentRow
    <3>4. handoffs'[o] \in HandoffRow
      BY <1>9, <1>0 DEF CompleteHandoff, TypeOK, Typed, HandoffRow
    <3>5. UNCHANGED <<rounds, returns>>
      BY <1>9 DEF CompleteHandoff
    <3>. QED  BY <1>0, <3>1, <3>2, <3>3, <3>4, <3>5 DEF Typed
  <2>2. Sound(o)'
    BY <1>9, <1>0 DEF CompleteHandoff, HandedOver, TypeOK, Typed, OrderRow, AssignmentRow,
         HandoffRow, ReturnRow, Sound, WellFormed, PhaseIsExact, CustodyAgreesFor,
         HandoffAgreesFor, ReturnAgreesFor,PhaseAgreesFor, FeeAgreesFor, RoundAgreesFor
  <2>3. outbox' \in Outboxes
    BY <1>9, <1>0 DEF CompleteHandoff, HandedOver, Outboxes, Sound, WellFormed,
         HandoffAgreesFor, ReturnAgreesFor, CustodyAgreesFor
  <2>. QED  BY <2>1, <2>2, <2>3 DEF Kept
<1>10. ASSUME StartReturnToStore(o) PROVE Kept(o)
  <2>1. Typed(o)'
    <3>1. assignments'[o] \in AssignmentRow
      BY <1>10, <1>0 DEF StartReturnToStore, TypeOK, Typed, AssignmentRow
    <3>2. replacements'[o] \in AssignmentRow
      BY <1>10, <1>0 DEF StartReturnToStore, TypeOK, Typed, AssignmentRow
    <3>3. handoffs'[o] \in HandoffRow
      BY <1>10, <1>0 DEF StartReturnToStore, TypeOK, Typed, HandoffRow
    <3>4. returns'[o] \in ReturnRow
      BY <1>10, <1>0 DEF StartReturnToStore, AssignmentRow, TypeOK, Typed, ReturnRow
    <3>5. UNCHANGED <<orders, rounds>>
      BY <1>10 DEF StartReturnToStore
    <3>. QED  BY <1>0, <3>1, <3>2, <3>3, <3>4, <3>5 DEF Typed
  <2>2. Sound(o)'
    BY <1>10, <1>0 DEF StartReturnToStore, TrackedOnReturn, TypeOK, Typed, OrderRow,
         AssignmentRow, HandoffRow, ReturnRow, Sound, WellFormed, PhaseIsExact,
         CustodyAgreesFor, HandoffAgreesFor, ReturnAgreesFor,PhaseAgreesFor, FeeAgreesFor,
         RoundAgreesFor
  <2>3. outbox' \in Outboxes
    BY <1>10, <1>0 DEF StartReturnToStore, TrackedOnReturn, Outboxes, Sound, WellFormed,
         HandoffAgreesFor, ReturnAgreesFor, CustodyAgreesFor
  <2>. QED  BY <2>1, <2>2, <2>3 DEF Kept
<1>11. ASSUME ConfirmDriverReturn(o) PROVE Kept(o)
  <2>1. Typed(o)'
    <3>1. returns'[o] \in ReturnRow
      BY <1>11, <1>0 DEF ConfirmDriverReturn, TypeOK, Typed, ReturnRow
    <3>2. UNCHANGED <<orders, assignments, replacements, rounds, handoffs>>
      BY <1>11 DEF ConfirmDriverReturn
    <3>. QED  BY <1>0, <3>1, <3>2 DEF Typed
  <2>2. Sound(o)'
    BY <1>11, <1>0 DEF ConfirmDriverReturn, AwaitsReturn, TypeOK, Typed, OrderRow,
         AssignmentRow, HandoffRow, ReturnRow, Sound, WellFormed, PhaseIsExact,
         CustodyAgreesFor, HandoffAgreesFor, ReturnAgreesFor,PhaseAgreesFor, FeeAgreesFor,
         RoundAgreesFor
  <2>3. outbox' \in Outboxes
    BY <1>11, <1>0 DEF ConfirmDriverReturn, AwaitsReturn, Outboxes, Sound, WellFormed,
         HandoffAgreesFor, ReturnAgreesFor, CustodyAgreesFor
  <2>. QED  BY <2>1, <2>2, <2>3 DEF Kept
<1>12. ASSUME NEW scope \in {"MERCHANT", "DASHBOARD"}, ConfirmStoreReturn(o, scope) PROVE Kept(o)
  <2>1. Typed(o)'
    <3>1. orders'[o] \in OrderRow
      BY <1>12, <1>0 DEF ConfirmStoreReturn, CustodyStatuses, OrderStatuses, TypeOK,
         Typed, OrderRow
    <3>2. assignments'[o] \in AssignmentRow
      BY <1>12, <1>0 DEF ConfirmStoreReturn, TypeOK, Typed, AssignmentRow
    <3>3. returns'[o] \in ReturnRow
      BY <1>12, <1>0 DEF ConfirmStoreReturn, TypeOK, Typed, ReturnRow
    <3>4. UNCHANGED <<replacements, rounds, handoffs>>
      BY <1>12 DEF ConfirmStoreReturn
    <3>. QED  BY <1>0, <3>1, <3>2, <3>3, <3>4 DEF Typed
  <2>2. Sound(o)'
    BY <1>12, <1>0 DEF ConfirmStoreReturn, AwaitsReturn, TypeOK, Typed, OrderRow,
         AssignmentRow, HandoffRow, ReturnRow, Sound, WellFormed, PhaseIsExact,
         CustodyAgreesFor, HandoffAgreesFor, ReturnAgreesFor,PhaseAgreesFor, FeeAgreesFor,
         RoundAgreesFor
  <2>3. outbox' \in Outboxes
    BY <1>12, <1>0 DEF ConfirmStoreReturn, AwaitsReturn, Outboxes, Sound, WellFormed,
         HandoffAgreesFor, ReturnAgreesFor, CustodyAgreesFor
  <2>. QED  BY <2>1, <2>2, <2>3 DEF Kept
<1>13. ASSUME ReopenToPrepare(o) PROVE Kept(o)
  <2>1. Typed(o)'
    <3>1. orders'[o] \in OrderRow
      BY <1>13, <1>0 DEF ReopenToPrepare, OrderStatuses, TypeOK, Typed, OrderRow
    <3>2. UNCHANGED <<assignments, replacements, rounds, handoffs, returns>>
      BY <1>13 DEF ReopenToPrepare
    <3>. QED  BY <1>0, <3>1, <3>2 DEF Typed
  <2>2. Sound(o)'
    BY <1>13, <1>0 DEF ReopenToPrepare, MayReopen, TypeOK, Typed, OrderRow, AssignmentRow,
         HandoffRow, ReturnRow, Sound, WellFormed, PhaseIsExact, CustodyAgreesFor,
         HandoffAgreesFor, ReturnAgreesFor,PhaseAgreesFor, FeeAgreesFor, RoundAgreesFor
  <2>3. outbox' \in Outboxes
    BY <1>13, <1>0 DEF ReopenToPrepare, MayReopen, Outboxes, Sound, WellFormed,
         HandoffAgreesFor, ReturnAgreesFor, CustodyAgreesFor
  <2>. QED  BY <2>1, <2>2, <2>3 DEF Kept
<1>14. ASSUME ReopenAndReoffer(o) PROVE Kept(o)
  <2>1. Typed(o)'
    <3>1. orders'[o] \in OrderRow
      BY <1>14, <1>0 DEF ReopenAndReoffer, OrderStatuses, TypeOK, Typed, OrderRow
    <3>2. rounds'[o] \in RoundRow
      BY <1>14, <1>0 DEF ReopenAndReoffer, TypeOK, Typed, RoundRow
    <3>3. UNCHANGED <<assignments, replacements, handoffs, returns>>
      BY <1>14 DEF ReopenAndReoffer
    <3>. QED  BY <1>0, <3>1, <3>2, <3>3 DEF Typed
  <2>2. Sound(o)'
    BY <1>14, <1>0 DEF ReopenAndReoffer, MayReopen, TypeOK, Typed, OrderRow,
         AssignmentRow, HandoffRow, ReturnRow, Sound, WellFormed, PhaseIsExact,
         CustodyAgreesFor, HandoffAgreesFor, ReturnAgreesFor,PhaseAgreesFor, FeeAgreesFor,
         RoundAgreesFor
  <2>3. outbox' \in Outboxes
    BY <1>14, <1>0 DEF ReopenAndReoffer, MayReopen, Outboxes, Sound, WellFormed,
         HandoffAgreesFor, ReturnAgreesFor, CustodyAgreesFor
  <2>. QED  BY <2>1, <2>2, <2>3 DEF Kept
<1>15. ASSUME NEW d \in Drivers, ReopenAndAssign(o, d) PROVE Kept(o)
  <2>1. Typed(o)'
    <3>1. orders'[o] \in OrderRow
      BY <1>15, <1>0 DEF ReopenAndAssign, OrderStatuses, TypeOK, Typed, OrderRow
    <3>2. assignments'[o] \in AssignmentRow
      BY <1>15, <1>0, LoadBound DEF ReopenAndAssign, OrderRow, TypeOK, Typed, AssignmentRow
    <3>3. UNCHANGED <<replacements, rounds, handoffs, returns>>
      BY <1>15 DEF ReopenAndAssign
    <3>. QED  BY <1>0, <3>1, <3>2, <3>3 DEF Typed
  <2>2. Sound(o)'
    BY <1>15, <1>0 DEF ReopenAndAssign, MayReopen, TypeOK, Typed, OrderRow, AssignmentRow,
         HandoffRow, ReturnRow, Sound, WellFormed, PhaseIsExact, CustodyAgreesFor,
         HandoffAgreesFor, ReturnAgreesFor,PhaseAgreesFor, FeeAgreesFor, RoundAgreesFor
  <2>3. outbox' \in Outboxes
    BY <1>15, <1>0 DEF ReopenAndAssign, MayReopen, Outboxes, Sound, WellFormed,
         HandoffAgreesFor, ReturnAgreesFor, CustodyAgreesFor
  <2>. QED  BY <2>1, <2>2, <2>3 DEF Kept
<1>. QED  BY <1>1, <1>2, <1>3, <1>4, <1>5, <1>6, <1>7, <1>8, <1>9, <1>10, <1>11, <1>12,
         <1>13, <1>14, <1>15 DEF OpsCommand

----------------------------------------------------------------------------
(* The theorems. *)

LEMMA StepInv == IInv /\ [Next]_vars => IInv'
<1> SUFFICES ASSUME IInv, [Next]_vars PROVE IInv'
  OBVIOUS
<1>1. CASE OfferNext
  BY <1>1, OfferWrites, OfferKeeps, OthersStaySound DEF OfferNext, IInv
<1>2. CASE DeliveryNext
  BY <1>2, DeliveryWrites, DeliveryKeeps, OthersStaySound DEF DeliveryNext, IInv
<1>3. CASE OpsNext
  BY <1>3, OpsWrites, OpsKeeps, OthersStaySound DEF OpsNext, IInv
<1>4. CASE UNCHANGED vars
  <2>1. TypeOK'
    BY <1>4 DEF IInv, TypeOK, vars
  <2>2. ASSUME NEW o \in Orders PROVE Sound(o)'
    BY <1>4, SoundByRows DEF IInv, vars
  <2>. QED  BY <2>1, <2>2 DEF IInv
<1>. QED  BY <1>1, <1>2, <1>3, <1>4 DEF Next

LEMMA Invariance == Spec => []IInv
BY InitInv, StepInv, PTL DEF Spec

\* The rows of every order have their types, whatever the commands do.
THEOREM TypeCorrect == Spec => []TypeOK
<1>1. IInv => TypeOK  BY DEF IInv
<1>. QED  BY <1>1, Invariance, PTL

\* The goods are with a driver exactly while the assignment says so, and order,
\* custody and assignment name one driver (all commands that move goods).
THEOREM CustodyCorrect == Spec => []CustodyAgrees
<1>1. IInv => CustodyAgrees  BY DEF IInv, Sound, CustodyAgrees
<1>. QED  BY <1>1, Invariance, PTL

\* A pending handoff and its replacement assignment come and go together, on goods
\* that are on their way (claim, startHandoffAssign, cancelHandoff, completeHandoff
\* and every command that overtakes them).
THEOREM HandoffCorrect == Spec => []HandoffAgrees
<1>1. IInv => HandoffAgrees  BY DEF IInv, Sound, HandoffAgrees
<1>. QED  BY <1>1, Invariance, PTL

\* A return workflow and its RETURN_PENDING assignment come and go together: a
\* cancellation never starts a second return.
THEOREM ReturnCorrect == Spec => []ReturnAgrees
<1>1. IInv => ReturnAgrees  BY DEF IInv, Sound, ReturnAgrees
<1>. QED  BY <1>1, Invariance, PTL

\* The order's status, its custody and its assignment tell one story.
THEOREM PhaseCorrect == Spec => []PhaseAgrees
<1>1. IInv => PhaseAgrees  BY DEF IInv, Sound, PhaseAgrees
<1>. QED  BY <1>1, Invariance, PTL

\* A driver is paid what the order locked, whoever brings it in the end.
THEOREM FeeCorrect == Spec => []FeeAgrees
<1>1. IInv => FeeAgrees  BY DEF IInv, Sound, FeeAgrees
<1>. QED  BY <1>1, Invariance, PTL

\* An initial offer is open only while its order looks for a driver.
THEOREM RoundCorrect == Spec => []InitialRoundAgrees
<1>1. IInv => InitialRoundAgrees  BY DEF IInv, Sound, InitialRoundAgrees
<1>. QED  BY <1>1, Invariance, PTL

\* The four tables that tell where the goods are never disagree.
THEOREM GoodsCorrect == Spec => []GoodsAgree
<1>1. CustodyAgrees /\ HandoffAgrees /\ ReturnAgrees => GoodsAgree  BY DEF GoodsAgree
<1>. QED  BY <1>1, CustodyCorrect, HandoffCorrect, ReturnCorrect, PTL

\* The status of an order never disagrees with its goods or its open round.
THEOREM StatusAgreementCorrect == Spec => []StatusAgrees
<1>1. PhaseAgrees /\ InitialRoundAgrees => StatusAgrees  BY DEF StatusAgrees
<1>. QED  BY <1>1, PhaseCorrect, RoundCorrect, PTL

----------------------------------------------------------------------------
(* What a command may do: nobody gets a third order, a locked fee stays, the
   status follows its graph, what changed is in the outbox, and the goods move
   as CustodyChain promises. *)

\* A command of the system writes the rows of the order it concerns, and no other.
LEMMA CommandWrites ==
    ASSUME TypeOK, NEW o \in Orders, OfferCommand(o) \/ DeliveryCommand(o) \/ OpsCommand(o)
    PROVE  Only(o)
BY OfferWrites, DeliveryWrites, OpsWrites

----------------------------------------------------------------------------
(* Capacity. *)

\* What driver d holds after a step: no more than before, or one of the rows it
\* held, if any, for another, with room for it.
Fits(d) ==
    \/ Held(d)' \subseteq Held(d)
    \/ \E x, y : /\ Cardinality(Held(d) \ {x}) < 2
                 /\ Held(d)' \subseteq (Held(d) \ {x}) \cup {y}

LEMMA FitsIsEnough ==
    ASSUME NEW d, Load(d) <= 2, Fits(d) PROVE Load(d)' <= 2
<1>1. IsFiniteSet(Held(d)) /\ Load(d) \in Nat
  BY LoadIsNat
<1>2. CASE Held(d)' \subseteq Held(d)
  <2>1. IsFiniteSet(Held(d)') /\ Cardinality(Held(d)') <= Cardinality(Held(d))
    BY <1>1, <1>2, FS_Subset
  <2>2. Cardinality(Held(d)') \in Nat
    BY <2>1, FS_CardinalityType
  <2>. QED  BY <1>1, <2>1, <2>2 DEF Load
<1>3. ASSUME NEW x, NEW y, Cardinality(Held(d) \ {x}) < 2,
             Held(d)' \subseteq (Held(d) \ {x}) \cup {y}
      PROVE  Load(d)' <= 2
  <2> DEFINE Rest == Held(d) \ {x}
             Most == Rest \cup {y}
  <2>1. IsFiniteSet(Rest) /\ Cardinality(Rest) \in Nat
    BY <1>1, FS_RemoveElement, FS_CardinalityType
  <2>2. IsFiniteSet(Most) /\ Cardinality(Most) \in Nat /\ Cardinality(Most) <= Cardinality(Rest) + 1
    <3> HIDE DEF Rest
    <3>1. IsFiniteSet(Most)
      BY <2>1, FS_AddElement
    <3>2. Cardinality(Most) \in {Cardinality(Rest), Cardinality(Rest) + 1}
      BY <2>1, FS_AddElement
    <3>. QED  BY <2>1, <3>1, <3>2
  <2>3. Cardinality(Held(d)') \in Nat /\ Cardinality(Held(d)') <= Cardinality(Most)
    <3>1. Held(d)' \subseteq Most
      BY <1>3
    <3> HIDE DEF Most
    <3>. QED  BY <2>2, <3>1, FS_Subset, FS_CardinalityType
  <2>. QED  BY <1>3, <2>1, <2>2, <2>3 DEF Load
<1>. QED  BY <1>2, <1>3 DEF Fits

\* What d holds after a step that writes the rows of o only.
LEMMA HeldAfter ==
    ASSUME TypeOK, NEW o \in Orders, Only(o), NEW d
    PROVE  Held(d)' = (Held(d) \ {<<o, "CUSTODY">>, <<o, "HANDOFF">>})
                      \cup (IF assignments'[o].driver = d THEN {<<o, "CUSTODY">>} ELSE {})
                      \cup (IF replacements'[o].driver = d THEN {<<o, "HANDOFF">>} ELSE {})
<1>1. \A p \in Orders : p # o => /\ assignments'[p] = assignments[p]
                                 /\ replacements'[p] = replacements[p]
  BY DEF Only, TypeOK
<1>. QED  BY <1>1 DEF Held

LEMMA HeldNow ==
    ASSUME NEW o \in Orders, NEW d
    PROVE  /\ <<o, "CUSTODY">> \in Held(d) <=> assignments[o].driver = d
           /\ <<o, "HANDOFF">> \in Held(d) <=> replacements[o].driver = d
BY DEF Held

\* A step that names d in no row of o where it was not named gives d nothing.
LEMMA GivesNothing ==
    ASSUME TypeOK, NEW o \in Orders, Only(o), NEW d,
           assignments'[o].driver = d => assignments[o].driver = d,
           replacements'[o].driver = d => replacements[o].driver = d
    PROVE  Fits(d)
<1>1. Held(d)' = (Held(d) \ {<<o, "CUSTODY">>, <<o, "HANDOFF">>})
                 \cup (IF assignments'[o].driver = d THEN {<<o, "CUSTODY">>} ELSE {})
                 \cup (IF replacements'[o].driver = d THEN {<<o, "HANDOFF">>} ELSE {})
  BY HeldAfter
<1>2. /\ assignments'[o].driver = d => <<o, "CUSTODY">> \in Held(d)
      /\ replacements'[o].driver = d => <<o, "HANDOFF">> \in Held(d)
  BY HeldNow
<1>3. Held(d)' \subseteq Held(d)
  BY <1>1, <1>2
<1>. QED  BY <1>3 DEF Fits

\* A step that names d in one more row of o, when there is room without row x.
LEMMA GivesOne ==
    ASSUME TypeOK, NEW o \in Orders, Only(o), NEW d, NEW x,
           Cardinality(Held(d) \ {x}) < 2,
           \/ /\ x = <<o, "CUSTODY">>
              /\ replacements'[o].driver = d => replacements[o].driver = d
           \/ /\ x = <<o, "HANDOFF">>
              /\ assignments'[o].driver = d => assignments[o].driver = d
           \/ /\ x = <<o, "HANDOFF">>
              /\ replacements'[o].driver # d
    PROVE  Fits(d)
<1>1. CASE x = <<o, "CUSTODY">>
  <2>1. Held(d)' \subseteq (Held(d) \ {x}) \cup {<<o, "CUSTODY">>}
    BY <1>1, HeldAfter, HeldNow
  <2>. QED  BY <2>1 DEF Fits
<1>2. CASE x = <<o, "HANDOFF">> /\ replacements'[o].driver # d
  <2>1. Held(d)' \subseteq (Held(d) \ {x}) \cup {<<o, "CUSTODY">>}
    BY <1>2, HeldAfter, HeldNow
  <2>. QED  BY <2>1 DEF Fits
<1>3. CASE x = <<o, "HANDOFF">> /\ (assignments'[o].driver = d => assignments[o].driver = d)
  <2>1. Held(d)' \subseteq (Held(d) \ {x}) \cup {<<o, "HANDOFF">>}
    BY <1>3, HeldAfter, HeldNow
  <2>. QED  BY <2>1 DEF Fits
<1>. QED  BY <1>1, <1>2, <1>3

\* Leaving a row out leaves no more.
LEMMA RoomWithout ==
    ASSUME NEW d, NEW x
    PROVE  /\ Load(d) < 2 => Cardinality(Held(d) \ {x}) < 2
           /\ Load(d) <= 2 /\ x \in Held(d) => Cardinality(Held(d) \ {x}) < 2
<1>1. IsFiniteSet(Held(d)) /\ Load(d) \in Nat
  BY LoadIsNat
<1>2. Cardinality(Held(d) \ {x}) = IF x \in Held(d) THEN Load(d) - 1 ELSE Load(d)
  BY <1>1, FS_RemoveElement DEF Load
<1>. QED  BY <1>1, <1>2

LEMMA OfferFits ==
    ASSUME TypeOK, Capacity, NEW o \in Orders, Sound(o), OfferCommand(o), NEW e \in Drivers
    PROVE  Fits(e)
<1>1. Only(o)
  BY CommandWrites
<1>2. Load(e) <= 2
  BY DEF Capacity
<1>3. assignments[o] \in AssignmentRow /\ replacements[o] \in AssignmentRow
  BY DEF TypeOK
<1>4. CASE \/ Approve(o)
          \/ OpenRound(o)
          \/ StopRound(o)
  BY <1>1, <1>4, GivesNothing
     DEF Approve, OpenRound, StopRound,
         AssignmentOf, NoAssignment
<1>5. ASSUME NEW d \in Drivers, ClaimInitial(o, d) PROVE Fits(e)
  <2>1. replacements'[o] = replacements[o] /\ assignments'[o].driver = d
    BY <1>5, <1>3 DEF ClaimInitial, AssignTo, AssignmentOf, TypeOK
  <2>2. CASE e = d
    <3>1. Load(d) < 2
      BY <1>5 DEF ClaimInitial
    <3>2. Cardinality(Held(d) \ {<<o, "CUSTODY">>}) < 2
      BY <3>1, RoomWithout
    <3>. QED  BY <1>1, <2>1, <2>2, <3>2, GivesOne
  <2>3. CASE e # d
    BY <1>1, <2>1, <2>3, GivesNothing
  <2>. QED  BY <2>2, <2>3
<1>6. ASSUME NEW d \in Drivers, ClaimReplacement(o, d) PROVE Fits(e)
  <2>1. assignments'[o] = assignments[o] /\ replacements'[o].driver = d
    BY <1>6, <1>3 DEF ClaimReplacement, AssignmentOf, TypeOK
  <2>2. CASE e = d
    <3>1. Load(d) < 2
      BY <1>6 DEF ClaimReplacement
    <3>2. Cardinality(Held(d) \ {<<o, "HANDOFF">>}) < 2
      BY <3>1, RoomWithout
    <3>. QED  BY <1>1, <2>1, <2>2, <3>2, GivesOne
  <2>3. CASE e # d
    BY <1>1, <2>1, <2>3, GivesNothing
  <2>. QED  BY <2>2, <2>3
<1>7. ASSUME NEW d \in Drivers, AssignDriver(o, d) PROVE Fits(e)
  <2>1. replacements'[o] = replacements[o] /\ assignments'[o].driver = d
    BY <1>7, <1>3 DEF AssignDriver, AssignTo, AssignmentOf, TypeOK
  <2>2. CASE e = d
    BY <1>7, <1>1, <2>1, <2>2, RoomWithout, GivesOne DEF AssignDriver, HasRoom
  <2>3. CASE e # d
    BY <1>1, <2>1, <2>3, GivesNothing
  <2>. QED  BY <2>2, <2>3
<1>. QED  BY <1>4, <1>5, <1>6, <1>7 DEF OfferCommand

LEMMA DeliveryFits ==
    ASSUME TypeOK, Capacity, NEW o \in Orders, Sound(o), DeliveryCommand(o), NEW e \in Drivers
    PROVE  Fits(e)
<1>1. Only(o)
  BY CommandWrites
<1>2. assignments'[o].driver \in {assignments[o].driver, None}
  <2>1. CASE MarkReady(o)
    BY <2>1 DEF MarkReady
  <2>2. CASE ConfirmArrivalAtStore(o) \/ ConfirmPickup(o)
    <3>1. \E status \in BeforePickup \cup AfterPickup :
             assignments' = [assignments EXCEPT ![o].status = status]
      BY <2>2 DEF ConfirmArrivalAtStore, ConfirmPickup, BeforePickup, AfterPickup
    <3>. QED  BY <3>1 DEF TypeOK, AssignmentRow
  <2>3. ASSUME NEW scope \in {"DRIVER", "DASHBOARD"}, ConfirmArrival(o, scope)
        PROVE  assignments'[o].driver \in {assignments[o].driver, None}
    BY <2>3 DEF ConfirmArrival, TypeOK, AssignmentRow
  <2>4. CASE ConfirmDelivery(o)
    BY <2>4 DEF ConfirmDelivery, NoAssignment, TypeOK
  <2>. QED  BY <2>1, <2>2, <2>3, <2>4 DEF DeliveryCommand
<1>3. UNCHANGED replacements
  BY DEF DeliveryCommand, MarkReady, ConfirmArrivalAtStore, ConfirmPickup, ConfirmArrival,
         ConfirmDelivery
<1>. QED  BY <1>1, <1>2, <1>3, GivesNothing

LEMMA OpsFits ==
    ASSUME TypeOK, Capacity, NEW o \in Orders, Sound(o), OpsCommand(o), NEW e \in Drivers
    PROVE  Fits(e)
<1>1. Only(o)
  BY CommandWrites
<1>2. Load(e) <= 2
  BY DEF Capacity
<1>3. assignments[o] \in AssignmentRow /\ replacements[o] \in AssignmentRow
  BY DEF TypeOK
<1>4. CASE \/ CancelByCustomer(o) \/ CancelByDashboard(o) \/ CancelAfterPickup(o)
          \/ RemoveAndReoffer(o) \/ ReofferAfterPickup(o) \/ CancelHandoff(o)
          \/ StartReturnToStore(o) \/ ConfirmDriverReturn(o) \/ ReopenToPrepare(o)
          \/ ReopenAndReoffer(o)
  <2> DEFINE TakesAway == /\ assignments'[o].driver \in {assignments[o].driver, None}
                          /\ replacements'[o].driver \in {replacements[o].driver, None}
  <2> SUFFICES TakesAway
    BY <1>1, GivesNothing
  <2>1. CASE CancelByCustomer(o) \/ CancelByDashboard(o)
    <3>1. CloseOnCancel(o)
      BY <2>1 DEF CancelByCustomer, CancelByDashboard
    <3>. QED  BY <3>1 DEF CloseOnCancel, CloseHandoff, NoAssignment, TypeOK
  <2>2. CASE CancelAfterPickup(o)
    BY <2>2, <1>3 DEF CancelAfterPickup, CloseHandoff, NoAssignment, TypeOK, AssignmentRow
  <2>3. CASE RemoveAndReoffer(o)
    BY <2>3 DEF RemoveAndReoffer, NoAssignment, TypeOK
  <2>4. CASE CancelHandoff(o)
    BY <2>4 DEF CancelHandoff, CloseHandoff, NoAssignment, TypeOK
  <2>5. CASE StartReturnToStore(o)
    BY <2>5, <1>3 DEF StartReturnToStore, CloseHandoff, NoAssignment, TypeOK, AssignmentRow
  <2>6. CASE ReofferAfterPickup(o) \/ ConfirmDriverReturn(o) \/ ReopenToPrepare(o)
             \/ ReopenAndReoffer(o)
    BY <2>6 DEF ReofferAfterPickup, ConfirmDriverReturn, ReopenToPrepare, ReopenAndReoffer
  <2>. QED  BY <1>4, <2>1, <2>2, <2>3, <2>4, <2>5, <2>6
<1>5. ASSUME NEW scope \in {"MERCHANT", "DASHBOARD"}, ConfirmStoreReturn(o, scope) PROVE Fits(e)
  BY <1>1, <1>5, GivesNothing DEF ConfirmStoreReturn, NoAssignment, TypeOK
<1>6. ASSUME NEW d \in Drivers, RemoveAndAssign(o, d) PROVE Fits(e)
  <2>1. replacements'[o] = replacements[o] /\ assignments'[o].driver = d
    BY <1>6, <1>3 DEF RemoveAndAssign, AssignmentOf, TypeOK
  <2>2. CASE e = d
    BY <1>6, <1>1, <2>1, <2>2, GivesOne DEF RemoveAndAssign
  <2>3. CASE e # d
    BY <1>1, <2>1, <2>3, GivesNothing
  <2>. QED  BY <2>2, <2>3
<1>7. ASSUME NEW d \in Drivers, StartHandoff(o, d) PROVE Fits(e)
  <2>1. assignments'[o] = assignments[o] /\ replacements'[o].driver = d
    BY <1>7, <1>3 DEF StartHandoff, AssignmentOf, TypeOK
  <2>2. CASE e = d
    BY <1>7, <1>1, <2>1, <2>2, RoomWithout, GivesOne DEF StartHandoff, HasRoom
  <2>3. CASE e # d
    BY <1>1, <2>1, <2>3, GivesNothing
  <2>. QED  BY <2>2, <2>3
<1>8. ASSUME CompleteHandoff(o) PROVE Fits(e)
  <2>1. replacements'[o].driver = None /\ assignments'[o].driver = replacements[o].driver
    BY <1>8, <1>3 DEF CompleteHandoff, CloseHandoff, NoAssignment, TypeOK, AssignmentRow
  <2>2. CASE replacements[o].driver = e
    BY <1>1, <1>2, <2>1, <2>2, HeldNow, RoomWithout, GivesOne
  <2>3. CASE replacements[o].driver # e
    BY <1>1, <2>1, <2>3, GivesNothing
  <2>. QED  BY <2>2, <2>3
<1>9. ASSUME NEW d \in Drivers, ReopenAndAssign(o, d) PROVE Fits(e)
  <2>1. replacements'[o] = replacements[o] /\ assignments'[o].driver = d
    BY <1>9, <1>3 DEF ReopenAndAssign, AssignmentOf, TypeOK
  <2>2. CASE e = d
    BY <1>9, <1>1, <2>1, <2>2, RoomWithout, GivesOne DEF ReopenAndAssign, HasRoom
  <2>3. CASE e # d
    BY <1>1, <2>1, <2>3, GivesNothing
  <2>. QED  BY <2>2, <2>3
<1>. QED  BY <1>4, <1>5, <1>6, <1>7, <1>8, <1>9 DEF OpsCommand

LEMMA CapacityStep == IInv /\ Capacity /\ [Next]_vars => Capacity'
<1> SUFFICES ASSUME IInv, Capacity, [Next]_vars, NEW d \in Drivers PROVE Load(d)' <= 2
  BY DEF Capacity
<1>1. CASE UNCHANGED vars
  BY <1>1 DEF Capacity, vars, Load, Held
<1>2. CASE Next
  <2>1. PICK o \in Orders : OfferCommand(o) \/ DeliveryCommand(o) \/ OpsCommand(o)
    BY <1>2 DEF Next, OfferNext, DeliveryNext, OpsNext
  <2>2. TypeOK /\ Sound(o) /\ Load(d) <= 2
    BY DEF IInv, Capacity
  <2>3. Fits(d)
    BY <2>1, <2>2, OfferFits, DeliveryFits, OpsFits
  <2>. QED  BY <2>2, <2>3, FitsIsEnough
<1>. QED  BY <1>1, <1>2

\* Nobody ever holds three orders, however many orders and drivers there are and
\* however claims, assignments, handoffs and reopenings follow one another.
THEOREM CapacityHolds == Spec => []Capacity
<1>1. Init => Capacity
  <2> SUFFICES ASSUME Init, NEW d \in Drivers PROVE Load(d) <= 2
    BY DEF Capacity
  <2>1. Held(d) = {}
    BY DEF Init, Held, NoAssignment
  <2>. QED  BY <2>1, FS_EmptySet DEF Load
<1>. QED  BY <1>1, CapacityStep, Invariance, PTL DEF Spec

----------------------------------------------------------------------------
(* The locked fee. *)

FeeStays(o) == orders[o].fee # None => orders'[o].fee = orders[o].fee

LEMMA OfferKeepsFee ==
    ASSUME TypeOK, NEW o \in Orders, OfferCommand(o) PROVE FeeStays(o)
<1>1. orders[o] \in OrderRow
  BY DEF TypeOK
<1>2. CASE Approve(o) \/ OpenRound(o) \/ StopRound(o)
  <2>1. \/ UNCHANGED orders
        \/ orders' = [orders EXCEPT ![o].status = "SEARCHING_DRIVER"]
    BY <1>2 DEF Approve, OpenRound, StopRound
  <2>. QED  BY <1>1, <2>1 DEF TypeOK, FeeStays, OrderRow
<1>3. ASSUME NEW d \in Drivers, ClaimInitial(o, d) \/ AssignDriver(o, d) PROVE FeeStays(o)
  <2>1. PICK fee \in FeeChoices(o) :
          orders' = [orders EXCEPT ![o].status = StatusWithDriver(o),
                                   ![o].driver = d, ![o].fee = fee]
    BY <1>3 DEF ClaimInitial, AssignDriver, AssignTo
  <2>. QED  BY <1>1, <2>1 DEF FeeChoices, TypeOK, FeeStays, OrderRow
<1>4. ASSUME NEW d \in Drivers, ClaimReplacement(o, d) PROVE FeeStays(o)
  BY <1>1, <1>4 DEF ClaimReplacement, FeeChoices, TypeOK, FeeStays, OrderRow
<1>. QED  BY <1>2, <1>3, <1>4 DEF OfferCommand

LEMMA DeliveryKeepsFee ==
    ASSUME TypeOK, NEW o \in Orders, DeliveryCommand(o) PROVE FeeStays(o)
<1>1. orders[o] \in OrderRow
  BY DEF TypeOK
<1>2. CASE MarkReady(o)
  BY <1>1, <1>2 DEF MarkReady, TypeOK, FeeStays, OrderRow
<1>3. CASE ConfirmArrivalAtStore(o)
  BY <1>1, <1>3 DEF ConfirmArrivalAtStore, TypeOK, FeeStays, OrderRow
<1>4. CASE ConfirmPickup(o)
  BY <1>1, <1>4 DEF ConfirmPickup, TypeOK, FeeStays, OrderRow
<1>5. ASSUME NEW scope \in {"DRIVER", "DASHBOARD"}, ConfirmArrival(o, scope) PROVE FeeStays(o)
  BY <1>1, <1>5 DEF ConfirmArrival, TypeOK, FeeStays, OrderRow
<1>6. CASE ConfirmDelivery(o)
  BY <1>1, <1>6 DEF ConfirmDelivery, TypeOK, FeeStays, OrderRow
<1>. QED  BY <1>2, <1>3, <1>4, <1>5, <1>6 DEF DeliveryCommand

LEMMA OpsKeepsFee ==
    ASSUME TypeOK, NEW o \in Orders, OpsCommand(o) PROVE FeeStays(o)
<1>1. orders[o] \in OrderRow
  BY DEF TypeOK
<1>2. CASE \/ CancelHandoff(o) \/ StartReturnToStore(o) \/ ConfirmDriverReturn(o)
  BY <1>2 DEF CancelHandoff, StartReturnToStore, ConfirmDriverReturn, FeeStays
<1>3. CASE CancelByCustomer(o) \/ CancelByDashboard(o)
  <2>1. CloseOnCancel(o)
    BY <1>3 DEF CancelByCustomer, CancelByDashboard
  <2>. QED  BY <1>1, <2>1 DEF CloseOnCancel, TypeOK, FeeStays, OrderRow
<1>4. CASE CancelAfterPickup(o)
  BY <1>1, <1>4 DEF CancelAfterPickup, TypeOK, FeeStays, OrderRow
<1>5. CASE RemoveAndReoffer(o)
  BY <1>1, <1>5 DEF RemoveAndReoffer, LockedFee, TypeOK, FeeStays, OrderRow
<1>6. ASSUME NEW d \in Drivers, RemoveAndAssign(o, d) PROVE FeeStays(o)
  BY <1>1, <1>6 DEF RemoveAndAssign, LockedFee, TypeOK, FeeStays, OrderRow
<1>7. ASSUME NEW d \in Drivers, StartHandoff(o, d) PROVE FeeStays(o)
  BY <1>1, <1>7 DEF StartHandoff, LockedFee, TypeOK, FeeStays, OrderRow
<1>8. CASE ReofferAfterPickup(o)
  BY <1>1, <1>8 DEF ReofferAfterPickup, LockedFee, TypeOK, FeeStays, OrderRow
<1>9. CASE CompleteHandoff(o)
  BY <1>1, <1>9 DEF CompleteHandoff, HandedOver, TypeOK, FeeStays, OrderRow
<1>10. ASSUME NEW scope \in {"MERCHANT", "DASHBOARD"}, ConfirmStoreReturn(o, scope)
       PROVE  FeeStays(o)
  BY <1>1, <1>10 DEF ConfirmStoreReturn, TypeOK, FeeStays, OrderRow
<1>11. CASE ReopenToPrepare(o)
  BY <1>1, <1>11 DEF ReopenToPrepare, TypeOK, FeeStays, OrderRow
<1>12. CASE ReopenAndReoffer(o)
  BY <1>1, <1>12 DEF ReopenAndReoffer, TypeOK, FeeStays, OrderRow
<1>13. ASSUME NEW d \in Drivers, ReopenAndAssign(o, d) PROVE FeeStays(o)
  BY <1>1, <1>13 DEF ReopenAndAssign, TypeOK, FeeStays, OrderRow
<1>. QED  BY <1>2, <1>3, <1>4, <1>5, <1>6, <1>7, <1>8, <1>9, <1>10, <1>11, <1>12, <1>13
         DEF OpsCommand

LEMMA FeeStep ==
    ASSUME IInv, [Next]_vars, NEW p \in Orders PROVE FeeStays(p)
<1>1. CASE UNCHANGED vars
  BY <1>1 DEF vars, FeeStays
<1>2. CASE Next
  <2>1. PICK o \in Orders : OfferCommand(o) \/ DeliveryCommand(o) \/ OpsCommand(o)
    BY <1>2 DEF Next, OfferNext, DeliveryNext, OpsNext
  <2>2. TypeOK /\ Sound(o)
    BY DEF IInv
  <2>3. CASE p = o
    BY <2>1, <2>2, <2>3, OfferKeepsFee, DeliveryKeepsFee, OpsKeepsFee
  <2>4. CASE p # o
    <3>1. Only(o)
      BY <2>1, <2>2, CommandWrites
    <3>. QED  BY <2>2, <2>4, <3>1 DEF Only, TypeOK, FeeStays
  <2>. QED  BY <2>3, <2>4
<1>. QED  BY <1>1, <1>2

\* A fee once locked is never changed by any command of the three services.
THEOREM FeeNeverChanges == Spec => FeeStaysLocked
<1>1. IInv /\ [Next]_vars =>
        [\A o \in Orders : orders[o].fee # None => orders[o].fee' = orders[o].fee]_vars
  BY FeeStep DEF FeeStays
<1>. QED  BY <1>1, Invariance, PTL DEF Spec, FeeStaysLocked

----------------------------------------------------------------------------
(* The status graph. *)

\* The natural flows: what driver and store do.
LEMMA DeliveryFollowsGraph ==
    ASSUME TypeOK, NEW o \in Orders, DeliveryCommand(o)
    PROVE  Status(o)' # Status(o) => MayTransition(Status(o), Status(o)')
<1> USE DEF Status, MayTransition, Allowed
<1>1. orders[o] \in OrderRow
  BY DEF TypeOK
<1>2. CASE MarkReady(o)
  BY <1>1, <1>2 DEF MarkReady, StatusWhenReady, MayMarkReady, TypeOK, OrderRow
<1>3. CASE ConfirmArrivalAtStore(o)
  BY <1>1, <1>3 DEF ConfirmArrivalAtStore, MayConfirmArrivalAtStore, TypeOK, OrderRow
<1>4. CASE ConfirmPickup(o)
  BY <1>1, <1>4 DEF ConfirmPickup, MayConfirmPickup, TypeOK, OrderRow
<1>5. ASSUME NEW scope \in {"DRIVER", "DASHBOARD"}, ConfirmArrival(o, scope)
      PROVE  MayTransition(Status(o), Status(o)')
  BY <1>1, <1>5 DEF ConfirmArrival, MayConfirmArrival, TypeOK, OrderRow
<1>6. CASE ConfirmDelivery(o)
  BY <1>1, <1>6 DEF ConfirmDelivery, MayConfirmDelivery, TypeOK, OrderRow
<1>. QED  BY <1>2, <1>3, <1>4, <1>5, <1>6 DEF DeliveryCommand

LEMMA OfferFollowsGraph ==
    ASSUME TypeOK, NEW o \in Orders, Sound(o), OfferCommand(o)
    PROVE  Status(o)' # Status(o) => MayOpsTransition(Status(o), Status(o)')
<1> USE DEF Status, MayOpsTransition, Allowed, OpsAllowed
<1>1. orders[o] \in OrderRow
  BY DEF TypeOK
<1>2. CASE Approve(o) \/ OpenRound(o) \/ StopRound(o)
  <2>1. \/ Status(o)' = Status(o)
        \/ /\ Status(o) \in {"PENDING_STORE_APPROVAL", "APPROVED_BY_STORE", "SEARCHING_DRIVER"}
           /\ Status(o)' = "SEARCHING_DRIVER"
    <3>1. CASE Approve(o)
      BY <1>1, <3>1 DEF Approve, MayApprove, TypeOK, OrderRow
    <3>2. CASE OpenRound(o)
      BY <1>1, <3>2 DEF OpenRound, TypeOK, OrderRow
    <3>3. CASE StopRound(o)
      BY <3>3 DEF StopRound
    <3>. QED  BY <1>2, <3>1, <3>2, <3>3
  <2>. QED  BY <2>1
<1>3. ASSUME NEW d \in Drivers, ClaimInitial(o, d) \/ AssignDriver(o, d)
      PROVE  MayOpsTransition(Status(o), Status(o)')
  <2>1. PICK fee, sequence : AssignTo(o, d, sequence, fee)
    BY <1>3 DEF ClaimInitial, AssignDriver
  <2>2. Status(o)' \in {"READY_FOR_PICKUP", "DRIVER_ASSIGNED"}
    BY <1>1, <2>1 DEF AssignTo, StatusWithDriver, TypeOK, OrderRow
  <2>3. Status(o) = "SEARCHING_DRIVER"
    BY <1>3 DEF ClaimInitial, AssignDriver, Sound, PhaseIsExact
  <2>. QED  BY <2>2, <2>3
<1>4. ASSUME NEW d \in Drivers, ClaimReplacement(o, d) PROVE Status(o)' = Status(o)
  BY <1>1, <1>4 DEF ClaimReplacement, TypeOK, OrderRow
<1>. QED  BY <1>2, <1>3, <1>4 DEF OfferCommand

LEMMA OpsFollowsGraph ==
    ASSUME TypeOK, NEW o \in Orders, Sound(o), OpsCommand(o)
    PROVE  Status(o)' # Status(o) => MayOpsTransition(Status(o), Status(o)')
<1> DEFINE Follows == Status(o)' # Status(o) => MayOpsTransition(Status(o), Status(o)')
<1> SUFFICES Follows
  OBVIOUS
<1> USE DEF Status, MayOpsTransition, Allowed, OpsAllowed
<1>1. orders[o] \in OrderRow
  BY DEF TypeOK
<1>2. CASE CancelByCustomer(o)
  BY <1>1, <1>2 DEF CancelByCustomer, CloseOnCancel, CustomerMayCancel, TypeOK, OrderRow, OrderStatuses
<1>3. CASE CancelByDashboard(o)
  BY <1>1, <1>3 DEF CancelByDashboard, CloseOnCancel, DashboardMayCancel, IsTerminal, TypeOK, OrderRow, OrderStatuses
<1>4. CASE CancelAfterPickup(o)
  BY <1>1, <1>4 DEF CancelAfterPickup, DashboardMayCancel, IsTerminal, TypeOK, OrderRow, OrderStatuses
<1>5. CASE RemoveAndReoffer(o)
  BY <1>1, <1>5 DEF RemoveAndReoffer, MayRemoveDriver, TypeOK, OrderRow, OrderStatuses
<1>6. ASSUME NEW d \in Drivers, RemoveAndAssign(o, d) PROVE Follows
  BY <1>1, <1>6 DEF RemoveAndAssign, MayRemoveDriver, TypeOK, OrderRow, OrderStatuses
<1>7. ASSUME NEW d \in Drivers, StartHandoff(o, d) PROVE Follows
  BY <1>1, <1>7 DEF StartHandoff, TypeOK, OrderRow, OrderStatuses
<1>8. CASE ReofferAfterPickup(o)
  BY <1>1, <1>8 DEF ReofferAfterPickup, TypeOK, OrderRow, OrderStatuses
<1>9. CASE CancelHandoff(o)
  BY <1>1, <1>9 DEF CancelHandoff, TypeOK, OrderRow, OrderStatuses
<1>10. CASE CompleteHandoff(o)
  BY <1>1, <1>10 DEF CompleteHandoff, HandedOver, TypeOK, OrderRow, OrderStatuses
<1>11. CASE StartReturnToStore(o)
  BY <1>1, <1>11 DEF StartReturnToStore, TypeOK, OrderRow, OrderStatuses
<1>12. CASE ConfirmDriverReturn(o)
  BY <1>1, <1>12 DEF ConfirmDriverReturn, TypeOK, OrderRow, OrderStatuses
<1>13. ASSUME NEW scope \in {"MERCHANT", "DASHBOARD"}, ConfirmStoreReturn(o, scope) PROVE Follows
  BY <1>1, <1>13 DEF ConfirmStoreReturn, AwaitsReturn, AfterPickup, TypeOK, OrderRow, OrderStatuses
<1>14. CASE ReopenToPrepare(o)
  BY <1>1, <1>14 DEF ReopenToPrepare, MayReopen, TypeOK, OrderRow, OrderStatuses
<1>15. CASE ReopenAndReoffer(o)
  BY <1>1, <1>15 DEF ReopenAndReoffer, MayReopen, TypeOK, OrderRow, OrderStatuses
<1>16. ASSUME NEW d \in Drivers, ReopenAndAssign(o, d) PROVE Follows
  BY <1>1, <1>16 DEF ReopenAndAssign, MayReopen, TypeOK, OrderRow, OrderStatuses
<1>. QED  BY <1>2, <1>3, <1>4, <1>5, <1>6, <1>7, <1>8, <1>9, <1>10, <1>11, <1>12, <1>13, <1>14, <1>15, <1>16
         DEF OpsCommand

LEMMA StatusStep ==
    ASSUME IInv, [Next]_vars, NEW p \in Orders, Status(p)' # Status(p)
    PROVE  \/ MayTransition(Status(p), Status(p)')
           \/ ~DeliveryNext /\ MayOpsTransition(Status(p), Status(p)')
<1>1. ASSUME NEW o \in Orders, OfferCommand(o) \/ DeliveryCommand(o) \/ OpsCommand(o)
      PROVE  p = o
  <2>1. Only(o)
    BY <1>1, CommandWrites DEF IInv
  <2>. QED  BY <2>1 DEF Only, IInv, TypeOK, Status
<1>2. CASE DeliveryNext
  <2>1. DeliveryCommand(p)
    BY <1>1, <1>2 DEF DeliveryNext
  <2>. QED  BY <2>1, DeliveryFollowsGraph DEF IInv
<1>3. CASE ~DeliveryNext
  <2>1. OfferCommand(p) \/ OpsCommand(p)
    <3>1. Next
      BY DEF vars, Status
    <3>. QED  BY <1>1, <1>3, <3>1 DEF Next, OfferNext, OpsNext
  <2>. QED  BY <1>3, <2>1, OfferFollowsGraph, OpsFollowsGraph DEF IInv
<1>. QED  BY <1>2, <1>3

\* Every status written follows the one it found in the graph: the assertions of
\* order-state-machine.ts never refuse a command that its other guards let through.
THEOREM StatusCorrect == Spec => StatusFollowsGraph
<1>1. IInv /\ [Next]_vars =>
        [\A o \in Orders : Status(o)' # Status(o) =>
           \/ MayTransition(Status(o), Status(o)')
           \/ ~DeliveryNext /\ MayOpsTransition(Status(o), Status(o)')]_vars
  BY StatusStep
<1>. QED  BY <1>1, Invariance, PTL DEF Spec, StatusFollowsGraph

----------------------------------------------------------------------------
(* The outbox. *)

\* A command that opens or closes the round of o says so.
TellsRound(o) == rounds'[o].open # rounds[o].open => outbox'.city

\* A command that changes a row of o in which d is named says so, unless it withdraws a
\* handoff to d because the order is cancelled.
Withdrawn(o, d) ==
    /\ handoffs[o].to = d /\ ~handoffs'[o].pending
    /\ Status(o)' = "CANCELLED" /\ Status(o) # "CANCELLED"
TellsDriver(o, d) ==
    \/ /\ assignments'[o].driver = d <=> assignments[o].driver = d
       /\ replacements'[o].driver = d <=> replacements[o].driver = d
    \/ d \in outbox'.drivers
    \/ Withdrawn(o, d)

\* The load of d changes with those two rows only.
LEMMA LoadByRows ==
    ASSUME TypeOK, NEW o \in Orders, Only(o), NEW d,
           assignments'[o].driver = d <=> assignments[o].driver = d,
           replacements'[o].driver = d <=> replacements[o].driver = d
    PROVE  Load(d)' = Load(d)
<1>1. Held(d)' = (Held(d) \ {<<o, "CUSTODY">>, <<o, "HANDOFF">>})
                 \cup (IF assignments'[o].driver = d THEN {<<o, "CUSTODY">>} ELSE {})
                 \cup (IF replacements'[o].driver = d THEN {<<o, "HANDOFF">>} ELSE {})
  BY HeldAfter
<1>2. /\ <<o, "CUSTODY">> \in Held(d) <=> assignments'[o].driver = d
      /\ <<o, "HANDOFF">> \in Held(d) <=> replacements'[o].driver = d
  BY HeldNow
<1>3. Held(d)' = Held(d)
  BY <1>1, <1>2
<1>. QED  BY <1>3 DEF Load

LEMMA OfferTells ==
    ASSUME TypeOK, NEW o \in Orders, OfferCommand(o), NEW d, Sound(o)
    PROVE  TellsRound(o) /\ (d \in Drivers => TellsDriver(o, d))
<1> DEFINE Tells == TellsRound(o) /\ (d \in Drivers => TellsDriver(o, d))
<1>1. CASE Approve(o) \/ OpenRound(o) \/ StopRound(o)
  BY <1>1 DEF Approve, OpenRound, StopRound, Enqueue, TellsRound, TellsDriver
<1>2. ASSUME NEW e \in Drivers, ClaimInitial(o, e) PROVE Tells
  BY <1>2 DEF ClaimInitial, AssignTo, AssignmentOf, HasAssignment, Sound, WellFormed, NoAssignment,
     Enqueue, TellsRound, TellsDriver, TypeOK
<1>3. ASSUME NEW e \in Drivers, ClaimReplacement(o, e) PROVE Tells
  BY <1>3 DEF ClaimReplacement, AssignmentOf, HasReplacement, Sound, WellFormed, NoAssignment,
     Enqueue, TellsRound, TellsDriver, TypeOK
<1>4. ASSUME NEW e \in Drivers, AssignDriver(o, e) PROVE Tells
  BY <1>4 DEF AssignDriver, AssignTo, AssignmentOf, HasAssignment, Sound, WellFormed, NoAssignment,
     Enqueue, TellsRound, TellsDriver, TypeOK
<1>. QED  BY <1>1, <1>2, <1>3, <1>4 DEF OfferCommand

LEMMA DeliveryTells ==
    ASSUME TypeOK, NEW o \in Orders, DeliveryCommand(o), NEW d, Sound(o)
    PROVE  TellsRound(o) /\ (d \in Drivers => TellsDriver(o, d))
<1> DEFINE Tells == TellsRound(o) /\ (d \in Drivers => TellsDriver(o, d))
<1>1. assignments[o] \in AssignmentRow
  BY DEF TypeOK
<1>2. CASE MarkReady(o)
  BY <1>2 DEF MarkReady, TellsRound, TellsDriver
<1>3. CASE ConfirmArrivalAtStore(o)
  BY <1>3, <1>1 DEF ConfirmArrivalAtStore, TellsRound, TellsDriver, TypeOK, AssignmentRow
<1>4. CASE ConfirmPickup(o)
  BY <1>4, <1>1 DEF ConfirmPickup, TellsRound, TellsDriver, TypeOK, AssignmentRow
<1>5. ASSUME NEW scope \in {"DRIVER", "DASHBOARD"}, ConfirmArrival(o, scope)
      PROVE  Tells
  BY <1>5, <1>1 DEF ConfirmArrival, TellsRound, TellsDriver, TypeOK, AssignmentRow
<1>6. CASE ConfirmDelivery(o)
  BY <1>6, <1>1 DEF ConfirmDelivery, NoAssignment, Enqueue, TellsRound, TellsDriver, TypeOK
<1>. QED  BY <1>2, <1>3, <1>4, <1>5, <1>6 DEF DeliveryCommand

LEMMA OpsTells ==
    ASSUME TypeOK, NEW o \in Orders, OpsCommand(o), NEW d, Sound(o)
    PROVE  TellsRound(o) /\ (d \in Drivers => TellsDriver(o, d))
<1> DEFINE Tells == TellsRound(o) /\ (d \in Drivers => TellsDriver(o, d))
<1>1. /\ assignments[o] \in AssignmentRow /\ replacements[o] \in AssignmentRow
      /\ rounds[o] \in RoundRow /\ handoffs[o] \in HandoffRow
  BY DEF TypeOK
<1> USE DEF TellsRound, TellsDriver, TypeOK, NoAssignment, NoHandoff
<1>2. CASE CancelByCustomer(o) \/ CancelByDashboard(o)
  <2>1. CloseOnCancel(o) /\ Status(o) # "CANCELLED" /\ Custody(o) # "WITH_DRIVER"
    BY <1>2 DEF CancelByCustomer, CancelByDashboard, CustomerMayCancel, DashboardMayCancel,
       IsTerminal, Sound, PhaseAgreesFor,
       CustodyAgreesFor, HasAssignment, AfterPickup
  <2>2. ~handoffs[o].pending /\ ~HasReplacement(o)
    BY <2>1 DEF Sound, HandoffAgreesFor, CustodyAgreesFor
  <2>3. replacements'[o] = replacements[o]
    BY <2>1, <2>2 DEF CloseOnCancel, CloseHandoff, Sound, WellFormed
  <2>4. assignments'[o].driver = None /\ outbox'.drivers = {assignments[o].driver} \ {None}
    BY <2>1, <1>1 DEF CloseOnCancel, Enqueue
  <2>5. TellsRound(o)
    BY <2>1, <1>1 DEF CloseOnCancel, CloseRound, Enqueue, RoundRow
  <2>. QED  BY <2>3, <2>4, <2>5
<1>3. CASE CancelAfterPickup(o)
  <2>1. /\ assignments'[o].driver = assignments[o].driver
        /\ replacements'[o].driver = None /\ ~handoffs'[o].pending
        /\ Status(o)' = "CANCELLED"
    BY <1>3, <1>1 DEF CancelAfterPickup, CloseHandoff, AssignmentRow, Status
  <2>2. replacements[o].driver = d => handoffs[o].to = d
    BY DEF Sound, WellFormed, HandoffAgreesFor, HasReplacement
  <2>3. Status(o) # "CANCELLED"
    BY <1>3 DEF CancelAfterPickup, DashboardMayCancel, IsTerminal
  <2>4. TellsRound(o)
    BY <1>3, <1>1 DEF CancelAfterPickup, CloseRound, Enqueue, RoundRow
  <2>. QED  BY <2>1, <2>2, <2>3, <2>4 DEF Withdrawn
<1>4. CASE RemoveAndReoffer(o)
  BY <1>4, <1>1 DEF RemoveAndReoffer, Enqueue
<1>5. ASSUME NEW e \in Drivers, RemoveAndAssign(o, e) PROVE Tells
  BY <1>5, <1>1 DEF RemoveAndAssign, Enqueue, AssignmentOf
<1>6. ASSUME NEW e \in Drivers, StartHandoff(o, e) PROVE Tells
  BY <1>6, <1>1 DEF StartHandoff, Enqueue, AssignmentOf, Sound, WellFormed
<1>7. CASE ReofferAfterPickup(o) \/ ConfirmDriverReturn(o) \/ ReopenToPrepare(o)
           \/ ReopenAndReoffer(o)
  BY <1>7 DEF ReofferAfterPickup, ConfirmDriverReturn, ReopenToPrepare, ReopenAndReoffer, Enqueue
<1>8. CASE CancelHandoff(o)
  <2>1. replacements[o].driver = handoffs[o].to
    BY <1>8 DEF CancelHandoff, Sound, HandoffAgreesFor
  <2>. QED  BY <1>8, <2>1 DEF CancelHandoff, CloseHandoff, Enqueue
<1>9. CASE CompleteHandoff(o)
  <2>1. replacements[o].driver = handoffs[o].to /\ assignments[o].driver = handoffs[o].from
    BY <1>9 DEF CompleteHandoff, Sound, HandoffAgreesFor
  <2>. QED  BY <1>9, <1>1, <2>1 DEF CompleteHandoff, CloseHandoff, Enqueue, AssignmentRow
<1>10. CASE StartReturnToStore(o)
  <2>1. replacements[o].driver = d => handoffs[o].to = d
    BY DEF Sound, WellFormed, HandoffAgreesFor, HasReplacement
  <2>. QED  BY <1>10, <1>1, <2>1
            DEF StartReturnToStore, TrackedOnReturn, CloseHandoff, Enqueue, AssignmentRow
<1>11. ASSUME NEW scope \in {"MERCHANT", "DASHBOARD"}, ConfirmStoreReturn(o, scope) PROVE Tells
  <2>1. returns[o].driver = assignments[o].driver
    BY <1>11 DEF ConfirmStoreReturn, Sound, ReturnAgreesFor
  <2>. QED  BY <1>11, <2>1 DEF ConfirmStoreReturn, Enqueue
<1>12. ASSUME NEW e \in Drivers, ReopenAndAssign(o, e) PROVE Tells
  BY <1>12, <1>1 DEF ReopenAndAssign, AssignmentOf, Enqueue, Sound, WellFormed
<1>. QED  BY <1>2, <1>3, <1>4, <1>5, <1>6, <1>7, <1>8, <1>9, <1>10, <1>11, <1>12
          DEF OpsCommand

LEMMA TellsStep ==
    ASSUME IInv, Next
    PROVE  \E o \in Orders : Only(o) /\ TellsRound(o) /\ \A d \in Drivers : TellsDriver(o, d)
<1>1. PICK o \in Orders : OfferCommand(o) \/ DeliveryCommand(o) \/ OpsCommand(o)
  BY DEF Next, OfferNext, DeliveryNext, OpsNext
<1>2. TypeOK /\ Sound(o)
  BY DEF IInv
<1>3. Only(o)
  BY <1>1, <1>2, CommandWrites
<1>4. TellsRound(o) /\ \A d \in Drivers : TellsDriver(o, d)
  BY <1>1, <1>2, OfferTells, DeliveryTells, OpsTells
<1>. QED  BY <1>3, <1>4

LEMMA RoundsAreTold ==
    IInv /\ [Next]_vars =>
        [(\E o \in Orders : rounds[o].open' # rounds[o].open) => outbox'.city]_vars
<1> SUFFICES ASSUME IInv, Next, NEW p \in Orders, rounds[p].open' # rounds[p].open
             PROVE  outbox'.city
  OBVIOUS
<1>1. PICK o \in Orders : Only(o) /\ TellsRound(o)
  BY TellsStep
<1>2. p = o
  BY <1>1 DEF Only, IInv, TypeOK
<1>. QED  BY <1>1, <1>2 DEF TellsRound

\* A round never opens or closes without the job that brings the city's index up to
\* date in the same commit, in any of the commands of the three services.
THEOREM RoundChangesCorrect == Spec => RoundChangesAreEnqueued
BY RoundsAreTold, Invariance, PTL DEF Spec, RoundChangesAreEnqueued

LEMMA LoadsAreTold ==
    IInv /\ [Next]_vars =>
        [\A d \in Drivers : Load(d)' # Load(d) =>
             \/ d \in outbox'.drivers
             \/ \E o \in Orders : /\ handoffs[o].to = d /\ ~handoffs'[o].pending
                                  /\ Status(o)' = "CANCELLED" /\ Status(o) # "CANCELLED"]_vars
<1> SUFFICES ASSUME IInv, Next, NEW d \in Drivers, Load(d)' # Load(d)
             PROVE  d \in outbox'.drivers \/ \E o \in Orders : Withdrawn(o, d)
  BY DEF Withdrawn
<1>1. PICK o \in Orders : Only(o) /\ TellsDriver(o, d)
  BY TellsStep
<1>2. ~ /\ assignments'[o].driver = d <=> assignments[o].driver = d
        /\ replacements'[o].driver = d <=> replacements[o].driver = d
  BY <1>1, LoadByRows DEF IInv
<1>. QED  BY <1>1, <1>2 DEF TellsDriver

\* What a driver holds never changes without the job that brings the driver's runtime
\* state up to date, but for the one command that the run of LoadChangesAreEnqueued
\* finds: a cancellation by the desk that withdraws a pending handoff.
THEOREM LoadChangesCorrect == Spec => OtherLoadChangesAreEnqueued
BY LoadsAreTold, Invariance, PTL DEF Spec, OtherLoadChangesAreEnqueued

----------------------------------------------------------------------------
(* The order services implement CustodyChain: every command maps to one of its *)
(* steps, or to none.                                                          *)

USE ChainAssumption

\* The abstract variables, as Chain maps them.
Places        == [o \in Orders |-> Place(o)]
Announcements == [o \in Orders |-> handoffs[o].to]
Recalls       == [o \in Orders |-> HasActiveReturn(o)]

\* A command that concerns o moves the goods of o alone.
LEMMA MovesOne ==
    ASSUME TypeOK, NEW o \in Orders, Only(o)
    PROVE  /\ Places' = [Places EXCEPT ![o] = Place(o)']
           /\ Announcements' = [Announcements EXCEPT ![o] = handoffs'[o].to]
           /\ HasActiveReturn(o)'  => Recalls' = [Recalls EXCEPT ![o] = TRUE]
           /\ ~HasActiveReturn(o)' => Recalls' = [Recalls EXCEPT ![o] = FALSE]
<1>1. \A p \in Orders : p # o => /\ orders'[p] = orders[p]
                                 /\ handoffs'[p] = handoffs[p]
                                 /\ returns'[p] = returns[p]
  BY DEF Only, TypeOK
<1>2. \A p \in Orders : p # o => /\ Place(p)' = Place(p)
                                 /\ HasActiveReturn(p)' = HasActiveReturn(p)
  BY <1>1 DEF Place, HasActiveReturn, Custody
<1>3. Places' = [Places EXCEPT ![o] = Place(o)']
  BY <1>2 DEF Places
<1>4. Announcements' = [Announcements EXCEPT ![o] = handoffs'[o].to]
  BY <1>1 DEF Announcements
<1>5. HasActiveReturn(o)' => Recalls' = [Recalls EXCEPT ![o] = TRUE]
  BY <1>2 DEF Recalls
<1>6. ~HasActiveReturn(o)' => Recalls' = [Recalls EXCEPT ![o] = FALSE]
  BY <1>1 DEF Recalls, HasActiveReturn
<1>. QED  BY <1>3, <1>4, <1>5, <1>6

\* What does not change for o does not change at all.
LEMMA StaysOne ==
    ASSUME TypeOK, NEW o \in Orders, Only(o)
    PROVE  /\ Place(o)' = Place(o) => Places' = Places
           /\ handoffs'[o].to = handoffs[o].to => Announcements' = Announcements
           /\ HasActiveReturn(o)' = HasActiveReturn(o) => Recalls' = Recalls
<1>1. \A p \in Orders : p # o => /\ orders'[p] = orders[p]
                                 /\ handoffs'[p] = handoffs[p]
                                 /\ returns'[p] = returns[p]
  BY DEF Only, TypeOK
<1>2. \A p \in Orders : p # o => /\ Place(p)' = Place(p)
                                 /\ HasActiveReturn(p)' = HasActiveReturn(p)
  BY <1>1 DEF Place, HasActiveReturn, Custody
<1>3. Place(o)' = Place(o) => Places' = Places
  BY <1>2 DEF Places
<1>4. handoffs'[o].to = handoffs[o].to => Announcements' = Announcements
  BY <1>1 DEF Announcements
<1>5. HasActiveReturn(o)' = HasActiveReturn(o) => Recalls' = Recalls
  BY <1>2 DEF Recalls
<1>. QED  BY <1>3, <1>4, <1>5

\* What the map makes of a sound order.
LEMMA SoundGoods ==
    ASSUME TypeOK, NEW o \in Orders, Sound(o)
    PROVE  /\ Custody(o) = "WITH_STORE" => Place(o) = "STORE"
           /\ Custody(o) = "WITH_DRIVER" =>
                Place(o) = assignments[o].driver /\ Place(o) \in Drivers
           /\ handoffs[o].pending => /\ handoffs[o].to = replacements[o].driver
                                     /\ handoffs[o].to \in Drivers
                                     /\ Custody(o) = "WITH_DRIVER" /\ ~HasActiveReturn(o)
           /\ ~handoffs[o].pending => handoffs[o].to = None
BY DEF Place, Sound, WellFormed, CustodyAgreesFor, HandoffAgreesFor, ReturnAgreesFor,
       HasAssignment, HasReplacement, NoHandoff, AfterPickup, Custody

\* A step that leaves custody, announcement and recall alone is a stutter.
LEMMA Stutters ==
    ASSUME TypeOK, NEW o \in Orders, Only(o),
           orders'[o].custody = orders[o].custody, orders'[o].holder = orders[o].holder,
           handoffs'[o].to = handoffs[o].to,
           HasActiveReturn(o)' = HasActiveReturn(o)
    PROVE  UNCHANGED Chain!custodyVars
<1>1. Place(o)' = Place(o)
  BY DEF Place, Custody
<1>2. Places' = Places /\ Announcements' = Announcements /\ Recalls' = Recalls
  BY <1>1, StaysOne
<1>. QED  BY <1>2 DEF Chain!custodyVars, Places, Announcements, Recalls

LEMMA OfferRefines ==
    ASSUME TypeOK, NEW o \in Orders, Sound(o), OfferCommand(o)
    PROVE  [Chain!CustodyNext]_(Chain!custodyVars)
<1> USE DEF TypeOK, OrderRow
<1>1. Only(o)
  BY CommandWrites
<1>2. orders[o] \in OrderRow /\ handoffs[o] \in HandoffRow /\ returns[o] \in ReturnRow
  OBVIOUS
<1>3. /\ Places[o] = Place(o) /\ Announcements[o] = handoffs[o].to
      /\ Recalls[o] = HasActiveReturn(o)
  BY DEF Places, Announcements, Recalls
<1>4. /\ Custody(o) = "WITH_STORE" => Place(o) = "STORE"
      /\ Custody(o) = "WITH_DRIVER" => Place(o) = assignments[o].driver /\ Place(o) \in Drivers
      /\ handoffs[o].pending => /\ handoffs[o].to = replacements[o].driver
                                /\ handoffs[o].to \in Drivers
                                /\ Custody(o) = "WITH_DRIVER" /\ ~HasActiveReturn(o)
      /\ ~handoffs[o].pending => handoffs[o].to = None
  BY SoundGoods
<1>5. CASE Approve(o)
  <2>1. /\ orders'[o].custody = orders[o].custody /\ orders'[o].holder = orders[o].holder
        /\ handoffs'[o].to = handoffs[o].to /\ HasActiveReturn(o)' = HasActiveReturn(o)
    BY <1>5, <1>2 DEF Approve, HasActiveReturn
  <2>. QED  BY <1>1, <2>1, Stutters
<1>6. CASE OpenRound(o)
  <2>1. /\ orders'[o].custody = orders[o].custody /\ orders'[o].holder = orders[o].holder
        /\ handoffs'[o].to = handoffs[o].to /\ HasActiveReturn(o)' = HasActiveReturn(o)
    BY <1>6, <1>2 DEF OpenRound, HasActiveReturn
  <2>. QED  BY <1>1, <2>1, Stutters
<1>7. CASE StopRound(o)
  <2>1. /\ orders'[o].custody = orders[o].custody /\ orders'[o].holder = orders[o].holder
        /\ handoffs'[o].to = handoffs[o].to /\ HasActiveReturn(o)' = HasActiveReturn(o)
    BY <1>7, <1>2 DEF StopRound, HasActiveReturn
  <2>. QED  BY <1>1, <2>1, Stutters
<1>8. ASSUME NEW d \in Drivers, ClaimInitial(o, d)
      PROVE  [Chain!CustodyNext]_(Chain!custodyVars)
  <2>1. /\ orders'[o].custody = orders[o].custody /\ orders'[o].holder = orders[o].holder
        /\ handoffs'[o].to = handoffs[o].to /\ HasActiveReturn(o)' = HasActiveReturn(o)
    BY <1>8, <1>2 DEF ClaimInitial, AssignTo, HasActiveReturn
  <2>. QED  BY <1>1, <2>1, Stutters
<1>9. ASSUME NEW d \in Drivers, ClaimReplacement(o, d)
      PROVE  [Chain!CustodyNext]_(Chain!custodyVars)
  <2>1. /\ Place(o)' = Place(o) /\ Place(o) \in Drivers /\ d # Place(o)
        /\ ~HasActiveReturn(o) /\ HasActiveReturn(o)' = HasActiveReturn(o)
        /\ handoffs[o].to = None /\ handoffs'[o].to = d
    BY <1>9, <1>2, <1>4 DEF ClaimReplacement, Place, Custody, HasActiveReturn, AfterPickup, Sound,
           ReturnAgreesFor
  <2>2. /\ Places' = Places
        /\ Announcements' = [Announcements EXCEPT ![o] = d]
        /\ Recalls' = Recalls
    BY <1>1, <2>1, MovesOne, StaysOne
  <2>3. Chain!Announce(o, d)
    BY <1>3, <2>1, <2>2 DEF Chain!Announce, Chain!WithDriver, Places, Announcements, Recalls
  <2>. QED  BY <2>1, <2>3 DEF Chain!CustodyNext
<1>10. ASSUME NEW d \in Drivers, AssignDriver(o, d)
      PROVE  [Chain!CustodyNext]_(Chain!custodyVars)
  <2>1. /\ orders'[o].custody = orders[o].custody /\ orders'[o].holder = orders[o].holder
        /\ handoffs'[o].to = handoffs[o].to /\ HasActiveReturn(o)' = HasActiveReturn(o)
    BY <1>10, <1>2 DEF AssignDriver, AssignTo, HasActiveReturn
  <2>. QED  BY <1>1, <2>1, Stutters
<1>. QED  BY <1>5, <1>6, <1>7, <1>8, <1>9, <1>10 DEF OfferCommand

LEMMA DeliveryRefines ==
    ASSUME TypeOK, NEW o \in Orders, Sound(o), DeliveryCommand(o)
    PROVE  [Chain!CustodyNext]_(Chain!custodyVars)
<1> USE DEF TypeOK, OrderRow
<1>1. Only(o)
  BY CommandWrites
<1>2. orders[o] \in OrderRow /\ handoffs[o] \in HandoffRow /\ returns[o] \in ReturnRow
  OBVIOUS
<1>3. /\ Places[o] = Place(o) /\ Announcements[o] = handoffs[o].to
      /\ Recalls[o] = HasActiveReturn(o)
  BY DEF Places, Announcements, Recalls
<1>4. /\ Custody(o) = "WITH_STORE" => Place(o) = "STORE"
      /\ Custody(o) = "WITH_DRIVER" => Place(o) = assignments[o].driver /\ Place(o) \in Drivers
      /\ handoffs[o].pending => /\ handoffs[o].to = replacements[o].driver
                                /\ handoffs[o].to \in Drivers
                                /\ Custody(o) = "WITH_DRIVER" /\ ~HasActiveReturn(o)
      /\ ~handoffs[o].pending => handoffs[o].to = None
  BY SoundGoods
<1>5. CASE MarkReady(o)
  <2>1. /\ orders'[o].custody = orders[o].custody /\ orders'[o].holder = orders[o].holder
        /\ handoffs'[o].to = handoffs[o].to /\ HasActiveReturn(o)' = HasActiveReturn(o)
    BY <1>5, <1>2 DEF MarkReady, HasActiveReturn
  <2>. QED  BY <1>1, <2>1, Stutters
<1>6. CASE ConfirmArrivalAtStore(o)
  <2>1. /\ orders'[o].custody = orders[o].custody /\ orders'[o].holder = orders[o].holder
        /\ handoffs'[o].to = handoffs[o].to /\ HasActiveReturn(o)' = HasActiveReturn(o)
    BY <1>6, <1>2 DEF ConfirmArrivalAtStore, HasActiveReturn
  <2>. QED  BY <1>1, <2>1, Stutters
<1>7. CASE ConfirmPickup(o)
  <2>1. /\ Place(o) = "STORE" /\ Place(o)' = assignments[o].driver
        /\ assignments[o].driver \in Drivers
        /\ HasActiveReturn(o)' = HasActiveReturn(o) /\ handoffs'[o].to = handoffs[o].to
    BY <1>7, <1>2, <1>4 DEF ConfirmPickup, MayConfirmPickup, Place, Custody, Status, HasAssignment, HasActiveReturn,
           HasWorkingAssignment, BeforePickup, AfterPickup, Sound, WellFormed, PhaseAgreesFor,
           CustodyAgreesFor, CustodyStatuses
  <2>2. /\ Places' = [Places EXCEPT ![o] = assignments[o].driver]
        /\ Announcements' = Announcements
        /\ Recalls' = Recalls
    BY <1>1, <2>1, MovesOne, StaysOne
  <2>3. Chain!PickUp(o, assignments[o].driver)
    BY <1>3, <2>1, <2>2 DEF Chain!PickUp, Chain!WithDriver, Places, Announcements, Recalls
  <2>. QED  BY <2>1, <2>3 DEF Chain!CustodyNext
<1>8. ASSUME NEW scope \in {"DRIVER", "DASHBOARD"}, ConfirmArrival(o, scope)
      PROVE  [Chain!CustodyNext]_(Chain!custodyVars)
  <2>1. /\ orders'[o].custody = orders[o].custody /\ orders'[o].holder = orders[o].holder
        /\ handoffs'[o].to = handoffs[o].to /\ HasActiveReturn(o)' = HasActiveReturn(o)
    BY <1>8, <1>2 DEF ConfirmArrival, HasActiveReturn
  <2>. QED  BY <1>1, <2>1, Stutters
<1>9. CASE ConfirmDelivery(o)
  <2>1. /\ Place(o) \in Drivers /\ Place(o)' = "CUSTOMER"
        /\ ~HasActiveReturn(o) /\ HasActiveReturn(o)' = HasActiveReturn(o)
        /\ handoffs[o].to = None /\ handoffs'[o].to = handoffs[o].to
    BY <1>9, <1>2, <1>4 DEF ConfirmDelivery, DeliveryNotBlocked, Place, Custody, HasActiveReturn
  <2>2. /\ Places' = [Places EXCEPT ![o] = "CUSTOMER"]
        /\ Announcements' = Announcements
        /\ Recalls' = Recalls
    BY <1>1, <2>1, MovesOne, StaysOne
  <2>3. Chain!Deliver(o)
    BY <1>3, <2>1, <2>2 DEF Chain!Deliver, Chain!WithDriver, Places, Announcements, Recalls
  <2>. QED  BY <2>1, <2>3 DEF Chain!CustodyNext
<1>. QED  BY <1>5, <1>6, <1>7, <1>8, <1>9 DEF DeliveryCommand

LEMMA OpsRefines ==
    ASSUME TypeOK, NEW o \in Orders, Sound(o), OpsCommand(o)
    PROVE  [Chain!CustodyNext]_(Chain!custodyVars)
<1> USE DEF TypeOK, OrderRow
<1>1. Only(o)
  BY CommandWrites
<1>2. orders[o] \in OrderRow /\ handoffs[o] \in HandoffRow /\ returns[o] \in ReturnRow
  OBVIOUS
<1>3. /\ Places[o] = Place(o) /\ Announcements[o] = handoffs[o].to
      /\ Recalls[o] = HasActiveReturn(o)
  BY DEF Places, Announcements, Recalls
<1>4. /\ Custody(o) = "WITH_STORE" => Place(o) = "STORE"
      /\ Custody(o) = "WITH_DRIVER" => Place(o) = assignments[o].driver /\ Place(o) \in Drivers
      /\ handoffs[o].pending => /\ handoffs[o].to = replacements[o].driver
                                /\ handoffs[o].to \in Drivers
                                /\ Custody(o) = "WITH_DRIVER" /\ ~HasActiveReturn(o)
      /\ ~handoffs[o].pending => handoffs[o].to = None
  BY SoundGoods
<1>5. CASE CancelByCustomer(o) \/ CancelByDashboard(o)
  <2>1. CloseOnCancel(o)
    BY <1>5 DEF CancelByCustomer, CancelByDashboard
  <2>2. ~handoffs[o].pending
    BY <1>5, <1>4 DEF CancelByCustomer, CustomerMayCancel, CancelByDashboard, Sound, PhaseIsExact,
       HandoffAgreesFor, AfterPickup, Status, Custody
  <2>3. /\ orders'[o].custody = orders[o].custody /\ orders'[o].holder = orders[o].holder
        /\ handoffs'[o].to = handoffs[o].to /\ HasActiveReturn(o)' = HasActiveReturn(o)
    BY <1>2, <1>4, <2>1, <2>2 DEF CloseOnCancel, CloseHandoff, NoHandoff, HasActiveReturn
  <2>. QED  BY <1>1, <2>3, Stutters
<1>6. CASE CancelAfterPickup(o)
  <2>1. /\ Place(o)' = Place(o) /\ Place(o) \in Drivers
        /\ ~HasActiveReturn(o) /\ HasActiveReturn(o)' /\ handoffs'[o].to = None
    BY <1>6, <1>2, <1>4 DEF CancelAfterPickup, CloseHandoff, NoHandoff, Place, Custody, HasActiveReturn
  <2>2. /\ Places' = Places
        /\ Announcements' = [Announcements EXCEPT ![o] = None]
        /\ Recalls' = [Recalls EXCEPT ![o] = TRUE]
    BY <1>1, <2>1, MovesOne, StaysOne
  <2>3. Chain!Recall(o)
    BY <1>3, <2>1, <2>2 DEF Chain!Recall, Chain!WithDriver, Places, Announcements, Recalls
  <2>. QED  BY <2>1, <2>3 DEF Chain!CustodyNext
<1>7. CASE RemoveAndReoffer(o)
  <2>1. /\ orders'[o].custody = orders[o].custody /\ orders'[o].holder = orders[o].holder
        /\ handoffs'[o].to = handoffs[o].to /\ HasActiveReturn(o)' = HasActiveReturn(o)
    BY <1>7, <1>2 DEF RemoveAndReoffer, HasActiveReturn
  <2>. QED  BY <1>1, <2>1, Stutters
<1>8. ASSUME NEW d \in Drivers, RemoveAndAssign(o, d)
      PROVE  [Chain!CustodyNext]_(Chain!custodyVars)
  <2>1. /\ orders'[o].custody = orders[o].custody /\ orders'[o].holder = orders[o].holder
        /\ handoffs'[o].to = handoffs[o].to /\ HasActiveReturn(o)' = HasActiveReturn(o)
    BY <1>8, <1>2 DEF RemoveAndAssign, HasActiveReturn
  <2>. QED  BY <1>1, <2>1, Stutters
<1>9. ASSUME NEW d \in Drivers, StartHandoff(o, d)
      PROVE  [Chain!CustodyNext]_(Chain!custodyVars)
  <2>1. /\ Place(o)' = Place(o) /\ Place(o) \in Drivers /\ d # Place(o)
        /\ ~HasActiveReturn(o) /\ HasActiveReturn(o)' = HasActiveReturn(o)
        /\ handoffs[o].to = None /\ handoffs'[o].to = d
    BY <1>9, <1>2, <1>4 DEF StartHandoff, Place, Custody, HasActiveReturn, AfterPickup, Sound,
           ReturnAgreesFor
  <2>2. /\ Places' = Places
        /\ Announcements' = [Announcements EXCEPT ![o] = d]
        /\ Recalls' = Recalls
    BY <1>1, <2>1, MovesOne, StaysOne
  <2>3. Chain!Announce(o, d)
    BY <1>3, <2>1, <2>2 DEF Chain!Announce, Chain!WithDriver, Places, Announcements, Recalls
  <2>. QED  BY <2>1, <2>3 DEF Chain!CustodyNext
<1>10. CASE ReofferAfterPickup(o)
  <2>1. /\ orders'[o].custody = orders[o].custody /\ orders'[o].holder = orders[o].holder
        /\ handoffs'[o].to = handoffs[o].to /\ HasActiveReturn(o)' = HasActiveReturn(o)
    BY <1>10, <1>2 DEF ReofferAfterPickup, HasActiveReturn
  <2>. QED  BY <1>1, <2>1, Stutters
<1>11. CASE CancelHandoff(o)
  <2>1. /\ Place(o)' = Place(o) /\ HasActiveReturn(o)' = HasActiveReturn(o)
        /\ handoffs[o].to # None /\ handoffs'[o].to = None
    BY <1>11, <1>2, <1>4 DEF CancelHandoff, CloseHandoff, NoHandoff, Place, Custody, HasActiveReturn
  <2>2. /\ Places' = Places
        /\ Announcements' = [Announcements EXCEPT ![o] = None]
        /\ Recalls' = Recalls
    BY <1>1, <2>1, MovesOne, StaysOne
  <2>3. Chain!Withdraw(o)
    BY <1>3, <2>1, <2>2 DEF Chain!Withdraw, Chain!WithDriver, Places, Announcements, Recalls
  <2>. QED  BY <2>1, <2>3 DEF Chain!CustodyNext
<1>12. CASE CompleteHandoff(o)
  <2>1. /\ Place(o) \in Drivers /\ Place(o)' = handoffs[o].to
        /\ ~HasActiveReturn(o) /\ HasActiveReturn(o)' = HasActiveReturn(o)
        /\ handoffs[o].to # None /\ handoffs'[o].to = None
    BY <1>12, <1>2, <1>4 DEF CompleteHandoff, HandedOver, CloseHandoff, NoHandoff, Place, Custody, HasActiveReturn
  <2>2. /\ Places' = [Places EXCEPT ![o] = handoffs[o].to]
        /\ Announcements' = [Announcements EXCEPT ![o] = None]
        /\ Recalls' = Recalls
    BY <1>1, <2>1, MovesOne, StaysOne
  <2>3. Chain!HandOver(o)
    BY <1>3, <2>1, <2>2 DEF Chain!HandOver, Chain!WithDriver, Places, Announcements, Recalls
  <2>. QED  BY <2>1, <2>3 DEF Chain!CustodyNext
<1>13. CASE StartReturnToStore(o)
  <2>1. /\ Place(o)' = Place(o) /\ Place(o) \in Drivers
        /\ ~HasActiveReturn(o) /\ HasActiveReturn(o)' /\ handoffs'[o].to = None
    BY <1>13, <1>2, <1>4 DEF StartReturnToStore, CloseHandoff, NoHandoff, Place, Custody, HasActiveReturn
  <2>2. /\ Places' = Places
        /\ Announcements' = [Announcements EXCEPT ![o] = None]
        /\ Recalls' = [Recalls EXCEPT ![o] = TRUE]
    BY <1>1, <2>1, MovesOne, StaysOne
  <2>3. Chain!Recall(o)
    BY <1>3, <2>1, <2>2 DEF Chain!Recall, Chain!WithDriver, Places, Announcements, Recalls
  <2>. QED  BY <2>1, <2>3 DEF Chain!CustodyNext
<1>14. CASE ConfirmDriverReturn(o)
  <2>1. /\ orders'[o].custody = orders[o].custody /\ orders'[o].holder = orders[o].holder
        /\ handoffs'[o].to = handoffs[o].to /\ HasActiveReturn(o)' = HasActiveReturn(o)
    BY <1>14, <1>2 DEF ConfirmDriverReturn, HasActiveReturn, ReturnRow
  <2>. QED  BY <1>1, <2>1, Stutters
<1>15. ASSUME NEW scope \in {"MERCHANT", "DASHBOARD"}, ConfirmStoreReturn(o, scope)
      PROVE  [Chain!CustodyNext]_(Chain!custodyVars)
  <2>1. /\ Place(o) \in Drivers /\ Place(o)' = "STORE"
        /\ HasActiveReturn(o) /\ ~HasActiveReturn(o)'
        /\ handoffs'[o].to = handoffs[o].to
    BY <1>15, <1>2, <1>4 DEF ConfirmStoreReturn, AwaitsReturn, Place, Custody, HasActiveReturn
  <2>2. /\ Places' = [Places EXCEPT ![o] = "STORE"]
        /\ Announcements' = Announcements
        /\ Recalls' = [Recalls EXCEPT ![o] = FALSE]
    BY <1>1, <2>1, MovesOne, StaysOne
  <2>3. Chain!BringBack(o)
    BY <1>3, <2>1, <2>2 DEF Chain!BringBack, Chain!WithDriver, Places, Announcements, Recalls
  <2>. QED  BY <2>1, <2>3 DEF Chain!CustodyNext
<1>16. CASE ReopenToPrepare(o)
  <2>1. /\ orders'[o].custody = orders[o].custody /\ orders'[o].holder = orders[o].holder
        /\ handoffs'[o].to = handoffs[o].to /\ HasActiveReturn(o)' = HasActiveReturn(o)
    BY <1>16, <1>2 DEF ReopenToPrepare, HasActiveReturn
  <2>. QED  BY <1>1, <2>1, Stutters
<1>17. CASE ReopenAndReoffer(o)
  <2>1. /\ orders'[o].custody = orders[o].custody /\ orders'[o].holder = orders[o].holder
        /\ handoffs'[o].to = handoffs[o].to /\ HasActiveReturn(o)' = HasActiveReturn(o)
    BY <1>17, <1>2 DEF ReopenAndReoffer, HasActiveReturn
  <2>. QED  BY <1>1, <2>1, Stutters
<1>18. ASSUME NEW d \in Drivers, ReopenAndAssign(o, d)
      PROVE  [Chain!CustodyNext]_(Chain!custodyVars)
  <2>1. /\ orders'[o].custody = orders[o].custody /\ orders'[o].holder = orders[o].holder
        /\ handoffs'[o].to = handoffs[o].to /\ HasActiveReturn(o)' = HasActiveReturn(o)
    BY <1>18, <1>2 DEF ReopenAndAssign, HasActiveReturn
  <2>. QED  BY <1>1, <2>1, Stutters
<1>. QED  BY <1>5, <1>6, <1>7, <1>8, <1>9, <1>10, <1>11, <1>12, <1>13, <1>14, <1>15, <1>16, <1>17, <1>18
         DEF OpsCommand

LEMMA StepRefines == IInv /\ [Next]_vars => [Chain!CustodyNext]_(Chain!custodyVars)
<1> SUFFICES ASSUME IInv, [Next]_vars PROVE [Chain!CustodyNext]_(Chain!custodyVars)
  OBVIOUS
<1>1. CASE UNCHANGED vars
  BY <1>1 DEF vars, Chain!custodyVars, Place, Custody, HasActiveReturn
<1>2. CASE Next
  <2>1. PICK o \in Orders : OfferCommand(o) \/ DeliveryCommand(o) \/ OpsCommand(o)
    BY <1>2 DEF Next, OfferNext, DeliveryNext, OpsNext
  <2>2. TypeOK /\ Sound(o)
    BY DEF IInv
  <2>. QED  BY <2>1, <2>2, OfferRefines, DeliveryRefines, OpsRefines
<1>. QED  BY <1>1, <1>2

\* The goods of every order move only as CustodyChain allows: from the store with a
\* driver, to an announced driver and nobody else, to the customer only when they were
\* neither announced to another nor recalled, and back to the store only after a recall.
THEOREM GoodsAreSafe == Spec => GoodsFollowTheChain
<1>1. Init => Chain!CustodyInit
  <2> SUFFICES ASSUME Init PROVE Chain!CustodyInit
    OBVIOUS
  <2>1. Places = [o \in Orders |-> "STORE"]
    BY DEF Init, Places, Place, Custody
  <2>2. Announcements = [o \in Orders |-> None]
    BY DEF Init, Announcements, NoHandoff
  <2>3. Recalls = [o \in Orders |-> FALSE]
    BY DEF Init, Recalls, HasActiveReturn
  <2>. QED  BY <2>1, <2>2, <2>3 DEF Chain!CustodyInit, Places, Announcements, Recalls
<1>. QED  BY <1>1, StepRefines, Invariance, PTL DEF Spec, GoodsFollowTheChain, Chain!CustodySpec

=============================================================================
