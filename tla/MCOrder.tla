------------------------------ MODULE MCOrder ------------------------------
(***************************************************************************)
(* Instances of OrderSystem for TLC: one order, which the commands that    *)
(* are about one order cannot tell from many.  What only several orders    *)
(* can break, a driver's capacity, is DriverLocks' business for TLC and is *)
(* proved for OrderSystem.                                                 *)
(***************************************************************************)
EXTENDS OrderSystem, TLC

=============================================================================
