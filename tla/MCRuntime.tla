----------------------------- MODULE MCRuntime ------------------------------
(* Instances of DriverRuntime for TLC. *)
EXTENDS DriverRuntime

\* A TAKE writes BUSY as a command of the desk does that gives the driver an order.
OtherThanTake == CommitKinds \ {"TAKE"}

=============================================================================
