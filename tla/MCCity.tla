------------------------------- MODULE MCCity -------------------------------
(* Instances of CityOfferIndex for TLC. *)
EXTENDS CityOfferIndex

AllKinds == CommitKinds

=============================================================================
