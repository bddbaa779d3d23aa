---------------------------- MODULE MCDelivery -----------------------------
(* A small instance of Delivery for TLC.                                   *)
EXTENDS Delivery

ThreeCodes == 1 .. 3
=============================================================================
