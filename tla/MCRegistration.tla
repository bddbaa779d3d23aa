--------------------------- MODULE MCRegistration ---------------------------
(* A small instance of Registration for TLC.                               *)
EXTENDS Registration, TLC

CONSTANTS ann, bob, q1, q2

TwoEmails == {ann, bob}
BobIsLegacy == {bob}
TwoRequests == {q1, q2}
FourCodes == 1..4
=============================================================================
