--------------------------- MODULE MCLoginSession ---------------------------
(* Small instances of LoginSession for TLC.                                *)
EXTENDS LoginSession, TLC

CONSTANTS ann, o1, o2, t1, t2, t3, q1, q2

OneUser == {ann}
TwoOtps == {o1, o2}
ThreeTokens == {t1, t2, t3}
TwoRequests == {q1, q2}

\* Users, passwords, tokens and requests are each interchangeable.
Symmetry == Permutations(Users) \cup Permutations(OtpIds)
              \cup Permutations(TokenIds) \cup Permutations(Requests)
=============================================================================
