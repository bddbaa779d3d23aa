---------------------------- MODULE MCConfluence ----------------------------
(* Small instances of Confluence for TLC.                                  *)
EXTENDS Confluence

TwoTimeframes == {"M15", "H1"}

\* At the threshold of 0.15 on one side, beyond it on the other.
NewsBothWays == {-15, 100}

\* One SMT comparison, and a blackout only outside the session: a blackout
\* rules a SETUP out whatever the rest of the evidence.
Studied(e) ==
    /\ e.smt # Directions
    /\ e.blackout => e.smt = {} /\ ~e.inSession

MCInit ==
    /\ evidence \in {e \in Evidence : Possible(e) /\ Studied(e)}
    /\ result = Unclassified

MCSpec == MCInit /\ [][Next]_vars
=============================================================================
