------------------------------ MODULE Courier -------------------------------
(***************************************************************************)
(* What Registration and LoginSession assume of the delivery of codes: a   *)
(* code that was committed is handed over once; until then it is on its    *)
(* way, and it arrives or is given up.  Nothing else ever reaches a reader.*)
(***************************************************************************)
CONSTANT Codes

VARIABLES
    posted,     \* the codes handed over
    outbox,     \* the codes on their way
    mailbox     \* the codes that somebody can read

vars == <<posted, outbox, mailbox>>

Init ==
    /\ posted = {}
    /\ outbox = {}
    /\ mailbox = {}

Post(c) ==
    /\ c \notin posted
    /\ posted' = posted \cup {c}
    /\ outbox' = outbox \cup {c}
    /\ UNCHANGED mailbox

Deliver(c) ==
    /\ c \in outbox
    /\ outbox' = outbox \ {c}
    /\ mailbox' = mailbox \cup {c}
    /\ UNCHANGED posted

\* A crash of the server may give up several.
Fail(cs) ==
    /\ cs \subseteq outbox
    /\ outbox' = outbox \ cs
    /\ UNCHANGED <<posted, mailbox>>

Next ==
    \/ \E c \in Codes : Post(c) \/ Deliver(c)
    \/ \E cs \in SUBSET Codes : Fail(cs)

Spec == Init /\ [][Next]_vars
=============================================================================
