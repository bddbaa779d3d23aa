\* One new account and one old one, two requests at once, four codes, a failed
\* commit and a fault.
CONSTANTS
    ann = ann
    bob = bob
    q1 = q1
    q2 = q2
    Emails <- TwoEmails
    Legacy <- BobIsLegacy
    CodeIds <- FourCodes
    Requests <- TwoRequests
    Tries = 2
    MaxRollbacks = 1
    MaxFaults = 1
SPECIFICATION FairSpec
INVARIANTS ApprovedByOwnCode RevokedWasReplaced
PROPERTIES ApprovalIsKept RequestsEnd
