\* One user, two one-time passwords, two requests at once, a fault.
CONSTANTS
    ann = ann
    o1 = o1
    o2 = o2
    t1 = t1
    t2 = t2
    t3 = t3
    q1 = q1
    q2 = q2
    Users <- OneUser
    OtpIds <- TwoOtps
    TokenIds <- ThreeTokens
    Requests <- TwoRequests
    OtpEnabled = TRUE
    MaxFaults = 1
SYMMETRY Symmetry
SPECIFICATION Spec
INVARIANTS SessionHasConsumedOtp RotationIsTraceable RedemptionsBoundedByRequests RedeemedOnceUnlessContested OneLiveTokenPerLogin LogoutEndsSession
