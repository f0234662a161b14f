CONSTANTS
    t1 = t1  t2 = t2
    k1 = k1  k2 = k2
    s1 = s1  s2 = s2
    n1 = n1  n2 = n2
    None = None
    Zero = Zero
    Threads <- MCThreads
    Interruptible <- MCInterruptible
    Keys <- MCKeys
    Sessions <- MCSessions
    Participants <- MCParticipants
    Nonces <- TwoNonces
    Rands = {r1, r2}
    Bufs = {b1}
SPECIFICATION FairSpec
INVARIANTS
    TypeOK
    NoSecretReuse
    SignedByBoundParticipant
    WipedAfterAttempt
    SeedNotLeftBehind
PROPERTIES
    ImplementsSingleUse
    LockReleased
CHECK_DEADLOCK FALSE
