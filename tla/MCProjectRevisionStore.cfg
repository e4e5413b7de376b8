SPECIFICATION FairSpec
CONSTANTS
    Handlers = {p1, p2}
    Requests <- MCRequests
    Mortal = {p1}
    NoRequest = NoRequest
    NoSnapshot = NoSnapshot
INVARIANTS
    TypeOK
    RevisionChain
    AtMostOnce
    AcknowledgedIsDurable
    StaleIsFinal
PROPERTIES
    PublishedIsImmutable
    OrphanFailsClosed
    ImplementsLog
    ClaimsResolve
