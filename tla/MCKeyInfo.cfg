SPECIFICATION Spec
CONSTANTS
    A = A
    B = B
    Masters <- MCMasters
    Fingerprint <- MCFingerprint
    NoFingerprint = "none"
    NoInfo = NoInfo
    HardenedOffset = 3
    MaxPathLen = 2
    MaxDepth = 2
    DeriveIndexes = {0}
    PathTexts <- MCPathTexts
    Claims <- MCClaims
    TemplateLists <- MCTemplateLists
    Settings <- MCSettings
    Callbacks <- MCCallbacks
    Requests <- MCRequests
    MaxKeys = 2
    MaxTemplates = 2
SYMMETRY MCSymmetry
PROPERTY InfoAssignedOnce
