CONSTANTS
    k1 = k1  k2 = k2  k3 = k3
    alice = alice  bob = bob
    None = None
    ALL = "ALL"
    SigTypes = {"ALL", "NONE"}
    Copies <- MCCopies
    Keys <- MCKeys
    KeyStores <- MCKeyStores
    Script <- MCScript
    Threshold <- MCThreshold
    ForeignSigs = {}
    N = 2
    Kinds <- WrappedOnly
    Prepared <- Plain
    MaxBlobs = 0
    MaxForeign = 0
SYMMETRY SymmetricCopies
SPECIFICATION Spec
INVARIANT FinalHasNoNonfinalFields
