CONSTANTS
    k1 = k1  k2 = k2  k3 = k3
    alice = alice  bob = bob
    None = None
    ALL = "ALL"
    SigTypes = {"ALL", "NONE"}
    Copies <- MCCopies
    Keys <- MCKeys
    KeyStores <- MCKeyStores
    Script <- MCScript
    Threshold <- MCThreshold
    ForeignSigs <- MCForeignSigs
    N = 2
    Kinds <- Both
    Prepared <- AllPrepared
    MaxBlobs = 2
    MaxForeign = 1
SYMMETRY SymmetricCopies
SPECIFICATION Spec
INVARIANTS
    TypeOK
    FinalIsValid
    ReadyCanBeFinalized
    TransferKeepsReady
PROPERTY SigsKept
