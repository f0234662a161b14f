CONSTANTS
    None = None
    Contexts = {"main", "other"}
    Main = "main"
    Identities <- MCIdentities
    Dispatchers <- TwoCoins
    Bases <- BaseDispatchers
    Identity <- MCIdentity
    Depends <- MCDepends
    ParamSets <- TwoCoinParams
    Default = "mainnet"
    Wallet <- MCWallet
    Psbt <- MCPsbt
    MaxTogether = 4
SPECIFICATION Spec
PROPERTY SelectionActivatesDepends
CHECK_DEADLOCK FALSE
