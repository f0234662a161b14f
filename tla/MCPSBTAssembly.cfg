CONSTANTS
    p1 = p1  p2 = p2  p3 = p3
    t1 = t1  t2 = t2
    NoTx = NoTx
    Psbts <- MCPsbts
    Txs <- MCTxs
    Mutable <- OneMutable
    TxIns <- AllTxIns
    TxOuts <- MCTxOuts
    Verdict <- MCVerdict
    MaxLen = 2
SYMMETRY SymmetricPsbts
SPECIFICATION AssemblySpec
INVARIANTS
    AssemblyTypeOK
    LengthsTell
CHECK_DEADLOCK FALSE
