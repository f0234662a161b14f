CONSTANTS
    p1 = p1  p2 = p2  p3 = p3
    t1 = t1  t2 = t2
    NoTx = NoTx
    Psbts <- OnePsbt
    Txs <- MCTxs
    Mutable <- OneMutable
    TxIns <- AllTxIns
    TxOuts <- MCTxOuts
    Verdict <- MCVerdict
    MaxLen = 2
SPECIFICATION AssemblySpec
INVARIANT PartsMatch
CHECK_DEADLOCK FALSE
