CONSTANTS
    a1 = a1
    a2 = a2
    v1 = v1
    v2 = v2
    Addr <- MCAddr
    Val <- MCVal
    InitBank <- MCInitBank
    InitDel <- MCInitDel
    Txs <- ReviveTxs
    Slashable = {}
    Precision = 2
    Horizon = 2
    MaxDay = 1
    MaxAmount = 2
SPECIFICATION Spec
INVARIANT LockupInvariant
