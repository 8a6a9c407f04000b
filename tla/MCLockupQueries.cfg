CONSTANTS
    v1 = v1
    Addr <- MCAddr
    Val <- MCVal
    InitBank <- MCInitBank
    InitDel <- MCInitDel
    Txs <- MCTxs
    Slashable = {}
    Precision = 1
    Horizon = 3
    MaxDay = 1
    MaxAmount = 1
    ScanLimit = {1, 2}
    PagerLimit = {0, 1, 2}
    DefaultLimit = 3
    Width = 3
SPECIFICATION QSpec
INVARIANTS ScanExact TotalIsSumOfAccounts PagerExact
