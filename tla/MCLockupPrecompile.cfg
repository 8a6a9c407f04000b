CONSTANTS
    a1 = a1
    a2 = a2
    v1 = v1
    Addr <- MCAddr
    Val <- MCVal
    InitBank <- MCInitBank
    InitDel <- MCInitDel
    Txs <- MCTxs
    Calls <- MCCalls
    MaxCalls = 2
    Slashable = {}
    Precision = 1
    Horizon = 2
    MaxDay = 1
    MaxAmount = 2
SPECIFICATION PrecompileSpec
INVARIANT IndexAgreement
PROPERTIES OthersSpared ReadOnlyKeeps
