CONSTANTS
    a1 = a1
    a2 = a2
    v1 = v1
    Addr <- MCAddr
    Val <- MCVal
    InitBank <- MCInitBank
    InitDel <- MCInitDel
    Txs <- MCTxs
    Slashable = {}
    Precision = 1
    Horizon = 2
    MaxDay = 2
    MaxAmount = 2
SPECIFICATION Spec
INVARIANTS TypeOK ListsWellFormed IndexAgreement
PROPERTIES CommitmentKept ImplementsLedger
