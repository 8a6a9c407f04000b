CONSTANTS
    v1 = v1
    v2 = v2
    malformed = malformed
    Val <- MCVal
    Delegations <- MCDelegations
    AllowLists <- MCAllowLists
    Height = 5
SPECIFICATION Spec
INVARIANT StartsRecorded
CHECK_DEADLOCK FALSE
