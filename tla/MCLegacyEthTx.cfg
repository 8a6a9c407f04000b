CONSTANTS
    RejectsReserved = {TRUE, FALSE}
    Sent <- MCSent
    MaxEdits = 2
SPECIFICATION Spec
INVARIANTS ConvertedIsSent OldAccepted OthersAsDecoded
CHECK_DEADLOCK FALSE
