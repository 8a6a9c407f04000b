CONSTANTS
    Batch = 5
    Value = {1, 2, 3}
    MaxDelegations = 4
    Slack = 3
SPECIFICATION Spec
INVARIANT TotalIsSum
PROPERTY ScanAnswers
CHECK_DEADLOCK FALSE
