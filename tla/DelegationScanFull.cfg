CONSTANTS
    Batch = 5
    Value = {1, 2, 3}
    MaxDelegations = 5
    Slack = 3
SPECIFICATION Spec
PROPERTY ScanAnswers
CHECK_DEADLOCK FALSE
